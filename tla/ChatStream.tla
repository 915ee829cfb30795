----------------------------- MODULE ChatStream -----------------------------
(***************************************************************************)
(* The text side of a streamed chat reply: chat_sse_stream of              *)
(* src/src/server.rs.  The engine sends tokens, whose text arrives in       *)
(* pieces cut anywhere; the stream sends what is surely reasoning or        *)
(* content and holds back what may yet turn out to be a tag, a tool call or *)
(* a stop string.  Beside it stands what the non-streaming handler returns  *)
(* for the same text (Json).                                               *)
(*                                                                         *)
(* A text is a sequence of symbols, an offset the number of symbols before  *)
(* it.  A marker is "<" and the symbol that tells it from the others, so    *)
(* that every marker has a prefix in common with every other one and may be *)
(* cut by a piece; a symbol that names a marker occurs behind "<" only,     *)
(* elsewhere it would be like any letter.                                  *)
(*                                                                         *)
(* Which blocks of markup the tool parser accepts is abstracted to: those   *)
(* that are closed and hold a letter.  The scrubber, the role and usage     *)
(* chunks and the log lines are left out.                                  *)
(***************************************************************************)
EXTENDS Naturals, Sequences, SequencesExt, FiniteSetsExt

CONSTANTS Requests,  \* thinks: stream_starts_in_reasoning, by the prompt's tail or by hy_v3's
                     \* effort; opened: prompt_opened_think, by the tail alone; unclosed: the
                     \* option --unclosed-think; tools: does the reply hold tool calls; stop:
                     \* the request's stop string, <<>> is none
          Letters,   \* symbols that belong to no marker, Blank among them
          Blank,     \* white space
          MaxText,   \* length of a reply
          TwoTags    \* may one token's text end a think block and open another?

ThinkOpen == <<"<", "think">>
ThinkClose == <<"<", "/think">>
ToolOpen == <<"<", "tool_call">>
ToolClose == <<"<", "/tool_call">>
Tags == {ThinkOpen, ThinkClose, ToolOpen}
Names == {"think", "/think", "tool_call", "/tool_call"}

ASSUME ChatStreamAssumption ==
  /\ Blank \in Letters /\ Letters \cap ({"<"} \cup Names) = {}
  /\ Requests \subseteq
       [thinks : BOOLEAN, opened : BOOLEAN, unclosed : {"reasoning", "content"},
        tools : BOOLEAN, stop : Seq(Letters \cup {"<"} \cup Names)]
  /\ \A q \in Requests : q.opened => q.thinks
  /\ MaxText \in Nat /\ TwoTags \in BOOLEAN

VARIABLES req,    \* the request, one of Requests
          text,   \* everything the engine generated
          acc,    \* the stream's buffer: text, cut before a stop string
          start,  \* content_start, Nowhere while in reasoning
          reasonEmitted, contentEmitted,
          said,   \* for each symbol of text, what it was sent as
          calls,  \* the tool calls sent, each by its distance from the text's end
          pc      \* "stream", "cut" (by a stop string), "done" or "failed"

vars == <<req, text, acc, start, reasonEmitted, contentEmitted, said, calls, pc>>

Nowhere == MaxText + 1
LeastOf(S) == IF S = {} THEN Nowhere ELSE Min(S)

-----------------------------------------------------------------------------
(* Finding markers *)

IsAt(s, m, i) == i + Len(m) <= Len(s) /\ \A k \in DOMAIN m : s[i + k] = m[k]
Found(s, m, from) == {i \in from .. Len(s) : IsAt(s, m, i)}
Find(s, m, from) == LeastOf(Found(s, m, from))
Part(s, from, to) == SubSeq(s, from + 1, to)
From(s, from) == Part(s, from, Len(s))

\* The longest proper prefix of m that s ends with.
Overlap(s, m) ==
  LET fits(k) == k <= Len(s) /\ \A j \in 1 .. k : s[Len(s) - k + j] = m[j]
  IN Max({0} \cup {k \in 1 .. Len(m) - 1 : fits(k)})

\* The offset behind the white space at i.
PastBlanks(s, i) == Min({j \in i .. Len(s) : j = Len(s) \/ s[j + 1] # Blank})

\* The text before the first stop string.
Cut(s) == IF req.stop = <<>> THEN s ELSE Part(s, 0, Min({Find(s, req.stop, 0), Len(s)}))

StopMark == IF req.stop = <<>> THEN {} ELSE {req.stop}
\* Mutant: a stop string that has begun is sent.
ContentMarksTagOnly == {ThinkOpen}
ContentMarks == {ThinkOpen} \cup StopMark

\* How far the stream may send: to a tool call that has begun, or to the first symbol
\* that may be part of a marker.  `hit` is where the tool marker was found.
HoldBackEnd(hit, limit, region, marks) ==
  IF req.tools /\ hit # Nowhere THEN hit
  ELSE limit - Max({0} \cup {Overlap(region, m) :
                             m \in marks \cup (IF req.tools THEN {ToolOpen} ELSE {})})

-----------------------------------------------------------------------------
(* The finished text *)

\* A close tag at i is text of a tool call that is open there.
InsideCall(s, i) ==
  LET opens == Found(Part(s, 0, i), ToolOpen, 0)
      closes == Found(Part(s, 0, i), ToolClose, 0)
  IN opens # {} /\ \A c \in closes : c < Max(opens)

\* The close tag that ends the reasoning.
Boundary(s) ==
  LeastOf({i \in Found(s, ThinkClose, 0) : req.thinks \/ ~InsideCall(s, i)})

\* split_think_in: where the reasoning and where the content is.
Reasoning(s) ==
  IF Boundary(s) = Nowhere THEN <<>>
  ELSE Part(s, IF IsAt(Part(s, 0, Boundary(s)), ThinkOpen, 0) THEN Len(ThinkOpen) ELSE 0, Boundary(s))
ContentFrom(s) ==
  IF Boundary(s) = Nowhere THEN 0 ELSE PastBlanks(s, Boundary(s) + Len(ThinkClose))

\* The blocks the tool parser reads in the text from `from` on, each by its distance from
\* the end.
Calls(s, from) ==
  {Len(s) - i : i \in
     {i \in Found(s, ToolOpen, from) :
        LET c == Find(s, ToolClose, i) IN
        /\ c # Nowhere
        /\ Find(s, ToolOpen, i + 1) > c
        /\ \E k \in i + 1 .. c : s[k] \in Letters \ {Blank}}}
Parsed(s, from) == IF req.tools THEN Calls(s, from) ELSE {}

\* A block nobody closed is reasoning to the non-streaming handler only if the prompt opened
\* it, which hy_v3's effort does not, and the option does not make it content.
UnclosedThink(t) == req.opened /\ Found(t, ThinkClose, 0) = {} /\ req.unclosed = "reasoning"

\* What the non-streaming handler returns: prose after a call is left out on both sides.
Json ==
  LET t == Cut(text)
      unclosed == UnclosedThink(t)
      marker == IF req.tools THEN Min({Find(t, ToolOpen, 0), Len(t)}) ELSE Len(t)
      from == IF unclosed THEN marker ELSE ContentFrom(t)
      found == Parsed(t, from)
  IN [reasoning |-> IF unclosed THEN Part(t, 0, marker) ELSE Reasoning(t),
      content |-> IF found = {} THEN From(t, from) ELSE Part(t, from, Find(t, ToolOpen, from)),
      calls |-> found]

-----------------------------------------------------------------------------
(* The stream *)

\* acc[from .. to) leaves as `kind`.
Sent(was, kind, from, to) ==
  [i \in 1 .. Len(was) |->
     IF i \notin from + 1 .. to THEN was[i] ELSE IF was[i] = "held" THEN kind ELSE "again"]

Init ==
  /\ req \in Requests
  /\ text = <<>> /\ acc = <<>> /\ said = <<>> /\ calls = {}
  /\ start = IF req.thinks THEN Nowhere ELSE 0
  /\ reasonEmitted = 0 /\ contentEmitted = 0
  /\ pc = "stream"

\* A stop string cut the buffer below what was sent.
CutBelow(b) ==
  \/ Max({reasonEmitted, contentEmitted}) > Len(b)
  \/ start # Nowhere /\ start > Len(b)

SaysNothing(b, was) ==
  /\ CutBelow(b)
  /\ said' = was
  /\ UNCHANGED <<start, reasonEmitted, contentEmitted>>

\* The think block ends in b; what follows the tag is content already.
EndsThinking(b, was) ==
  LET idx == Find(b, ThinkClose, reasonEmitted)
      lead == PastBlanks(b, idx + Len(ThinkClose))
      end == HoldBackEnd(Find(b, ToolOpen, lead), Len(b), From(b, lead), ContentMarks)
  IN /\ start = Nowhere /\ idx # Nowhere
     /\ said' = Sent(Sent(was, "reasoning", reasonEmitted, idx), "content", lead, end)
     /\ start' = lead /\ contentEmitted' = end
     /\ UNCHANGED reasonEmitted

Thinks(b, was) ==
  LET safe == Max({Len(b) - Overlap(b, ThinkClose), reasonEmitted})
      end == HoldBackEnd(Find(Part(b, 0, safe), ToolOpen, reasonEmitted), safe,
                         Part(b, reasonEmitted, safe), StopMark)
  IN /\ start = Nowhere /\ Find(b, ThinkClose, reasonEmitted) = Nowhere
     /\ said' = Sent(was, "reasoning", reasonEmitted, end)
     /\ reasonEmitted' = Max({reasonEmitted, end})
     /\ UNCHANGED <<start, contentEmitted>>

\* The think tag that opens a block in the content: not one inside a held call.
OpenTag(b) ==
  LET open == Find(b, ThinkOpen, start) IN
  IF req.tools /\ Find(b, ToolOpen, start) < open THEN Nowhere ELSE open

StartsThinking(b, was) ==
  /\ start # Nowhere /\ OpenTag(b) # Nowhere
  /\ said' = Sent(was, "content", contentEmitted, OpenTag(b))
  /\ start' = Nowhere /\ reasonEmitted' = OpenTag(b) + Len(ThinkOpen)
  /\ UNCHANGED contentEmitted

Answers(b, was) ==
  LET end == HoldBackEnd(Find(b, ToolOpen, start), Len(b), From(b, start), ContentMarks)
  IN /\ start # Nowhere /\ OpenTag(b) = Nowhere
     /\ said' = Sent(was, "content", contentEmitted, end)
     /\ contentEmitted' = Max({contentEmitted, end})
     /\ UNCHANGED <<start, reasonEmitted>>

\* One token with its text.
Token(piece) ==
  LET b == Cut(acc \o piece)
      was == said \o [i \in 1 .. Len(piece) |-> "held"]
  IN /\ pc = "stream"
     /\ text' = text \o piece /\ acc' = b
     /\ pc' = IF Len(b) < Len(acc \o piece) THEN "cut" ELSE "stream"
     /\ \/ SaysNothing(b, was)
        \/ ~CutBelow(b) /\ EndsThinking(b, was)
        \/ ~CutBelow(b) /\ Thinks(b, was)
        \/ ~CutBelow(b) /\ StartsThinking(b, was)
        \/ ~CutBelow(b) /\ Answers(b, was)
     /\ UNCHANGED <<req, calls>>

\* Mutant: only what stands behind a tool marker is kept for the end.
HeldTailCallOnly(was) ==
  IF Find(acc, ToolOpen, 0) = Nowhere THEN was
  ELSE Sent(was, "content", Find(acc, ToolOpen, 0), Len(acc))
\* What the stream has not sent, as a part of reasoning and a part of content: cut at the
\* tool marker, and at a close tag before it.
HeldTail(was) ==
  LET from == Max({reasonEmitted, contentEmitted})
      marker == IF req.tools THEN Min({Find(acc, ToolOpen, from), Len(acc)}) ELSE Len(acc)
      close == Find(acc, ThinkClose, from)
  IN IF from >= Len(acc) THEN was
     ELSE IF start # Nowhere THEN Sent(was, "content", from, Len(acc))
     ELSE IF close < marker
     THEN Sent(Sent(was, "reasoning", from, close),
               "content", PastBlanks(acc, close + Len(ThinkClose)), Len(acc))
     ELSE Sent(Sent(was, "reasoning", from, marker), "content", marker, Len(acc))

\* The end of the stream: the calls of the whole text, or else the rest of it, which an
\* engine error keeps back.
Finish(failed) ==
  /\ pc \in {"stream", "cut"} /\ (pc = "cut" => ~failed)
  /\ calls' = Parsed(acc, ContentFrom(acc))
  /\ said' = IF calls' # {} \/ failed THEN said ELSE HeldTail(said)
  /\ pc' = IF failed THEN "failed" ELSE "done"
  /\ UNCHANGED <<req, text, acc, start, reasonEmitted, contentEmitted>>

\* What a token's text may be: the name of a marker follows "<", in the piece or before it.
Follows(s, x) == x \in Names => s # <<>> /\ Last(s) = "<"
Pieces ==
  [n \in 1 .. MaxText |->
     {p \in [1 .. n -> Letters \cup {"<"} \cup Names] :
        \A i \in 2 .. n : Follows(SubSeq(p, 1, i - 1), p[i])}]

\* The token that completes the close tag brings an open tag with it.
Reopens(piece) ==
  LET s == From(acc, reasonEmitted) \o piece IN
  start = Nowhere /\ \E i \in Found(s, ThinkClose, 0) : Found(s, ThinkOpen, i) # {}

Next ==
  \/ \E n \in 1 .. MaxText - Len(text) : \E piece \in Pieces[n] :
       /\ Follows(text, Head(piece)) /\ (Reopens(piece) => TwoTags)
       /\ Token(piece)
  \/ \E failed \in BOOLEAN : Finish(failed)

Spec == Init /\ [][Next]_vars

-----------------------------------------------------------------------------
(* Properties *)

Says(kind) ==
  LET picked[i \in 0 .. Len(said)] ==
        IF i = 0 THEN <<>>
        ELSE IF said[i] = kind THEN Append(picked[i - 1], text[i]) ELSE picked[i - 1]
  IN picked[Len(said)]
Trim(s) ==
  LET letters == {i \in DOMAIN s : s[i] # Blank} IN
  IF letters = {} THEN <<>> ELSE SubSeq(s, Min(letters), Max(letters))

\* The reply has the shape its prompt asks for: behind an opened think block no other is
\* opened; else no think tag at all, or one block at the reply's start that is closed
\* before any tool call.
Ordinary(t) ==
  LET opens == Found(t, ThinkOpen, 0)
      closes == Found(t, ThinkClose, 0)
  IN IF req.thinks THEN opens = {}
     ELSE \/ opens = {} /\ closes = {}
          \/ opens = {0} /\ closes # {} /\ Find(t, ThinkClose, 0) < Find(t, ToolOpen, 0)

\* A stop string ended the reply, and it overlaps a tag: it begins inside the tag, or it
\* begins before the tag's end and goes on behind it.
Stopped == pc = "done" /\ Len(acc) < Len(text)
StopInTag ==
  Stopped /\ \E m \in Tags : \E i \in Found(text, m, 0) : i < Len(acc) /\ Len(acc) < i + Len(m)
StopOverTag ==
  Stopped /\ \E m \in Tags : \E i \in Found(text, m, 0) :
    Len(acc) <= i /\ i + Len(m) < Len(acc) + Len(req.stop)

\* The stop string begins in the white space behind the close tag, which is not held back.
StopInBlanks ==
  Stopped /\ LET c == Find(text, ThinkClose, 0) IN
    c # Nowhere /\ c + Len(ThinkClose) <= Len(acc) /\ Len(acc) < PastBlanks(text, c + Len(ThinkClose))

\* The think block was opened and closed by the reply's last token, with a call behind it:
\* the stream was still to look behind the open tag, and the call ends it (server.rs:1703).
BlockSwallowed == start = Nowhere /\ calls # {} /\ Found(acc, ThinkClose, 0) # {}

\* A block that was not closed, which the stream took for reasoning by stream_starts_in_reasoning
\* and the JSON takes for content: hy_v3's effort beside a prompt that closed the block, or
\* --unclosed-think content (server.rs:2394-2401).
NamedApart ==
  req.thinks /\ Found(acc, ThinkClose, 0) = {} /\ (req.opened => req.unclosed = "content")

\* However the reply is cut into tokens, its stream and its JSON say the same: the same
\* reasoning, content and calls up to the white space around them ("can never diverge
\* again", tools.rs:1734-1741), for every stop string but one that overlaps a tag
\* (server.rs:1624-1631) or begins in the white space behind it.  Where the modes name an
\* unclosed block apart, the JSON's content is what the stream sent as reasoning and
\* content, and the calls are the same.
ModesAgree ==
  pc = "done" /\ Ordinary(acc) /\ ~StopInTag /\ ~StopOverTag /\ ~StopInBlanks /\ ~BlockSwallowed =>
    /\ calls = Json.calls
    /\ IF NamedApart
       THEN /\ Json.reasoning = <<>>
            /\ Trim(Says("reasoning") \o Says("content")) = Trim(Json.content)
       ELSE /\ Trim(Says("reasoning")) = Trim(Json.reasoning)
            /\ Trim(Says("content")) = Trim(Json.content)

\* Symbols the stream may keep to itself: think tags and white space behind a close tag.
Silent(i) ==
  \/ \E m \in {ThinkOpen, ThinkClose} : \E j \in Found(acc, m, 0) : i \in j + 1 .. j + Len(m)
  \/ \E j \in Found(acc, ThinkClose, 0) :
       i \in j + 1 .. PastBlanks(acc, j + Len(ThinkClose))

\* Whatever the model writes, tags out of place included, no text is sent twice, and a
\* reply without calls is sent to its last symbol ("streaming can never silently drop
\* text", server.rs:1740-1745).
NothingLost ==
  /\ \A i \in DOMAIN said : said[i] # "again"
  /\ pc = "done" /\ calls = {} /\ ~StopInTag =>
       \A i \in 1 .. Len(acc) : said[i] = "held" => Silent(i)
=============================================================================
