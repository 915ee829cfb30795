---------------------------- MODULE MCChatStream ----------------------------
(* Small instances of ChatStream.                                            *)
EXTENDS ChatStream

\* A prompt that ends in an open think tag, with --unclosed-think as given; hy_v3's low or
\* high effort beside a prompt that ends in a closed block; any other prompt of that kind.
Opened(unclosed) == [thinks |-> TRUE, opened |-> TRUE, unclosed |-> unclosed]
ByEffort == [thinks |-> TRUE, opened |-> FALSE, unclosed |-> "reasoning"]
Answered == [thinks |-> FALSE, opened |-> FALSE, unclosed |-> "reasoning"]

Request(prompt, tools, stop) == prompt @@ [tools |-> tools, stop |-> stop]

\* Every kind of prompt, with tools and without; a stop string that repeats its first
\* symbol, one that begins and goes on like a marker, one that may overlap a tag's end, one that
\* has a tag in it, one that begins with white space.
ThirteenRequests ==
  {Request(prompt, tools, <<>>) :
     prompt \in {Opened("reasoning"), Opened("content"), ByEffort, Answered}, tools \in BOOLEAN} \cup
  {Request(Opened("reasoning"), TRUE, <<"a", "a">>),
   Request(Answered, TRUE, <<"a", "<", "a">>),
   Request(ByEffort, FALSE, <<"/think", "a">>),
   Request(Opened("reasoning"), FALSE, <<"a", "<", "/think", "a">>),
   Request(Opened("reasoning"), TRUE, <<" ", "a", "a">>)}
=============================================================================
