------------------------------ MODULE Meeting ------------------------------
(***************************************************************************)
(* What a lockstep point promises the ranks of a tensor-parallel group     *)
(* (the comment above TpSync::step_go_hub in src/src/exl3_serve.rs): a     *)
(* rank leaves it with every rank's words of this point, which it would    *)
(* accept, or it does not leave it.                                        *)
(***************************************************************************)
EXTENDS Naturals, Sequences

CONSTANTS
    Ranks,          \* the ranks of the group
    Words,          \* what a rank may bring
    Accepts(_)      \* the verdict on [Ranks -> Words]

VARIABLES
    said,           \* per rank: what it brought, one entry per point it has come to
    met             \* per rank: all ranks' words, one entry per point it has left

vars == <<said, met>>

Init ==
    /\ said = [k \in Ranks |-> <<>>]
    /\ met = [k \in Ranks |-> <<>>]

Come(k) ==
    /\ Len(said[k]) = Len(met[k])
    /\ \E w \in Words : said' = [said EXCEPT ![k] = Append(@, w)]
    /\ UNCHANGED met

\* All ranks have come to the point, and their words agree.
Go(k) ==
    LET n == Len(met[k]) + 1
        words == [j \in Ranks |-> said[j][n]]
    IN  /\ \A j \in Ranks : Len(said[j]) >= n
        /\ Accepts(words)
        /\ met' = [met EXCEPT ![k] = Append(@, words)]
        /\ UNCHANGED said

Next == \E k \in Ranks : Come(k) \/ Go(k)

Spec == Init /\ [][Next]_vars
=============================================================================
