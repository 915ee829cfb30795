------------------------------- MODULE Lists -------------------------------
(***************************************************************************)
(* Two operations on the lists the server keeps (queues, the entries of    *)
(* the disk policy, checkpoints): what retain and remove leave of one.     *)
(***************************************************************************)
EXTENDS Integers, SequencesExt

\* A list without the elements outside `keep`.
Only(queue, keep) ==
    LET kept[i \in 0..Len(queue)] ==
            IF i = 0 THEN <<>>
            ELSE IF queue[i] \in keep THEN Append(kept[i - 1], queue[i]) ELSE kept[i - 1]
    IN  kept[Len(queue)]

\* A list that names `key` at most once, without it.
Without(keys, key) ==
    IF key \notin ToSet(keys) THEN keys
    ELSE LET pos == CHOOSE i \in DOMAIN keys : keys[i] = key
         IN  [i \in 1..(Len(keys) - 1) |-> IF i < pos THEN keys[i] ELSE keys[i + 1]]
=============================================================================
