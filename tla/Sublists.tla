------------------------------ MODULE Sublists ------------------------------
(* A walk over a list that keeps some of the entries, in their order.      *)
EXTENDS Integers, Sequences

(* The entries of s that are in T.  A recursive function and not SelectSeq *)
(* so that what it leaves of a list can be proved.                         *)
Sublist(s, T) ==
    LET kept[i \in 0..Len(s)] ==
            IF i = 0 THEN <<>>
            ELSE IF s[i] \in T THEN Append(kept[i - 1], s[i]) ELSE kept[i - 1]
    IN  kept[Len(s)]
=============================================================================
