------------------------------ MODULE Sublists ------------------------------
(***************************************************************************)
(* The loops that go through a sequence and skip elements.                 *)
(***************************************************************************)
EXTENDS Naturals, Sequences

(* The elements of s that are in S, in their order; kept[k] are those of   *)
(* the first k.                                                            *)
Sublist(s, S) ==
    LET kept[k \in 0..Len(s)] ==
            IF k = 0 THEN <<>>
            ELSE IF s[k] \in S THEN Append(kept[k - 1], s[k]) ELSE kept[k - 1]
    IN  kept[Len(s)]
=============================================================================
