------------------------ MODULE MCProjectLifecycle ------------------------
(***************************************************************************)
(* A DOL, two RELs, and the files that ppcdis makes of them: RELs that     *)
(* refer to the DOL and to each other, and sections that lie at the same   *)
(* index and offsets in all of them.                                       *)
(***************************************************************************)
EXTENDS ProjectLifecycle

Loc(b, o) == [binary |-> b, section |-> 1, offset |-> o]
Lab(b, o, t) == [location |-> Loc(b, o), type |-> t]
Rel(b, o, c, p) == [source |-> Loc(b, o), destination |-> Loc(c, p)]

Dol == [binary |-> "dol",
        labels |-> {Lab("dol", 0, "FUNCTION"), Lab("dol", 4, "DATA")},
        relocs |-> {}]

\* A REL with a label of the DOL it uses, and relocations to both others.
RelA == [binary |-> "a",
         labels |-> {Lab("a", 0, "FUNCTION"), Lab("dol", 4, "DATA")},
         relocs |-> {Rel("a", 0, "dol", 4), Rel("a", 4, "b", 8)}]

RelB == [binary |-> "b",
         labels |-> {Lab("b", 8, "FUNCTION"), Lab("b", 0, "LABEL")},
         relocs |-> {}]

AllTriples == {Dol, RelA, RelB}

\* registerRel24Relocs finds a branch in the first REL.
OneBranch == <<Rel("a", 8, "a", 0)>>

\* RVL binaries hold no symbols.
NoRows == <<>>

=============================================================================
