---------------------------- MODULE SymbolStore ----------------------------
(***************************************************************************)
(* What a project promises to whoever looks something up in it: a place    *)
(* gets an entry once and keeps it, until the project is created anew or   *)
(* its file is lost.                                                       *)
(***************************************************************************)
CONSTANTS
    Place,      \* what a lookup is by
    Entry,      \* what it answers with
    Initially   \* the answers of a new project, at most one per place

VARIABLES
    readable,   \* is there a project?
    store       \* its answers; none when there is no project

Nothing == [p \in Place |-> {}]

Init == readable = FALSE /\ store = Nothing

Create == ~ readable /\ readable' = TRUE /\ store' = Initially

\* An import: places without an entry may get one.
Extend ==
    /\ readable /\ readable'
    /\ store' \in [Place -> {{}} \cup {{e} : e \in Entry}]
    /\ \A p \in Place : store[p] # {} => store'[p] = store[p]

Lose == readable /\ readable' = FALSE /\ store' = Nothing

Spec == Init /\ [][Create \/ Extend \/ Lose]_<<readable, store>>

=============================================================================
