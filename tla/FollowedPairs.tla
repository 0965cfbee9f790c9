--------------------------- MODULE FollowedPairs ---------------------------
(***************************************************************************)
(* FlowComparator with a history: the pairs whose inputs have been looked  *)
(* at.                                                                     *)
(***************************************************************************)
EXTENDS FlowComparator

VARIABLE looked

LooksOf(s) == {s[i].pair : i \in {i \in DOMAIN s : s[i].next > 0}}
Looks == LooksOf(stack)

RecordedInit == Init /\ looked = {}
RecordedNext == Next /\ looked' = looked \cup Looks'
RecordedVars == <<vars, looked>>

RecordedSpec ==
    RecordedInit /\ [][RecordedNext]_RecordedVars /\ WF_RecordedVars(RecordedNext)

\* "Caches the result of comparison between varnodes": the inputs of a pair
\* are followed once, however many paths lead to it.
FollowedOnce ==
    [][\A p \in Looks' : p \in looked /\ p \notin Looks
            => func1.nodes[p[1]].inputs = <<>>]_RecordedVars

=============================================================================
