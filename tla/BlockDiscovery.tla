--------------------------- MODULE BlockDiscovery ---------------------------
(***************************************************************************)
(* What the control-flow analysis promises, without blocks, edges or an    *)
(* order: starting from the function's entry it collects leaders, the      *)
(* positions at which a block starts; each new leader is somewhere a       *)
(* branch that control can reach may continue, and the analysis finishes   *)
(* only when no such position is missing.  It may also give up.            *)
(***************************************************************************)
EXTENDS InstructionFlow

VARIABLES code, leaders, status

vars == <<code, leaders, status>>

(* Positions control reaches from a leader known so far.                   *)
Reached == {p \in Positions : \E l \in leaders : RunsTo(code, l, p)}

Missing ==
    (UNION {BranchSuccs(code, p) : p \in {q \in Reached : IsBranch(code[q])}}) \ leaders

Init ==
    /\ code \in [Positions -> Insn]
    /\ leaders = {0}
    /\ status = "running"

Discover ==
    /\ status = "running"
    /\ \E t \in Missing : leaders' = leaders \cup {t}
    /\ UNCHANGED <<code, status>>

Finish ==
    /\ status = "running"
    /\ Missing = {}
    /\ status' = "done"
    /\ UNCHANGED <<code, leaders>>

GiveUp ==
    /\ status = "running"
    /\ status' \in {"aborted", "threw"}
    /\ UNCHANGED <<code, leaders>>

Next == Discover \/ Finish \/ GiveUp

Spec == Init /\ [][Next]_vars /\ WF_vars(Next)
=============================================================================
