---------------------------- MODULE MCControlFlow ----------------------------
(* Instruction sets for the runs of ControlFlowAnalysis.                     *)
EXTENDS ControlFlowAnalysis

Make(kind, link, always, target) ==
    [kind |-> kind, link |-> link, always |-> always, target |-> target]

Plain  == Make("plain", FALSE, FALSE, External)

AllTargets == Positions \cup {External, Unresolved}

(* Every branch the predicates of insn_properties.h tell apart.             *)
AllInsns ==
    {Plain}
    \cup {Make("b", l, TRUE, t) : l \in BOOLEAN, t \in AllTargets}
    \cup {Make("bc", l, a, t) : l, a \in BOOLEAN, t \in AllTargets}
    \cup {Make(k, l, a, External) : k \in {"bclr", "bcctr"}, l, a \in BOOLEAN}

=============================================================================
