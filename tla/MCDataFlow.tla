----------------------------- MODULE MCDataFlow -----------------------------
(* Functions for the runs of DataFlowAnalysis: a line is an instruction    *)
(* with its operands, and every function ends in blr.                      *)
EXTENDS DataFlowAnalysis

Make(kind, link, target) ==
    [kind |-> kind, link |-> link, always |-> kind # "bc", target |-> target]

Plain == Make("plain", FALSE, External)
Blr   == Make("bclr", FALSE, External)
BlExt == Make("b", TRUE, External)
Bc(t) == Make("bc", FALSE, t)

SomeInsns == {Plain, Blr, BlExt} \cup {Bc(t) : t \in Positions}

None      == [uses |-> {}, defs |-> {}, store |-> FALSE, supported |-> TRUE]
Def(r)    == <<Plain, [None EXCEPT !.defs = {r}]>>
Copy(r, s) == <<Plain, [None EXCEPT !.uses = {r}, !.defs = {s}]>>
Store(r)  == <<Plain, [None EXCEPT !.uses = {r}, !.store = TRUE]>>
Branch(t) == <<Bc(t), None>>
Call0     == <<BlExt, None>>
Ret       == <<Blr, None>>
Lmw       == <<Plain, [None EXCEPT !.supported = FALSE]>>

Fun(lines) ==
    [code |-> [p \in Positions |-> lines[p + 1][1]],
     ops  |-> [p \in Positions |-> lines[p + 1][2]]]

Bodies(Line) == {Fun(Append(l, Ret)) : l \in [1..(Length - 1) -> Line]}

(* A loop or a call around an instruction that instructionUD refuses, and   *)
(* bodies that end in a call or a conditional branch.                      *)
Unusual ==
    {Fun(<<Def("r3"), l, Lmw, Ret, Ret>>) : l \in {Call0, Branch(0), Branch(3)}}
        \cup {Fun(<<Def("r3"), Branch(3), Ret, Ret, l>>) : l \in {Call0, Branch(0)}}
        \cup {Fun(<<Def("r3"), Branch(4), Ret, Ret, l>>) : l \in {Call0, Branch(0)}}

(* Every shape of loop, join and early return that so many instructions can *)
(* make, with calls: r31 survives them, they kill r5 and return r3.        *)
CallsAndLoops ==
    Unusual \cup
    Bodies({Def("r5"), Copy("r5", "r5"), Copy("r3", "r31"), Store("r5"), Call0, Ret}
               \cup {Branch(t) : t \in Positions})

(* A conditional assignment in a loop.                                     *)
ConditionalInLoop == {Fun(<<Branch(2), Def("r3"), Branch(0), Ret>>)}

(* Two conditional assignments in nested loops.                            *)
NestedLoops ==
    {Fun(<<Branch(4), Def("r3"), Branch(4), Branch(6), Def("r3"), Branch(3),
           Branch(8), Branch(0), Ret>>)}
=============================================================================
