-------------------------- MODULE InstructionFlow --------------------------
(***************************************************************************)
(* The instructions of one function, as the predicates of insn_properties.h*)
(* see them, and where control may go from each.  Instructions are         *)
(* numbered from the function's start.                                     *)
(***************************************************************************)
EXTENDS Integers

CONSTANT Length    \* Function::length(): the number of instructions

ASSUME LengthAssumption == Length \in Nat

Positions == 0..(Length - 1)

External   == -1   \* a resolved branch target outside the function
Unresolved == -2   \* resolveTarget returns no location

Kinds == {"plain", "b", "bc", "bclr", "bcctr"}

Insn == [kind : Kinds, link : BOOLEAN, always : BOOLEAN,
         target : Positions \cup {External, Unresolved}]

(* A branch whose target is in the instruction, and one through LR or CTR. *)
HasTarget(insn) == insn.kind \in {"b", "bc"}
AtRuntime(insn) == insn.kind \in {"bclr", "bcctr"}
IsBranch(insn)  == HasTarget(insn) \/ AtRuntime(insn)

(* isLink, or a condition that may fail: the next instruction is reached.  *)
ComesBack(insn) == insn.link \/ (insn.kind # "b" /\ ~insn.always)

(* Where a branch at position p may continue inside the function, which    *)
(* may be the position after its last instruction.                         *)
BranchSuccs(code, p) ==
    (IF HasTarget(code[p]) THEN {code[p].target} \cap Positions ELSE {})
        \cup (IF ComesBack(code[p]) THEN {p + 1} ELSE {})

FlowSuccs(code, p) ==
    IF IsBranch(code[p]) THEN BranchSuccs(code, p) ELSE {p + 1}

(* Control runs from start to p without passing a branch.                  *)
RunsTo(code, start, p) ==
    start <= p /\ \A q \in Positions : start <= q /\ q < p => ~IsBranch(code[q])
=============================================================================
