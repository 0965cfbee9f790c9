------------------------ MODULE ControlFlowAnalysis ------------------------
(***************************************************************************)
(* The control-flow analysis of one function: ControlFlowAnalysis.cpp over *)
(* the graph of ControlFlowGraph.hpp.  functionCFA recurses into a block   *)
(* as soon as it has created it, in the middle of scanning another one, so *)
(* the analysis is a depth-first search whose call stack is the variable   *)
(* stack; every call into the graph is one step.                           *)
(*                                                                         *)
(* Instructions are numbered from the function's start, as in the code;    *)
(* block indices are those of the code plus one (blocks is a sequence).    *)
(***************************************************************************)
EXTENDS InstructionFlow, Sequences, FiniteSets

CONSTANTS
    Insns,     \* the instructions a function may be made of
    AssertsOn  \* TRUE in a build without NDEBUG

ASSUME InsnsAssumption   == Insns \subseteq Insn
ASSUME AssertsAssumption == AssertsOn \in BOOLEAN

VARIABLES
    code,     \* the function's instructions
    blocks,   \* ControlFlowGraph::blocks
    psTable,  \* ControlFlowGraph::psTable
    stack,    \* the activations of functionCFA(func, blockIdx)
    status    \* how the outermost call ended, if it has

graph == <<blocks, psTable>>
vars  == <<code, blocks, psTable, stack, status>>

BlockTypes == {"INTERNAL", "EXTERNAL", "RUNTIME"}
Block == [start : Nat, end : Nat, type : BlockTypes, isExit : BOOLEAN,
          endsInCall : BOOLEAN, endsInTailCall : BOOLEAN]
PSEntry == [pred : Seq(Nat \ {0}), succ : Seq(Nat \ {0})]

(***************************************************************************)
(* phase is where an activation stands in the body of its loop: about to   *)
(* read the instruction at pc, after handling its branch, or after the     *)
(* successor at pc + 1 has been dealt with.                                *)
(***************************************************************************)
Frame == [block : Nat \ {0}, pc : Nat, phase : {"scan", "branched", "returned"}]
Statuses == {"running", "done", "aborted", "threw"}

(* The types of ControlFlowGraph's members and of the recursion's locals.   *)
TypeOK ==
    /\ code \in [Positions -> Insns]
    /\ blocks \in Seq(Block)
    /\ psTable \in Seq(PSEntry)
    /\ stack \in Seq(Frame)
    /\ status \in Statuses

----------------------------------------------------------------------------
(* ControlFlowGraph.                                                       *)

(* A definition named ..Slip is the next one with a plausible mistake in it: *)
(* the properties at the end of the module tell the two apart.             *)
NewBlockSlip(start, type) ==    \* end is exclusive
    [start |-> start, end |-> start - 1, type |-> type, isExit |-> FALSE,
     endsInCall |-> FALSE, endsInTailCall |-> FALSE]

NewBlock(start, type) ==
    [start |-> start, end |-> start, type |-> type, isExit |-> FALSE,
     endsInCall |-> FALSE, endsInTailCall |-> FALSE]

EmptyEntry == [pred |-> <<>>, succ |-> <<>>]

First(S) == CHOOSE i \in S : \A j \in S : i <= j

(* 0 stands for the code's -1. *)
FirstOrNone(S) == IF S = {} THEN 0 ELSE First(S)

findBlockByInsnIdxSlip(idx) ==    \* the loop starts at the block after the first
    FirstOrNone({i \in DOMAIN blocks \ {1} :
                    blocks[i].start <= idx /\ idx <= blocks[i].end})

findBlockByInsnIdx(idx) ==
    FirstOrNone({i \in DOMAIN blocks : blocks[i].start <= idx /\ idx <= blocks[i].end})

findInternalBlockByPositionSlip(pos) ==    \* the wrong type is passed on
    FirstOrNone({i \in DOMAIN blocks : blocks[i].start = pos /\ blocks[i].type = "EXTERNAL"})

findInternalBlockByPosition(pos) ==
    FirstOrNone({i \in DOMAIN blocks : blocks[i].start = pos /\ blocks[i].type = "INTERNAL"})

LinkSlip(table, from, to) ==    \* the predecessors are overwritten
    LET t == [table EXCEPT ![from].succ = Append(@, to)]
    IN  [t EXCEPT ![to].pred = <<from>>]

Link(table, from, to) ==
    LET t == [table EXCEPT ![from].succ = Append(@, to)]
    IN  [t EXCEPT ![to].pred = Append(@, from)]

LinkExistingSlip(origin, branchPos, existing) ==    \* the target is cut short
    /\ blocks' = [blocks EXCEPT ![existing].end = branchPos]
    /\ psTable' = Link(Append(psTable, EmptyEntry), origin, existing)

(* tryCreateSuccessorInternal when a block already starts at the target: an *)
(* entry is pushed all the same.                                           *)
LinkExisting(origin, branchPos, existing) ==
    /\ blocks' = [blocks EXCEPT ![origin].end = branchPos]
    /\ psTable' = Link(Append(psTable, EmptyEntry), origin, existing)

LinkNewSlip(origin, branchPos, block) ==    \* end is exclusive
    /\ blocks' = Append([blocks EXCEPT ![origin].end = branchPos - 1], block)
    /\ psTable' = Link(Append(psTable, EmptyEntry), origin, Len(blocks) + 1)

(* createSuccessorExternal, createSuccessorRuntime, and the other branch of *)
(* tryCreateSuccessorInternal.                                             *)
LinkNew(origin, branchPos, block) ==
    /\ blocks' = Append([blocks EXCEPT ![origin].end = branchPos], block)
    /\ psTable' = Link(Append(psTable, EmptyEntry), origin, Len(blocks) + 1)

createSuccessorFallthrough(origin, pos, next) ==
    /\ blocks' = [blocks EXCEPT ![origin].end = pos]
    /\ psTable' = Link(psTable, origin, next)

hasExternalSuccessorSlip(b) == psTable[b].succ # <<>>    \* of any type

hasExternalSuccessor(b) ==
    \E k \in DOMAIN psTable[b].succ : blocks[psTable[b].succ[k]].type # "INTERNAL"

----------------------------------------------------------------------------
(* ControlFlowAnalysis.                                                    *)

Top == stack[Len(stack)]
At(phase) == status = "running" /\ stack # <<>> /\ Top.phase = phase

SetTop(frame) == [stack EXCEPT ![Len(stack)] = frame]
CallSlip(s, b, start) ==    \* the first instruction is skipped
    Append(s, [block |-> b, pc |-> start + 1, phase |-> "scan"])

Call(s, b, start) == Append(s, [block |-> b, pc |-> start, phase |-> "scan"])

(* The loop of the top activation ends; the outermost one ends the run.    *)
Return ==
    /\ stack' = SubSeq(stack, 1, Len(stack) - 1)
    /\ status' = IF Len(stack) = 1 THEN "done" ELSE "running"

Stop(how) ==
    /\ status' = how
    /\ UNCHANGED <<code, blocks, psTable, stack>>

(* tryCreateSuccessorInternal, and the recursion into a block it created.  *)
Enter(target, phase) ==
    LET f        == Top
        existing == findInternalBlockByPosition(target)
        resumed  == SetTop([f EXCEPT !.phase = phase])
    IN  \/ /\ existing # 0
           /\ LinkExisting(f.block, f.pc, existing)
           /\ stack' = resumed
        \/ /\ existing = 0
           /\ LinkNew(f.block, f.pc, NewBlock(target, "INTERNAL"))
           /\ stack' = Call(resumed, Len(blocks) + 1, target)

Init ==
    /\ code \in [Positions -> Insns]
    /\ blocks = <<NewBlock(0, "INTERNAL")>>
    /\ psTable = <<EmptyEntry>>
    /\ stack = Call(<<>>, 1, 0)
    /\ status = "running"

ScanPlainSlip ==    \* the loop goes on without pc++
    /\ At("scan")
    /\ Top.pc < Length
    /\ ~IsBranch(code[Top.pc])
    /\ LET next == findInternalBlockByPosition(Top.pc + 1)
       IN  IF Top.pc + 1 < Length /\ next # 0
           THEN createSuccessorFallthrough(Top.block, Top.pc, next) /\ Return
           ELSE UNCHANGED <<graph, stack, status>>
    /\ UNCHANGED code

(* An instruction that is not a branch.                                    *)
ScanPlain ==
    /\ At("scan")
    /\ Top.pc < Length
    /\ ~IsBranch(code[Top.pc])
    /\ LET next == findInternalBlockByPosition(Top.pc + 1)
       IN  \/ /\ Top.pc + 1 < Length /\ next # 0
              /\ createSuccessorFallthrough(Top.block, Top.pc, next)
              /\ Return
           \/ /\ ~(Top.pc + 1 < Length /\ next # 0)
              /\ stack' = SetTop([Top EXCEPT !.pc = @ + 1])
              /\ UNCHANGED <<graph, status>>
    /\ UNCHANGED code

(* The loop condition pc < func.length() fails: end keeps its first value. *)
RunOffEnd ==
    /\ At("scan")
    /\ Top.pc >= Length
    /\ Return
    /\ UNCHANGED <<code, graph>>

(* handleBranch, whose resolveTarget(...).value() may throw.               *)
HandleBranch ==
    /\ At("scan")
    /\ Top.pc < Length
    /\ LET insn == code[Top.pc]
       IN  /\ HasTarget(insn)
           /\ \/ /\ insn.target \in Positions
                 /\ Enter(insn.target, "branched")
                 /\ UNCHANGED <<code, status>>
              \/ /\ insn.target = External
                 /\ LinkNew(Top.block, Top.pc, NewBlock(Top.pc, "EXTERNAL"))
                 /\ stack' = SetTop([Top EXCEPT !.phase = "branched"])
                 /\ UNCHANGED <<code, status>>
              \/ insn.target = Unresolved /\ Stop("threw")

(* createSuccessorRuntime for bclr and bcctr.                              *)
RuntimeBranch ==
    /\ At("scan")
    /\ Top.pc < Length
    /\ AtRuntime(code[Top.pc])
    /\ LinkNew(Top.block, Top.pc, NewBlock(Top.pc, "RUNTIME"))
    /\ stack' = SetTop([Top EXCEPT !.phase = "branched"])
    /\ UNCHANGED <<code, status>>

AfterBranchSlip ==    \* the instruction after the next one, unasserted
    /\ At("branched")
    /\ ComesBack(code[Top.pc])
    /\ Enter(Top.pc + 2, "returned")
    /\ UNCHANGED <<code, status>>

(* A call or a conditional branch: the instruction after it starts a block. *)
AfterBranch ==
    /\ At("branched")
    /\ ComesBack(code[Top.pc])
    /\ \/ /\ AssertsOn /\ Top.pc + 1 >= Length
          /\ Stop("aborted")
       \/ /\ ~(AssertsOn /\ Top.pc + 1 >= Length)
          /\ Enter(Top.pc + 1, "returned")
          /\ UNCHANGED <<code, status>>

EndCall ==
    /\ At("returned")
    /\ blocks' = [blocks EXCEPT ![Top.block].endsInCall = @ \/ code[Top.pc].link]
    /\ Return
    /\ UNCHANGED <<code, psTable>>

(* A branch that does not come back: a return, a tail call, or a jump.     *)
EndBlock ==
    /\ At("branched")
    /\ ~ComesBack(code[Top.pc])
    /\ LET insn == code[Top.pc]
           b    == Top.block
       IN  blocks' =
             IF insn.kind = "bclr" THEN [blocks EXCEPT ![b].isExit = TRUE]
             ELSE IF Top.pc + 1 = Length /\ hasExternalSuccessor(b)
             THEN [blocks EXCEPT ![b].isExit = TRUE, ![b].endsInCall = TRUE,
                                 ![b].endsInTailCall = TRUE]
             ELSE blocks
    /\ Return
    /\ UNCHANGED <<code, psTable>>

Terminated == status # "running" /\ UNCHANGED vars

Next ==
    \/ ScanPlain \/ RunOffEnd \/ HandleBranch \/ RuntimeBranch
    \/ AfterBranch \/ EndCall \/ EndBlock \/ Terminated

(* One thread runs the analysis, and nothing in it waits.                  *)
Spec == Init /\ [][Next]_vars /\ WF_vars(Next)

----------------------------------------------------------------------------
(* What the analysis gets right.                                           *)

Internal   == {i \in DOMAIN blocks : blocks[i].type = "INTERNAL"}
Scanning   == {stack[k].block : k \in DOMAIN stack}
Finished   == Internal \ Scanning
SuccsOf(i) == {psTable[i].succ[k] : k \in DOMAIN psTable[i].succ}

(* No two basic blocks of the function start at the same instruction,      *)
(* whichever branch, call or fall-through reached it first.                *)
UniqueStarts ==
    \A i, j \in Internal : blocks[i].start = blocks[j].start => i = j

(* findBlockByInsnIdx does not look at the block type, yet never answers   *)
(* with the placeholder of an external or runtime branch: the block that   *)
(* ends in the branch always comes before it.                              *)
LookupIsInternal ==
    \A p \in 0..Length :
        findBlockByInsnIdx(p) # 0 => findBlockByInsnIdx(p) \in Internal

(* The two halves of psTable agree, edge by edge: i lists j as a successor *)
(* as often as j lists i as a predecessor.  The entries beyond the blocks, *)
(* which tryCreateSuccessorInternal leaves behind, hold no edge.           *)
Occurrences(s, x) == Cardinality({k \in DOMAIN s : s[k] = x})
EdgesMirrored ==
    \A i, j \in DOMAIN psTable :
        /\ Occurrences(psTable[i].succ, j) = Occurrences(psTable[j].pred, i)
        /\ psTable[i].succ # <<>> => i \in DOMAIN blocks

(* Every activation of functionCFA is on a different block, so recursion   *)
(* is never deeper than there are places a block can start.                *)
RecursionBounded ==
    /\ \A k, m \in DOMAIN stack : stack[k].block = stack[m].block => k = m
    /\ Len(stack) <= Length + 1

(* The activation that created a block is the only one that writes it:     *)
(* once it has returned, neither the block nor its successors change, not  *)
(* even when later branches reach it or land inside it.                    *)
FinishedFrozen ==
    [][\A i \in Finished :
          /\ blocks'[i] = blocks[i]
          /\ psTable'[i].succ = psTable[i].succ
          /\ i \notin {stack'[k].block : k \in DOMAIN stack'}]_vars

(* Control that starts a finished block leaves it at its end and nowhere   *)
(* before.                                                                 *)
BlocksStraight ==
    \A i \in Finished : RunsTo(code, blocks[i].start, blocks[i].end)

(* What control reaches from the entry: the least set of positions that it *)
(* does not leave.                                                         *)
ClosedUnderFlow(S) == 0 \in S /\ \A p \in S \cap Positions : FlowSuccs(code, p) \subseteq S
Closure == {p \in 0..Length : \A S \in SUBSET (0..Length) : ClosedUnderFlow(S) => p \in S}

(* Every reached instruction leads to another one: the function does not   *)
(* run past its last instruction, as no compiled function does.            *)
WellEnded == Closure \subseteq Positions

(* A block starts inside the function: what the assertions on the last     *)
(* instruction are for, and without them (NDEBUG) the well-ended functions *)
(* keep it.                                                                *)
StartsInFunction ==
    (AssertsOn \/ WellEnded) => \A i \in Internal : blocks[i].start < Length

(* When the analysis of such a function returns, its blocks hold exactly   *)
(* the instructions control can reach from the entry, and the successors   *)
(* of a block are exactly where its last instruction leads.                *)
GraphExact ==
    status = "done" /\ WellEnded =>
        /\ UNION {blocks[i].start..blocks[i].end : i \in Internal} = Closure
        /\ \A i \in Internal :
              {blocks[j].start : j \in SuccsOf(i) \cap Internal}
                  = FlowSuccs(code, blocks[i].end)

(* A block marked as an exit really leaves: none of its successors is in   *)
(* the function.  One marked as a tail call is also marked as a call, and  *)
(* its last instruction is the function's.                                 *)
ExitsLeave ==
    \A i \in DOMAIN blocks :
        /\ blocks[i].isExit => SuccsOf(i) \cap Internal = {} /\ SuccsOf(i) # {}
        /\ blocks[i].endsInTailCall =>
              blocks[i].isExit /\ blocks[i].endsInCall /\ blocks[i].end = Length - 1

(* The recursion ends, on every instruction sequence.                      *)
Termination == <>(status # "running")

(* The analysis implements the search of BlockDiscovery.                   *)
Discovery == INSTANCE BlockDiscovery
                WITH leaders <- {blocks[i].start : i \in Internal}
ImplementsDiscovery == Discovery!Spec

(***************************************************************************)
(* The inductive invariant of the proofs.  An activation is inside the     *)
(* internal block it was called for, and no two are in the same one; every *)
(* placeholder comes after the internal block whose branch made it, and    *)
(* that block has stopped moving its end.                                  *)
(***************************************************************************)
TableCovers == Len(blocks) <= Len(psTable)

FramesOwn ==
    /\ \A k \in DOMAIN stack :
          /\ stack[k].block \in Internal
          /\ blocks[stack[k].block].start <= stack[k].pc
    /\ \A k, m \in DOMAIN stack : stack[k].block = stack[m].block => k = m

Branches(j, p) ==
    /\ blocks[j].type = "INTERNAL"
    /\ blocks[j].start <= p
    /\ blocks[j].end = p
    /\ \A k \in DOMAIN stack :
          stack[k].block = j => stack[k].phase # "scan" /\ stack[k].pc = p

PlaceholdersFollow ==
    \A i \in DOMAIN blocks \ Internal :
        /\ blocks[i].end = blocks[i].start
        /\ \E j \in 1..(i - 1) : Branches(j, blocks[i].start)

IInv == TypeOK /\ UniqueStarts /\ TableCovers /\ FramesOwn /\ PlaceholdersFollow
=============================================================================
