-------------------------- MODULE DataFlowAnalysis --------------------------
(***************************************************************************)
(* The data-flow analysis of one function, DataFlowAnalysis.cpp, run on    *)
(* the graph that ControlFlowAnalysis has built: a worklist of blocks,     *)
(* each of which is analysed by one activation of functionDFAImpl, which   *)
(* calls itself for the next one.  A pass creates its variable nodes anew, *)
(* so a node is named by what it stands for and the pass that made it.     *)
(***************************************************************************)
EXTENDS ControlFlowAnalysis, SequencesExt, Sublists

CONSTANTS
    Regs,           \* the members of FlowContext
    Functions,      \* the functions to analyse
    KilledByCall,   \* PpcCallingConvention.cpp
    DefinedByCall,
    MaxPasses       \* activations of functionDFAImpl that fit on the stack

(* What instructionUD says of an instruction, if it supports it.           *)
Operand == [uses : SUBSET Regs, defs : SUBSET Regs, store : BOOLEAN, supported : BOOLEAN]

ASSUME FunctionsAssumption ==
    Functions \subseteq [code : [Positions -> Insns], ops : [Positions -> Operand]]
ASSUME StoreAssumption ==    \* no branch of the instruction set stores
    \A f \in Functions, p \in Positions : f.ops[p].store => ~IsBranch(f.code[p])
ASSUME CallAssumption ==
    KilledByCall \subseteq Regs /\ DefinedByCall \subseteq Regs /\ IsFiniteSet(Regs)
ASSUME MaxPassesAssumption == MaxPasses \in Nat

VARIABLES
    ops,       \* the operands of the instructions
    worklist,  \* DataFlowAnalysis::worklist
    visit,     \* the activations of initWorklistRecurse: a block and the
               \* number of its successors already looked at
    contexts,  \* DataFlowGraph::blockContexts
    sinks,     \* DataFlowGraph::sinks
    inputs,    \* the inputs of every variable node made so far
    pass,      \* the activations of functionDFAImpl so far
    current,   \* the block and instruction the innermost one is at
    dfa        \* how far the analysis is

flow    == <<contexts, sinks, inputs>>
dfaVars == <<ops, worklist, visit, flow, pass, current, dfa>>
allVars == <<vars, dfaVars>>

Node == [kind : {"result", "callReturn", "input", "phi"}, at : Nat, reg : Regs, pass : Nat]
Context == [Regs -> SUBSET Node]
Sink == [kind : {"sink", "return"}, at : Nat, inputs : SUBSET Node]

(* The worklist and the edges between nodes refer to blocks and nodes there *)
(* are.                                                                    *)
DfaTypeOK ==
    /\ ops \in [Positions -> Operand]
    /\ worklist \in Seq(DOMAIN blocks)
    /\ visit \in Seq([block : DOMAIN blocks, seen : Nat])
    /\ DOMAIN contexts = DOMAIN sinks
    /\ \A b \in DOMAIN contexts : contexts[b] \in Context /\ sinks[b] \in Seq(Sink)
    /\ \A n \in DOMAIN inputs : n \in Node /\ inputs[n] \subseteq DOMAIN inputs
    /\ pass \in 0..MaxPasses
    /\ current \in [block : Nat, pc : Nat, prev : [Regs -> Nat]]
    /\ dfa \in {"idle", "order", "next", "block", "done", "threw", "overflow"}

NoContext == [r \in Regs |-> {}]
getSizes(context) == [r \in Regs |-> Cardinality(context[r])]

----------------------------------------------------------------------------
(* initWorklist.                                                           *)

VisitBlock(b) ==
    /\ worklist' = Append(worklist, b)
    /\ dfa' = "order"

InitWorklist ==
    /\ status = "done" /\ dfa = "idle"
    /\ VisitBlock(1)
    /\ visit' = <<[block |-> 1, seen |-> 0]>>
    /\ contexts' = [b \in DOMAIN blocks |-> NoContext]
    /\ sinks' = [b \in DOMAIN blocks |-> <<>>]
    /\ UNCHANGED <<ops, inputs, pass, current>>

VisitSuccessor ==
    /\ dfa = "order" /\ visit # <<>>
    /\ LET f    == Last(visit)
           succ == psTable[f.block].succ
           s    == succ[f.seen + 1]
           seen == Append(Front(visit), [f EXCEPT !.seen = @ + 1])
       IN  /\ f.seen < Len(succ)
           /\ \/ /\ blocks[s].type = "INTERNAL" /\ ~Contains(worklist, s)
                 /\ VisitBlock(s)
                 /\ visit' = Append(seen, [block |-> s, seen |-> 0])
              \/ /\ ~(blocks[s].type = "INTERNAL" /\ ~Contains(worklist, s))
                 /\ visit' = seen
                 /\ UNCHANGED <<worklist, dfa>>
    /\ UNCHANGED <<ops, flow, pass, current>>

VisitReturn ==
    /\ dfa = "order" /\ visit # <<>>
    /\ Last(visit).seen = Len(psTable[Last(visit).block].succ)
    /\ visit' = Front(visit)
    /\ dfa' = IF visit' = <<>> THEN "next" ELSE "order"
    /\ UNCHANGED <<ops, worklist, flow, pass, current>>

----------------------------------------------------------------------------
(* functionDFAImpl: an activation begins by taking a block.                *)

EntryContextSlip(b) ==    \* the last predecessor's context replaces the others
    LET pred == psTable[b].pred
    IN  IF pred = <<>> THEN NoContext ELSE contexts[Last(pred)]

(* initBlockContext.  Of a block that is its own predecessor it takes the  *)
(* context of the previous pass.                                           *)
EntryContext(b) ==
    [r \in Regs |-> UNION {contexts[psTable[b].pred[k]][r] : k \in DOMAIN psTable[b].pred}]

(* The definitions named ..Slip are, again, the next ones with a mistake.  *)
PopFront == Tail(worklist)

TakeBlock ==
    /\ dfa = "next"
    /\ worklist # <<>>
    /\ pass < MaxPasses
    /\ pass' = pass + 1
    /\ worklist' = PopFront
    /\ LET b == Head(worklist)
       IN  /\ current' = [block |-> b, pc |-> blocks[b].start, prev |-> getSizes(contexts[b])]
           /\ contexts' = [contexts EXCEPT ![b] = EntryContext(b)]
           /\ sinks' = [sinks EXCEPT ![b] = <<>>]
    /\ dfa' = "block"
    /\ UNCHANGED <<ops, visit, inputs>>

FreshSlip(kind, r, at) ==    \* one node per instruction, whatever the pass
    [kind |-> kind, at |-> at, reg |-> r, pass |-> 1]

Fresh(kind, r, at) == [kind |-> kind, at |-> at, reg |-> r, pass |-> pass]

(* The node an instruction uses for a register: the definition itself, or  *)
(* a new node when there is none or more than one.                         *)
Use(context, r, at) ==
    IF context[r] = {} THEN Fresh("input", r, at)
    ELSE IF Cardinality(context[r]) = 1 THEN CHOOSE n \in context[r] : TRUE
    ELSE Fresh("phi", r, at)
Uses(context, uses, at) == {Use(context, r, at) : r \in uses}

UseInputsSlip(context, uses, at) ==    \* function inputs are not kept
    [n \in {n \in Uses(context, uses, at) : n.kind = "phi"} |-> context[n.reg]]

(* The new nodes among them, with their inputs.                            *)
UseInputs(context, uses, at) ==
    [n \in Uses(context, uses, at) \ DOMAIN inputs |-> context[n.reg]]

(* f, and g where f is not defined.                                        *)
Over(f, g) ==
    [n \in DOMAIN f \cup DOMAIN g |-> IF n \in DOMAIN f THEN f[n] ELSE g[n]]

Outputs(kind, defs) == {Fresh(kind, r, current.pc) : r \in defs}
Define(context, nodes) ==
    [r \in Regs |-> LET N == {n \in nodes : n.reg = r} IN IF N = {} THEN context[r] ELSE N]

KillSlip(context) == context    \* a call preserves every register

Kill(context) == [r \in Regs |-> IF r \in KilledByCall THEN {} ELSE context[r]]

AddSinkSlip(b, at, nodes) ==    \* at the front
    [sinks EXCEPT ![b] = <<[kind |-> "sink", at |-> at, inputs |-> nodes]>> \o @]

AddSink(b, at, nodes) ==
    [sinks EXCEPT ![b] = Append(@, [kind |-> "sink", at |-> at, inputs |-> nodes])]

(* One turn of the loop over the instructions of the block.                *)
Instruction ==
    LET b       == current.block
        o       == ops[current.pc]
        entry   == contexts[b]
        used    == Uses(entry, o.uses, current.pc)
        branch  == ~o.store /\ IsBranch(code[current.pc])
        call    == branch /\ blocks[b].endsInCall
        results == Outputs("result", o.defs)
        returns == IF call THEN Outputs("callReturn", DefinedByCall) ELSE {}
        exit    == Define(entry, results)
    IN  /\ dfa = "block"
        /\ current.pc <= blocks[b].end
        /\ o.supported
        /\ contexts' = [contexts EXCEPT ![b] =
              IF call THEN Define(Kill(exit), returns) ELSE exit]
        /\ sinks' = IF o.store \/ branch THEN AddSink(b, current.pc, used) ELSE sinks
        /\ inputs' = Over([n \in results \cup returns |-> used],
                          Over(inputs, UseInputs(entry, o.uses, current.pc)))
        /\ current' = [current EXCEPT !.pc = @ + 1]
        /\ UNCHANGED <<ops, worklist, visit, pass, dfa>>

(* instructionUD throws; nobody catches it.                                *)
InstructionThrows ==
    /\ dfa = "block"
    /\ current.pc <= blocks[current.block].end
    /\ ~ops[current.pc].supported
    /\ dfa' = "threw"
    /\ UNCHANGED <<ops, worklist, visit, flow, pass, current>>

PushSuccessorsSlip(b) ==    \* without looking for them in the worklist
    Reverse(SelectSeq(psTable[b].succ, LAMBDA s : blocks[s].type = "INTERNAL")) \o worklist

(* The successors go to the front of the worklist, each before the last;   *)
(* pushed[k] is the worklist after k of them.                              *)
PushSuccessors(b) ==
    LET succ == psTable[b].succ
        New(w, s) == blocks[s].type = "INTERNAL" /\ ~Contains(w, s)
        pushed[k \in 0..Len(succ)] ==
            IF k = 0 THEN worklist
            ELSE IF New(pushed[k - 1], succ[k]) THEN <<succ[k]>> \o pushed[k - 1]
            ELSE pushed[k - 1]
    IN  pushed[Len(succ)]

(* The return values of an exit block, then the decision whether its       *)
(* successors need updating.                                               *)
FinishBlock ==
    LET b       == current.block
        context == contexts[b]
        live    == IF blocks[b].isExit THEN {r \in DefinedByCall : context[r] # {}} ELSE {}
        order   == Sublist(SetToSeq(DefinedByCall), live)
        returns == [k \in DOMAIN order |->
                       [kind |-> "return", at |-> blocks[b].end,
                        inputs |-> {Use(context, order[k], Length)}]]
    IN  /\ dfa = "block"
        /\ current.pc > blocks[b].end
        /\ sinks' = [sinks EXCEPT ![b] = @ \o returns]
        /\ inputs' = Over(inputs, UseInputs(context, live, Length))
        /\ worklist' = IF getSizes(context) # current.prev THEN PushSuccessors(b) ELSE worklist
        /\ dfa' = "next"
        /\ UNCHANGED <<ops, visit, contexts, pass, current>>

FinishSlip ==    \* without the test for an empty worklist it calls itself on and on
    /\ dfa = "next"
    /\ worklist = <<>>
    /\ dfa' = "overflow"
    /\ UNCHANGED <<ops, worklist, visit, flow, pass, current>>

Finish ==
    /\ dfa = "next"
    /\ worklist = <<>>
    /\ dfa' = "done"
    /\ UNCHANGED <<ops, worklist, visit, flow, pass, current>>

(* The stack has no room for one more activation: the recursion of the code *)
(* is as deep as there have been passes.                                   *)
Overflow ==
    /\ dfa = "next"
    /\ worklist # <<>>
    /\ pass = MaxPasses
    /\ dfa' = "overflow"
    /\ UNCHANGED <<ops, worklist, visit, flow, pass, current>>

DfaInit ==
    /\ worklist = <<>> /\ visit = <<>>
    /\ contexts = <<>> /\ sinks = <<>> /\ inputs = <<>>
    /\ pass = 0
    /\ current = [block |-> 0, pc |-> 0, prev |-> [r \in Regs |-> 0]]
    /\ dfa = "idle"

DfaNext ==
    \/ InitWorklist \/ VisitSuccessor \/ VisitReturn
    \/ TakeBlock \/ Instruction \/ InstructionThrows \/ FinishBlock \/ Finish \/ Overflow

Stopped ==
    /\ status \in {"aborted", "threw"} \/ dfa \in {"done", "threw", "overflow"}
    /\ UNCHANGED allVars

FunctionInit ==
    /\ \E f \in Functions : code = f.code /\ ops = f.ops
    /\ Init
    /\ DfaInit

FunctionNext ==
    \/ Next /\ UNCHANGED dfaVars
    \/ DfaNext /\ UNCHANGED vars
    \/ Stopped
FunctionSpec == FunctionInit /\ [][FunctionNext]_allVars /\ WF_allVars(FunctionNext)

----------------------------------------------------------------------------
(* The reference: which definitions reach the end of which block, with a   *)
(* definition named by its kind and its place.                             *)

Sites(nodes) == {[kind |-> n.kind, at |-> n.at] : n \in nodes}

PassesThrough(b, r) ==
    /\ \A p \in blocks[b].start..blocks[b].end : r \notin ops[p].defs
    /\ blocks[b].endsInCall => r \notin KilledByCall \cup DefinedByCall

Generated(b, r) ==
    LET defs == {p \in blocks[b].start..blocks[b].end : r \in ops[p].defs}
    IN  IF blocks[b].endsInCall /\ r \in DefinedByCall
        THEN {[kind |-> "callReturn", at |-> blocks[b].end]}
        ELSE IF defs = {} \/ (blocks[b].endsInCall /\ r \in KilledByCall) THEN {}
        ELSE {[kind |-> "result", at |-> Max(defs)]}

Preds(b) == {psTable[b].pred[k] : k \in DOMAIN psTable[b].pred}

(* The blocks from which r arrives at the end of block b unchanged: the    *)
(* least set with b that has the predecessors of what r passes through.    *)
Through(r) == {b \in Internal : PassesThrough(b, r)}
ClosedBackwards(S, through) == \A b \in S \cap through : Preds(b) \subseteq S
Origins(b, r) ==
    LET through == Through(r)
        closed  == {S \in SUBSET Internal : b \in S /\ ClosedBackwards(S, through)}
    IN  {c \in Internal : \A S \in closed : c \in S}

Reaching(b, r) == UNION {Generated(c, r) : c \in Origins(b, r)}

----------------------------------------------------------------------------
(* What the analysis gets right.                                           *)

(* The worklist never holds a block twice, whatever pushes it, and never   *)
(* the placeholder of an external or runtime branch.                       *)
WorklistProper ==
    /\ \A j, k \in DOMAIN worklist : worklist[j] = worklist[k] => j = k
    /\ \A k \in DOMAIN worklist : worklist[k] \in Internal

(* Between two activations no context holds a definition that cannot reach *)
(* the end of its block: one that is overwritten or killed on the way.     *)
NoSpuriousDefinition ==
    dfa \in {"next", "done", "overflow"} =>
        \A b \in Internal, r \in Regs : Sites(contexts[b][r]) \subseteq Reaching(b, r)

(* When the analysis ends, a register has no definition at the end of a    *)
(* block exactly when none reaches it, so that a value of the caller is    *)
(* never taken for one of the function, nor the reverse.                   *)
DefinednessExact ==
    dfa = "done" =>
        \A b \in Internal, r \in Regs : contexts[b][r] = {} <=> Reaching(b, r) = {}

(* A variable node depends on older nodes only: on nodes of earlier passes, *)
(* of earlier instructions, or on the operands of its own instruction.     *)
(* compareVarNodes follows the inputs and would not return otherwise, loop *)
(* or no loop in the function.                                             *)
IsOperand(n) == n.kind \in {"phi", "input"}
InputsOlder ==
    \A n \in DOMAIN inputs : \A m \in inputs[n] :
        \/ m.pass < n.pass
        \/ m.pass = n.pass /\ m.at < n.at
        \/ m.pass = n.pass /\ m.at = n.at /\ IsOperand(m) /\ ~IsOperand(n)

(* When the analysis ends, the sinks of a block are its stores and branches *)
(* in the order of the code (DataFlowGraph.hpp:16), each of them once      *)
(* however often the block was analysed; the return values follow.         *)
SinkPlaces(b, last) ==
    {p \in blocks[b].start..last : ops[p].store \/ IsBranch(code[p])}
SinksAt(s, n, places) ==    \* the first n of s are at these places, in order
    /\ {s[k].at : k \in 1..n} = places
    /\ \A k \in 1..n : s[k].kind = "sink" /\ \A j \in 1..(k - 1) : s[j].at < s[k].at
SinksEnd(b) ==
    \E n \in 0..Len(sinks[b]) :
        /\ SinksAt(sinks[b], n, SinkPlaces(b, blocks[b].end))
        /\ \A k \in (n + 1)..Len(sinks[b]) :
              /\ sinks[b][k].kind = "return" /\ sinks[b][k].at = blocks[b].end
              /\ blocks[b].isExit
SinksInOrder == dfa = "done" => \A b \in Internal : SinksEnd(b)

(* The analysis of a function comes to an end.                             *)
DfaTermination == <>(status \in {"aborted", "threw"} \/ dfa \in {"done", "threw"})

(* That of one without backward branches does, within so few passes that    *)
(* the stack has room for them.                                            *)
ForwardOnly == \A p \in Positions : code[p].target \in Positions => code[p].target > p
ForwardEnds == ForwardOnly => DfaTermination

----------------------------------------------------------------------------
(* What it does not.                                                       *)

(* FlowContext.hpp:25, FlowContextSizes tells whether a block's output has *)
(* changed: if so, no definition that reaches a block is missing at the    *)
(* end, not even one that arrived when another one was dropped.            *)
NoMissingDefinition ==
    dfa = "done" =>
        \A b \in Internal, r \in Regs : Reaching(b, r) \subseteq Sites(contexts[b][r])
=============================================================================
