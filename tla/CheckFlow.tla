----------------------------- MODULE CheckFlow -----------------------------
(***************************************************************************)
(* One turn of cli_checkflow: both versions of a function are analysed,    *)
(* first their control flow, then their data flow, and their graphs are    *)
(* compared.  The first one is analysed by the variables of the modules    *)
(* extended, the second one by the variables named ..2.                    *)
(***************************************************************************)
EXTENDS DataFlowAnalysis, InstructionOperands

CONSTANT Pairs    \* the pairs of functions to compare, as instructions

ASSUME PairsAssumption ==
    \A p \in Pairs : \A v \in {1, 2} :
        DOMAIN p[v] = Positions /\ \A q \in Positions : IsInstruction(p[v][q])

VARIABLES
    insns1, insns2,    \* the instructions of the two functions, decoded
    code2, blocks2, psTable2, stack2, status2,
    ops2, worklist2, visit2, contexts2, sinks2, inputs2, pass2, current2, dfa2,
    flow1, flow2,      \* what compareFunctionFlows reads of them
    block, sink, calls, cache, result, answer

Second == INSTANCE DataFlowAnalysis WITH
    code <- code2, blocks <- blocks2, psTable <- psTable2, stack <- stack2,
    status <- status2, ops <- ops2, worklist <- worklist2, visit <- visit2,
    contexts <- contexts2, sinks <- sinks2, inputs <- inputs2, pass <- pass2,
    current <- current2, dfa <- dfa2

(* That no node of a flow depends on itself, which FlowComparator assumes,  *)
(* is InputsOlder.                                                         *)
Comparator == INSTANCE FlowComparator WITH
    Functions <- {}, References <- {}, func1 <- flow1, func2 <- flow2, stack <- calls

first     == allVars
cfa2      == <<code2, blocks2, psTable2, stack2, status2>>
dfaVars2  == <<ops2, worklist2, visit2, contexts2, sinks2, inputs2, pass2, current2, dfa2>>
second    == <<cfa2, dfaVars2>>
comparing == <<block, sink, calls, cache, result, answer, flow1, flow2>>
checkVars == <<insns1, insns2, first, second, comparing>>

-----------------------------------------------------------------------------
(* What the analyses see of an instruction.                                *)

UnconditionalSlip(bo) == (bo \div 16) % 2 = 1    \* one bit of the two
isBranchConditionUnconditional(bo) == (bo \div 16) % 2 = 1 /\ (bo \div 4) % 2 = 1

CodeOf(insns) ==
    [p \in Positions |->
        [kind |-> insns[p].kind, link |-> insns[p].link, target |-> insns[p].target,
         always |-> isBranchConditionUnconditional(insns[p].bo)]]

ASSUME InsnsOfPairs ==
    \A p \in Pairs : \A v \in {1, 2} : CodeOf(p[v]) \in [Positions -> Insns]

(* A call has a reference even if no relocation has been recorded for it:  *)
(* to the symbol at its target.                                            *)
UDOf(insns, p) ==
    LET i == insns[p]
        called == i.kind = "b" /\ i.target = External /\ i.reloc = NoReloc
    IN  instructionUD(IF called THEN [i EXCEPT !.reloc = i.callee] ELSE i, p)

Decoded(insns) == [p \in Positions |-> Over([ud |-> UDOf(insns, p)], insns[p])]

OpsOf(insns) ==
    [p \in Positions |->
        LET ud == insns[p].ud
        IN  [uses |-> ToSet(ud.inputs) \cap Regs, defs |-> ud.outputs \cap Regs,
             store |-> insns[p].class = "store", supported |-> Supported(insns[p])]]

CheckInit ==
    /\ \E p \in Pairs : insns1 = Decoded(p[1]) /\ insns2 = Decoded(p[2])
    /\ code = CodeOf(insns1) /\ ops = OpsOf(insns1)
    /\ code2 = CodeOf(insns2) /\ ops2 = OpsOf(insns2)
    /\ blocks = <<NewBlock(0, "INTERNAL")>> /\ blocks2 = blocks
    /\ psTable = <<EmptyEntry>> /\ psTable2 = psTable
    /\ stack = Call(<<>>, 1, 0) /\ stack2 = stack
    /\ status = "running" /\ status2 = "running"
    /\ DfaInit /\ Second!DfaInit
    /\ flow1 = <<>> /\ flow2 = <<>>
    /\ block = 1 /\ sink = 1 /\ calls = <<>> /\ cache = <<>>
    /\ result = <<>> /\ answer = "none"

-----------------------------------------------------------------------------
(***************************************************************************)
(* The graphs, as compareVarNodes walks them: the inputs of a sink or of a *)
(* result are its references, its constants and its registers, in this     *)
(* order; those of a phi node are in the order of an unordered set of      *)
(* pointers, which is any.                                                 *)
(***************************************************************************)
Leaf(constant) == [leaf |-> constant]
SinkId(b, k) == [sink |-> b, n |-> k]
IsLeaf(id) == "leaf" \in DOMAIN id
IsSink(id) == "sink" \in DOMAIN id

Constants(ud) ==
    [k \in DOMAIN ud.refs |-> <<"reference", ud.refs[k]>>]
        \o [k \in DOMAIN ud.imms |-> <<"immediate", ud.imms[k]>>]

OperandsOfSlip(ud, used) ==    \* without the constants
    FlattenSeq([k \in DOMAIN ud.inputs |-> SetToSeq({n \in used : n.reg = ud.inputs[k]})])

OperandsSortedSlip(ud, used) ==    \* the registers in the order of their numbers
    [k \in DOMAIN Constants(ud) |-> Leaf(Constants(ud)[k])]
        \o SetToSortSeq(used, LAMBDA m, n : m.reg[2] < n.reg[2])

OperandsOf(ud, used) ==
    [k \in DOMAIN Constants(ud) |-> Leaf(Constants(ud)[k])]
        \o FlattenSeq([k \in DOMAIN ud.inputs |->
               SetToSeq({n \in used : n.reg = ud.inputs[k]})])

InputsIn(insns, nodeInputs, nodeSinks, order, id) ==
    CASE IsLeaf(id) -> <<>>
      [] IsSink(id) ->
            LET s == nodeSinks[id.sink][id.n]
            IN  IF s.kind = "return" THEN SetToSeq(s.inputs)
                ELSE OperandsOf(insns[s.at].ud, s.inputs)
      [] OTHER ->
            CASE id.kind = "input" -> <<>>
              [] id.kind = "phi"   -> order[id]
              [] OTHER             -> OperandsOf(insns[id.at].ud, nodeInputs[id])

FlowNode(insns, nodeInputs, nodeSinks, blockOf, order, id) ==
    LET node(type, detail) ==
            [type |-> type, detail |-> detail,
             inputs |-> InputsIn(insns, nodeInputs, nodeSinks, order, id)]
        place(at) == <<insns[at].name, blockOf[at]>>    \* opcode and block
    IN  CASE IsLeaf(id) -> node(id.leaf[1], id.leaf[2])
          [] IsSink(id) -> LET s == nodeSinks[id.sink][id.n] IN node(s.kind, place(s.at))
          [] OTHER ->
                CASE id.kind = "input"      -> node("input", id.reg)
                  [] id.kind = "phi"        -> node("phi", "")
                  [] id.kind = "callReturn" -> node("callreturn", "")
                  [] OTHER                  -> node("result", place(id.at))

FlowOf(insns, nodeInputs, nodeSinks, blockOf, succ, order) ==
    LET N(id) == FlowNode(insns, nodeInputs, nodeSinks, blockOf, order, id)
        Leaves == {Leaf(c) : c \in UNION {ToSet(Constants(insns[p].ud)) : p \in Positions}}
        Sinks  == UNION {{SinkId(b, k) : k \in DOMAIN nodeSinks[b]} : b \in DOMAIN nodeSinks}
    IN  [nodes |-> [id \in Leaves \cup Sinks \cup DOMAIN nodeInputs |-> N(id)],
         sinks |-> [b \in DOMAIN nodeSinks |->
                       [k \in DOMAIN nodeSinks[b] |-> SinkId(b, k)]],
         succ  |-> succ]

(* The ways to put the inputs of every phi node in an order.               *)
Phis(nodeInputs) == {n \in DOMAIN nodeInputs : n.kind = "phi"}
Orders(nodeInputs) ==
    {o \in [Phis(nodeInputs) -> UNION {SetToSeqs(nodeInputs[n]) : n \in Phis(nodeInputs)}] :
        \A n \in Phis(nodeInputs) : o[n] \in SetToSeqs(nodeInputs[n])}

-----------------------------------------------------------------------------
BuildFlows ==
    /\ dfa = "done" /\ dfa2 = "done" /\ flow1 = <<>>
    /\ \E o \in Orders(inputs) :
          flow1' = FlowOf(insns1, inputs, sinks,
                          [p \in Positions |-> findBlockByInsnIdx(p)],
                          [b \in DOMAIN blocks |-> psTable[b].succ], o)
    /\ \E o \in Orders(inputs2) :
          flow2' = FlowOf(insns2, inputs2, sinks2,
                          [p \in Positions |-> Second!findBlockByInsnIdx(p)],
                          [b \in DOMAIN blocks2 |-> psTable2[b].succ], o)
    /\ UNCHANGED <<insns1, insns2, first, second, block, sink, calls, cache, result, answer>>

CfaFirst ==
    /\ status = "running" /\ Next
    /\ UNCHANGED <<insns1, insns2, dfaVars, second, comparing>>
CfaSecond ==
    /\ status = "done" /\ status2 = "running" /\ Second!Next
    /\ UNCHANGED <<insns1, insns2, first, dfaVars2, comparing>>
DfaFirst ==
    /\ status2 = "done" /\ DfaNext
    /\ UNCHANGED <<insns1, insns2, vars, second, comparing>>
DfaSecond ==
    /\ dfa = "done" /\ Second!DfaNext
    /\ UNCHANGED <<insns1, insns2, first, cfa2, comparing>>
Compare ==
    /\ flow1 # <<>> /\ answer = "none" /\ Comparator!Next
    /\ UNCHANGED <<insns1, insns2, first, second>>

(* How the process ends: the exit code, or an exception, an assertion or   *)
(* the end of the stack.                                                   *)
Died ==
    \/ {status, status2} \cap {"threw", "aborted"} # {}
    \/ {dfa, dfa2} \cap {"threw", "overflow"} # {}
    \/ answer = "aborted"
Exit == CASE answer = "equal" -> "0"
          [] answer = "different" -> "23"
          [] Died -> "died"
          [] OTHER -> "none"
Exited == Exit # "none" /\ UNCHANGED checkVars

CheckNext ==
    \/ CfaFirst \/ CfaSecond \/ DfaFirst \/ DfaSecond
    \/ BuildFlows \/ Compare \/ Exited

(* One thread, which nothing makes wait.                                   *)
CheckSpec == CheckInit /\ [][CheckNext]_checkVars /\ WF_checkVars(CheckNext)

-----------------------------------------------------------------------------
(* Straight functions: calls and plain instructions, then a return.  Their *)
(* meaning can be computed without a graph: a value is the term it was     *)
(* computed by, and the effect is the sequence of the sinks from call to   *)
(* call.                                                                   *)

IsCall(i) == i.kind = "b" /\ i.link /\ i.target = External
IsReturn(i) == i.kind = "bclr" /\ ~i.link /\ isBranchConditionUnconditional(i.bo)
Straight(insns) ==
    /\ Length # 0 /\ IsReturn(insns[Length - 1])
    /\ \A p \in 0..(Length - 2) : insns[p].class # "branch" \/ IsCall(insns[p])

CallsBefore(insns, p) == Cardinality({q \in 0..(p - 1) : IsCall(insns[q])})

(* A term is a type, what is told of it, and the terms of its operands.    *)
Unknown(r) == <<"input", r, <<>>>>
Given(constant) == <<constant[1], constant[2], <<>>>>
Placed(insns, p, type, operands) ==
    <<type, <<insns[p].name, CallsBefore(insns, p)>>, operands>>

OperandTerms(ud, values) ==
    LET read == Sublist(ud.inputs, Regs)
    IN  [k \in DOMAIN Constants(ud) |-> Given(Constants(ud)[k])]
            \o [k \in DOMAIN read |-> values[read[k]]]

(* The values of the registers before each instruction.                    *)
ValueAfter(insns, p, values, r) ==
    LET operands == OperandTerms(insns[p].ud, values)
    IN  IF IsCall(insns[p]) /\ r \in DefinedByCall THEN <<"callreturn", "", operands>>
        ELSE IF IsCall(insns[p]) /\ r \in KilledByCall THEN Unknown(r)
        ELSE IF r \in insns[p].ud.outputs THEN Placed(insns, p, "result", operands)
        ELSE values[r]

ValuesOf(insns) ==
    LET Before[p \in 0..Length] ==
            IF p = 0 THEN [r \in Regs |-> Unknown(r)]
            ELSE [r \in Regs |-> ValueAfter(insns, p - 1, Before[p - 1], r)]
    IN  Before

SinkTerms(insns, values, n) ==    \* between call n and the next
    LET places == Sublist([k \in 1..Length |-> k - 1],
                          {p \in Positions : /\ insns[p].class \in {"store", "branch"}
                                             /\ CallsBefore(insns, p) = n})
    IN  [k \in DOMAIN places |->
            Placed(insns, places[k], "sink",
                   OperandTerms(insns[places[k]].ud, values[places[k]]))]

ReturnTerms(insns, values) ==
    LET v    == values[Length]
        regs == Sublist(SetToSeq(DefinedByCall), {r \in DefinedByCall : v[r] # Unknown(r)})
    IN  [k \in DOMAIN regs |-> Placed(insns, Length - 1, "return", <<v[regs[k]]>>)]

Effect(insns) ==
    LET V     == ValuesOf(insns)
        last == CallsBefore(insns, Length)
    IN  [n \in 0..last |->
            SinkTerms(insns, V, n) \o (IF n = last THEN ReturnTerms(insns, V) ELSE <<>>)]

(* On straight functions the answer is exact: exit code 0 if the effects   *)
(* are the same, 23 if not.  Not told apart are the outputs of one         *)
(* instruction, the registers a value is returned in, and the results of   *)
(* calls with the same operands.                                           *)
StraightExact ==
    Exit \in {"0", "23"} /\ Straight(insns1) /\ Straight(insns2) =>
        (Exit = "0" <=> Effect(insns1) = Effect(insns2))

(* Register allocation is ignored (README.md:37): two functions that only  *)
(* differ in which registers hold their own values are never told apart,   *)
(* unless values join.                                                     *)
Renamed(insns, pi) ==
    [p \in Positions |->
        [insns[p] EXCEPT !.values =
            [k \in DOMAIN @ |->
                IF insns[p].kinds[k] \in {"GPR", "GPR_0"} /\ @[k] \in DOMAIN pi
                THEN pi[@[k]] ELSE @[k]]]]
Renamings(S) == {pi \in [S -> S] : \A x, y \in S : pi[x] = pi[y] => x = y}
Own(S, nodeInputs) ==
    \A n \in DOMAIN nodeInputs :
        n.kind # "phi" /\ (n.kind = "input" => n.reg \notin Gprs(S))
OwnRegisters == {{5, 6}, {30, 31}}    \* lost in a call, kept by one

RegallocIgnored ==
    Exit = "23" =>
        \A S \in OwnRegisters : \A pi \in Renamings(S) :
            ~(insns2 = Decoded(Renamed(insns1, pi)) /\ Own(S, inputs) /\ Own(S, inputs2))

(* The two decodings of the BO field agree: where the control-flow         *)
(* analysis lets a branch go on to the next instruction, the data-flow     *)
(* analysis has it read a condition, and nowhere else.                     *)
Conditional(ud) == CTR \in ud.outputs \/ \E k \in DOMAIN ud.inputs : ud.inputs[k][1] = "CR_BIT"
BranchViewsAgree ==
    Exit \in {"0", "23"} =>
        \A p \in Closure \cap Positions :
            IsBranch(code[p]) /\ ~code[p].link =>
                (p + 1 \in FlowSuccs(code, p) \ {code[p].target}
                    <=> Conditional(insns1[p].ud) /\ code[p].target # p + 1)

(* A function that cannot be analysed to the end is never called equal:    *)
(* with exit code 0, control reaches only instructions that are supported  *)
(* and branches that are resolved.                                         *)
Analysed(insns, reached) ==
    \A p \in reached \cap Positions :
        Supported(insns[p]) /\ (HasTarget(insns[p]) => insns[p].target # Unresolved)
EqualMeansAnalysed ==
    Exit = "0" => Analysed(insns1, Closure) /\ Analysed(insns2, Second!Closure)

(* Without backward branches, every comparison ends.                       *)
CheckEnds == ForwardOnly /\ Second!ForwardOnly => <>(Exit # "none")

(* README.md:37, "Returns exit code 0 on equivalence": a function is       *)
(* equivalent to itself.                                                   *)
SelfEquivalent == insns1 = insns2 => Exit # "23"
=============================================================================
