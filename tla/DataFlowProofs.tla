---------------------------- MODULE DataFlowProofs ----------------------------
(***************************************************************************)
(* Theorems about DataFlowAnalysis, run on the graph whose theorems are in *)
(* the modules this one extends: its worklist, and the nodes it makes.     *)
(***************************************************************************)
EXTENDS ControlFlowProofs, DataFlowAnalysis

-----------------------------------------------------------------------------
(* The control-flow analysis, as part of both.                             *)

GraphInv == IInv /\ CInv /\ EInv /\ GInv

(* The data-flow analysis starts when the graph is done, and from then on  *)
(* nothing changes it.                                                     *)
LEMMA StepKinds ==
    ASSUME dfa # "idle" => status = "done", [FunctionNext]_allVars
    PROVE  \/ UNCHANGED allVars
           \/ dfa = "idle" /\ UNCHANGED dfaVars /\ [Next]_vars
           \/ DfaNext /\ UNCHANGED vars /\ status = "done"
<1>1. CASE Next /\ UNCHANGED dfaVars
  <2>1. CASE dfa # "idle"
    <3>1. UNCHANGED vars
      BY <1>1, <2>1 DEF Next, ScanPlain, RunOffEnd, HandleBranch, RuntimeBranch,
                        AfterBranch, EndCall, EndBlock, Terminated, At
    <3>. QED  BY <1>1, <3>1 DEF allVars
  <2>. QED  BY <1>1, <2>1
<1>2. CASE DfaNext /\ UNCHANGED vars
  <2>1. CASE dfa = "idle"
    <3>1. InitWorklist
      BY <1>2, <2>1 DEF DfaNext, VisitSuccessor, VisitReturn, TakeBlock, Instruction,
                        InstructionThrows, FinishBlock, Finish, Overflow
    <3>. QED  BY <1>2, <3>1 DEF InitWorklist
  <2>. QED  BY <1>2, <2>1
<1>. QED  BY <1>1, <1>2 DEF FunctionNext, Stopped

LEMMA GraphStep == [FunctionNext]_allVars => [Next]_vars
BY DEF FunctionNext, Stopped, allVars

LEMMA GraphKept == FunctionSpec => []GraphInv
<1>1. FunctionInit => Init
  BY DEF FunctionInit
<1>2. Init => GraphInv
  BY InitIInv, InitCInv, InitEInv, InitGInv DEF GraphInv
<1>3. GraphInv /\ [Next]_vars => GraphInv'
  BY StepIInv, StepCInv, StepEInv, StepGInv DEF GraphInv
<1>. QED  BY <1>1, <1>2, <1>3, GraphStep, PTL DEF FunctionSpec

(* What the data-flow analysis uses of the graph.                          *)
LEMMA GraphFacts ==
    ASSUME GraphInv
    PROVE  /\ Len(blocks) \in Nat /\ DOMAIN blocks = 1..Len(blocks)
           /\ DOMAIN blocks \subseteq DOMAIN psTable
           /\ Internal \subseteq DOMAIN blocks /\ Internal \subseteq DOMAIN psTable
           /\ 1 \in Internal
           /\ \A b \in Internal :
                 /\ blocks[b].start \in Nat /\ blocks[b].end \in Nat
                 /\ psTable[b].succ \in Seq(DOMAIN blocks)
                 /\ psTable[b].pred \in Seq(DOMAIN blocks)
                 /\ status = "done" => blocks[b].start <= blocks[b].end
<1>1. /\ Len(blocks) \in Nat /\ DOMAIN blocks = 1..Len(blocks)
      /\ Len(psTable) \in Nat /\ DOMAIN psTable = 1..Len(psTable)
      /\ Len(blocks) <= Len(psTable)
  BY LenProperties DEF GraphInv, IInv, TypeOK, TableCovers
<1>2. 1 \in Internal
  <2>1. Internal # {}
    BY DEF GraphInv, GInv, Leaders
  <2>2. 1 \in DOMAIN blocks
    BY <1>1, <2>1 DEF Internal
  <2>3. ASSUME 1 \notin Internal PROVE FALSE
    BY <2>2, <2>3 DEF GraphInv, IInv, PlaceholdersFollow, Internal
  <2>. QED  BY <2>3
<1>3. ASSUME NEW b \in Internal
      PROVE  /\ blocks[b].start \in Nat /\ blocks[b].end \in Nat
             /\ psTable[b].succ \in Seq(DOMAIN blocks)
             /\ psTable[b].pred \in Seq(DOMAIN blocks)
             /\ status = "done" => blocks[b].start <= blocks[b].end
  <2>1. blocks[b] \in Block /\ b \in DOMAIN psTable
    BY <1>1, ElementOfSeq DEF GraphInv, IInv, TypeOK, Internal
  <2>2. status = "done" => b \in Finished
    BY DEF GraphInv, CInv, Finished, Scanning
  <2>. QED  BY <2>1, <2>2 DEF Block, GraphInv, EInv, RowsInGraph, CInv, GoodBlock, RunsTo
<1>. QED  BY <1>1, <1>2, <1>3 DEF Internal

-----------------------------------------------------------------------------
(* The worklist.                                                           *)

Distinct(s) == \A j, k \in DOMAIN s : s[j] = s[k] => j = k
Proper(w) == w \in Seq(Internal) /\ Distinct(w)

LEMMA ConsProper ==
    ASSUME NEW w, Proper(w), NEW s \in Internal, ~Contains(w, s)
    PROVE  Proper(<<s>> \o w)
<1> DEFINE v == <<s>> \o w
           n == Len(w)
<1>1. n \in Nat /\ DOMAIN w = 1..n /\ \A k \in 1..n : w[k] \in Internal
  BY LenProperties, ElementOfSeq DEF Proper
<1>2. v \in Seq(Internal) /\ Len(v) = n + 1
      /\ v[1] = s /\ \A k \in 1..(n + 1) : k # 1 => v[k] = w[k - 1]
  BY DEF Proper
<1>3. DOMAIN v = 1..(n + 1)
  BY <1>2, LenProperties
<1> HIDE DEF v
<1>4. ASSUME NEW j \in 1..(n + 1), NEW k \in 1..(n + 1), v[j] = v[k]
      PROVE  j = k
  <2>1. \A i \in 1..n : w[i] # s
    BY DEF Contains
  <2>2. CASE j = 1 /\ k # 1
    <3>1. k - 1 \in 1..n
      BY <1>1, <2>2
    <3>. QED  BY <1>2, <1>4, <2>1, <2>2, <3>1
  <2>3. CASE j # 1 /\ k = 1
    <3>1. j - 1 \in 1..n
      BY <1>1, <2>3
    <3>. QED  BY <1>2, <1>4, <2>1, <2>3, <3>1
  <2>4. CASE j # 1 /\ k # 1
    <3>1. j - 1 \in 1..n /\ k - 1 \in 1..n
      BY <1>1, <2>4
    <3>2. w[j - 1] = w[k - 1]
      BY <1>2, <1>4, <2>4
    <3>3. j - 1 = k - 1
      BY <1>1, <3>1, <3>2 DEF Proper, Distinct
    <3>. QED  BY <1>1, <3>3
  <2>. QED  BY <2>2, <2>3, <2>4
<1>. QED  BY <1>2, <1>3, <1>4 DEF Proper, Distinct, v

LEMMA AppendProper ==
    ASSUME NEW w, Proper(w), NEW s \in Internal, ~Contains(w, s)
    PROVE  Proper(Append(w, s))
<1> DEFINE v == Append(w, s)
           n == Len(w)
<1>1. n \in Nat /\ DOMAIN w = 1..n
  BY LenProperties DEF Proper
<1>2. v \in Seq(Internal) /\ Len(v) = n + 1
      /\ v[n + 1] = s /\ \A k \in 1..n : v[k] = w[k]
  BY AppendProperties DEF Proper
<1>3. DOMAIN v = 1..(n + 1)
  BY <1>2, LenProperties
<1> HIDE DEF v
<1>4. ASSUME NEW j \in 1..(n + 1), NEW k \in 1..(n + 1), v[j] = v[k]
      PROVE  j = k
  <2>1. \A i \in 1..n : w[i] # s
    BY DEF Contains
  <2>2. \A i \in 1..(n + 1) : i \in 1..n \/ i = n + 1
    BY <1>1
  <2>3. \A i \in 1..n : i \in DOMAIN w
    BY <1>1
  <2>. QED  BY <1>2, <1>4, <2>1, <2>2, <2>3 DEF Proper, Distinct
<1>. QED  BY <1>2, <1>3, <1>4 DEF Proper, Distinct, v

LEMMA TailProper ==
    ASSUME NEW w, Proper(w), w # <<>>
    PROVE  Head(w) \in Internal /\ Proper(Tail(w))
<1> DEFINE v == Tail(w)
           n == Len(w)
<1>1. n \in Nat \ {0} /\ DOMAIN w = 1..n /\ \A k \in 1..n : w[k] \in Internal
  BY LenProperties, ElementOfSeq, EmptySeq DEF Proper
<1>2. /\ Head(w) = w[1] /\ v \in Seq(Internal) /\ Len(v) = n - 1
      /\ \A k \in 1..(n - 1) : v[k] = w[k + 1]
  BY HeadTailProperties DEF Proper
<1>3. DOMAIN v = 1..(n - 1)
  BY <1>2, LenProperties
<1> HIDE DEF v
<1>4. ASSUME NEW j \in 1..(n - 1), NEW k \in 1..(n - 1), v[j] = v[k]
      PROVE  j = k
  <2>1. j + 1 \in DOMAIN w /\ k + 1 \in DOMAIN w
    BY <1>1
  <2>2. j + 1 = k + 1
    BY <1>2, <1>4, <2>1 DEF Proper, Distinct
  <2>. QED  BY <1>1, <2>2
<1>5. 1 \in 1..n
  BY <1>1
<1>. QED  BY <1>1, <1>2, <1>3, <1>4, <1>5 DEF Proper, Distinct, v

(* The worklist after the first k successors of b, of all, and of those up *)
(* to n: PushSuccessors is defined by recursion.                           *)
Pushed(b, f, k) ==
    LET s == psTable[b].succ[k]
    IN  IF k = 0 THEN worklist
        ELSE IF blocks[s].type = "INTERNAL" /\ ~Contains(f[k - 1], s)
        THEN <<s>> \o f[k - 1] ELSE f[k - 1]
Pushes(b, f, n) == f = [k \in 0..n |-> Pushed(b, f, k)]

LEMMA PushesExist ==
    ASSUME NEW b, NEW n \in Nat
    PROVE  \E f : Pushes(b, f, n)
<1> DEFINE T == {m \in Nat : ~ \E f : Pushes(b, f, m)}
<1>. SUFFICES ASSUME T # {} PROVE FALSE
  OBVIOUS
<1>1. PICK m \in T : \A i \in T : m <= i
  BY FirstIsLeast
<1>2. m # 0
  <2> DEFINE f == [k \in 0..0 |-> worklist]
  <2>1. f = [k \in 0..0 |-> Pushed(b, f, k)]
    BY DEF Pushed
  <2>2. Pushes(b, f, 0)
    BY <2>1 DEF Pushes
  <2>. QED  BY <2>2
<1>3. m - 1 \in Nat /\ m - 1 \notin T
  BY <1>1, <1>2
<1>4. PICK f : Pushes(b, f, m - 1)
  BY <1>3
<1> DEFINE g == [k \in 0..m |-> Pushed(b, f, k)]
<1>5. \A k \in 0..(m - 1) : g[k] = f[k]
  BY <1>3, <1>4 DEF Pushes
<1>6. ASSUME NEW k \in 0..m PROVE Pushed(b, f, k) = Pushed(b, g, k)
  <2>1. CASE k = 0
    BY <2>1 DEF Pushed
  <2>2. CASE k # 0
    <3>1. k - 1 \in 0..(m - 1)
      BY <2>2
    <3>2. g[k - 1] = f[k - 1]
      BY <1>5, <3>1
    <3> HIDE DEF g
    <3>. QED  BY <3>2 DEF Pushed
  <2>. QED  BY <2>1, <2>2
<1>7. Pushes(b, g, m)
  <2>1. g = [k \in 0..m |-> Pushed(b, g, k)]
    BY <1>6
  <2>. QED  BY <2>1 DEF Pushes
<1>. QED  BY <1>1, <1>7

(* Pushing successors keeps the worklist as it should be.                  *)
LEMMA PushProper ==
    ASSUME GraphInv, Proper(worklist), NEW b \in Internal
    PROVE  Proper(PushSuccessors(b))
<1>1. PICK n : n = Len(psTable[b].succ)
  OBVIOUS
<1>2. /\ n \in Nat
      /\ \A k \in 1..n : psTable[b].succ[k] \in DOMAIN blocks
  <2>1. psTable[b].succ \in Seq(DOMAIN blocks)
    BY GraphFacts
  <2>. QED  BY <1>1, <2>1, LenProperties, ElementOfSeq
<1>3. PICK f : f = CHOOSE g : Pushes(b, g, n)
  OBVIOUS
<1>4. Pushes(b, f, n)
  BY <1>2, <1>3, PushesExist
<1>5. PushSuccessors(b) = f[n]
  BY <1>1, <1>3 DEF PushSuccessors, Pushes, Pushed
<1> DEFINE T == {k \in Nat : k <= n /\ ~Proper(f[k])}
<1>6. T = {}
  <2>. SUFFICES ASSUME T # {} PROVE FALSE
    OBVIOUS
  <2>1. PICK k \in T : \A i \in T : k <= i
    BY FirstIsLeast
  <2>2. k \in 0..n
    BY <1>2, <2>1
  <2>3. f[k] = Pushed(b, f, k)
    BY <1>4, <2>2 DEF Pushes
  <2>4. k # 0
    BY <2>1, <2>3 DEF Pushed
  <2>5. k - 1 \in Nat /\ k - 1 <= n /\ k - 1 \notin T
    BY <1>2, <2>1, <2>4
  <2>6. Proper(f[k - 1])
    BY <2>5
  <2>7. PICK s : s = psTable[b].succ[k]
    OBVIOUS
  <2>8. s \in DOMAIN blocks
    BY <1>2, <2>2, <2>4, <2>7
  <2>9. Proper(Pushed(b, f, k))
    BY <2>4, <2>6, <2>7, <2>8, ConsProper DEF Pushed, Internal
  <2>. QED  BY <2>1, <2>3, <2>9
<1>. QED  BY <1>2, <1>5, <1>6

-----------------------------------------------------------------------------
(* The functions that can be analysed: those of Functions are, and the     *)
(* proofs use nothing else of them.                                        *)
Analysable(insns, operands) ==
    /\ operands \in [Positions -> Operand]
    /\ \A p \in Positions : operands[p].store => ~IsBranch(insns[p])
AnalysisInit == Init /\ DfaInit /\ Analysable(code, ops)

LEMMA FunctionsAnalysable == FunctionInit => AnalysisInit
<1>. SUFFICES ASSUME FunctionInit PROVE Analysable(code, ops)
  BY DEF FunctionInit, AnalysisInit
<1>1. PICK f \in Functions : code = f.code /\ ops = f.ops
  BY DEF FunctionInit
<1>2. f.ops \in [Positions -> Operand]
  BY FunctionsAssumption
<1>. QED  BY <1>1, <1>2, StoreAssumption DEF Analysable

(* The analysis is about blocks of the function.                           *)
DInv ==
    /\ Analysable(code, ops)
    /\ Proper(worklist)
    /\ visit \in Seq([block : Internal, seen : Nat])
    /\ pass \in Nat
    /\ dfa = "idle" => worklist = <<>> /\ visit = <<>> /\ inputs = <<>> /\ pass = 0
    /\ dfa # "idle" => status = "done" /\ DOMAIN contexts = DOMAIN blocks
    /\ dfa = "block" =>
          /\ current = [block |-> current.block, pc |-> current.pc, prev |-> current.prev]
          /\ current.block \in Internal
          /\ current.pc \in blocks[current.block].start..(blocks[current.block].end + 1)

(* A sequence without its last element.                                    *)
LEMMA FrontKeeps ==
    ASSUME NEW V, NEW s \in Seq(V), s # <<>>
    PROVE  Front(s) \in Seq(V) /\ Len(s) \in DOMAIN s /\ Last(s) \in V
<1>1. Len(s) \in Nat \ {0} /\ DOMAIN s = 1..Len(s)
  BY LenProperties, EmptySeq
<1>2. \A k \in 1..Len(s) : s[k] \in V
  BY <1>1, ElementOfSeq
<1>3. Len(s) - 1 \in Nat /\ Len(s) \in 1..Len(s)
  BY <1>1
<1>4. \A k \in 1..(Len(s) - 1) : s[k] \in V
  BY <1>1, <1>2
<1>5. Front(s) \in Seq(V)
  BY <1>3, <1>4, SubSeqProperties DEF Front
<1>. QED  BY <1>1, <1>2, <1>3, <1>5 DEF Last

LEMMA NothingProper == Proper(<<>>) /\ <<>> \in Seq([block : Internal, seen : Nat])
BY DEF Proper, Distinct

LEMMA InitDInv == AnalysisInit => DInv
<1>. SUFFICES ASSUME AnalysisInit PROVE DInv
  OBVIOUS
<1>. QED  BY NothingProper DEF AnalysisInit, DfaInit, DInv

(* Of a step of the data-flow analysis, what does not have to do with the  *)
(* nodes.                                                                  *)
LEMMA InitWorklistDInv ==
    ASSUME GraphInv, DInv, UNCHANGED vars, InitWorklist
    PROVE  DInv'
<1>1. Internal' = Internal
  BY DEF vars, Internal
<1>2. 1 \in Internal /\ 1 \in Nat /\ 0 \in Nat
  BY GraphFacts
<1>3. Proper(worklist')
  <2>1. ~Contains(worklist, 1) /\ worklist = <<>>
    BY DEF InitWorklist, DInv, Contains
  <2>. QED  BY <1>2, <2>1, AppendProper, NothingProper DEF InitWorklist, VisitBlock
<1>4. visit' \in Seq([block : Internal, seen : Nat])
  <2>1. [block |-> 1, seen |-> 0] \in [block : Internal, seen : Nat]
    BY <1>2
  <2>. QED  BY <2>1 DEF InitWorklist
<1>5. DOMAIN contexts' = DOMAIN blocks /\ status = "done" /\ dfa' = "order"
  BY DEF InitWorklist, VisitBlock
<1>. QED  BY <1>1, <1>3, <1>4, <1>5 DEF InitWorklist, DInv, vars, Proper

LEMMA VisitSuccessorDInv ==
    ASSUME GraphInv, DInv, UNCHANGED vars, VisitSuccessor
    PROVE  DInv'
<1> DEFINE V == [block : Internal, seen : Nat]
<1>1. Internal' = Internal
  BY DEF vars, Internal
<1>2. PICK f : f = Last(visit)
  OBVIOUS
<1>3. /\ visit \in Seq(V) /\ f \in V /\ Front(visit) \in Seq(V)
  <2>1. visit \in Seq(V) /\ visit # <<>>
    BY DEF VisitSuccessor, DInv
  <2> HIDE DEF V
  <2>. QED  BY <1>2, <2>1, FrontKeeps
<1>4. PICK s : s = psTable[f.block].succ[f.seen + 1]
  OBVIOUS
<1>5. s \in DOMAIN blocks
  <2>1. f.block \in Internal /\ f.seen \in Nat
    BY <1>3
  <2>2. psTable[f.block].succ \in Seq(DOMAIN blocks)
    BY <2>1, GraphFacts
  <2>3. f.seen < Len(psTable[f.block].succ)
    BY <1>2 DEF VisitSuccessor
  <2>. QED  BY <1>4, <2>1, <2>2, <2>3, LenProperties, ElementOfSeq
<1>6. PICK w : w = Append(Front(visit), [f EXCEPT !.seen = @ + 1])
  OBVIOUS
<1>7. w \in Seq(V)
  <2>1. [f EXCEPT !.seen = @ + 1] \in V
    BY <1>3
  <2> HIDE DEF V
  <2>. QED  BY <1>3, <1>6, <2>1
<1>8. CASE /\ blocks[s].type = "INTERNAL" /\ ~Contains(worklist, s)
           /\ VisitBlock(s)
           /\ visit' = Append(w, [block |-> s, seen |-> 0])
  <2>1. s \in Internal
    BY <1>5, <1>8 DEF Internal
  <2>2. Proper(worklist')
    BY <1>8, <2>1, AppendProper DEF DInv, VisitBlock
  <2>3. [block |-> s, seen |-> 0] \in V
    BY <2>1
  <2>4. visit' \in Seq(V)
    <3> HIDE DEF V
    <3>. QED  BY <1>7, <1>8, <2>3
  <2>. QED
    BY <1>1, <1>8, <2>2, <2>4 DEF VisitSuccessor, VisitBlock, DInv, vars, Proper, flow
<1>9. CASE visit' = w /\ UNCHANGED <<worklist, dfa>>
  BY <1>1, <1>7, <1>9 DEF VisitSuccessor, DInv, vars, Proper, flow
<1>. QED  BY <1>2, <1>4, <1>6, <1>8, <1>9 DEF VisitSuccessor

LEMMA VisitReturnDInv ==
    ASSUME GraphInv, DInv, UNCHANGED vars, VisitReturn
    PROVE  DInv'
<1> DEFINE V == [block : Internal, seen : Nat]
<1>1. Internal' = Internal
  BY DEF vars, Internal
<1>2. visit' \in Seq(V)
  <2>1. visit \in Seq(V) /\ visit # <<>>
    BY DEF VisitReturn, DInv
  <2> HIDE DEF V
  <2>. QED  BY <2>1, FrontKeeps DEF VisitReturn
<1>3. dfa' \in {"next", "order"}
  BY DEF VisitReturn
<1>. QED  BY <1>1, <1>2, <1>3 DEF VisitReturn, DInv, vars, Proper, flow

LEMMA TakeBlockDInv ==
    ASSUME GraphInv, DInv, UNCHANGED vars, TakeBlock
    PROVE  DInv'
<1>1. Internal' = Internal
  BY DEF vars, Internal
<1>2. PICK b : b = Head(worklist)
  OBVIOUS
<1>3. b \in Internal /\ Proper(worklist')
  BY <1>2, TailProper DEF TakeBlock, PopFront, DInv
<1>4. pass' \in Nat /\ dfa' = "block" /\ status = "done"
  BY DEF TakeBlock, DInv
<1>5. /\ current'.block = b /\ current'.pc = blocks[b].start
      /\ current' = [block |-> current'.block, pc |-> current'.pc, prev |-> current'.prev]
  BY <1>2 DEF TakeBlock
<1>6. DOMAIN contexts' = DOMAIN blocks
  BY DEF TakeBlock, DInv
<1>7. blocks[b].start \in blocks[b].start..(blocks[b].end + 1)
  BY <1>3, <1>4, GraphFacts
<1>. QED
  BY <1>1, <1>3, <1>4, <1>5, <1>6, <1>7 DEF TakeBlock, DInv, vars, Proper

LEMMA InstructionDInv ==
    ASSUME GraphInv, DInv, UNCHANGED vars, Instruction
    PROVE  DInv'
<1>1. Internal' = Internal
  BY DEF vars, Internal
<1>2. PICK b, pc : b = current.block /\ pc = current.pc
  OBVIOUS
<1>3. /\ dfa = "block" /\ dfa' = "block" /\ pc <= blocks[b].end
      /\ UNCHANGED <<ops, worklist, visit, pass>>
      /\ DOMAIN contexts' = DOMAIN contexts
      /\ current' = [current EXCEPT !.pc = @ + 1]
  BY <1>2 DEF Instruction
<1>4. /\ current'.block = b /\ current'.pc = pc + 1
      /\ current' = [block |-> current'.block, pc |-> current'.pc, prev |-> current'.prev]
  BY <1>2, <1>3 DEF DInv
<1>5. pc + 1 \in blocks[b].start..(blocks[b].end + 1)
  BY <1>2, <1>3, GraphFacts DEF DInv
<1>. QED  BY <1>1, <1>2, <1>3, <1>4, <1>5 DEF DInv, vars, Proper

LEMMA FinishBlockDInv ==
    ASSUME GraphInv, DInv, UNCHANGED vars, FinishBlock
    PROVE  DInv'
<1>1. Internal' = Internal
  BY DEF vars, Internal
<1>2. /\ dfa = "block" /\ dfa' = "next"
      /\ UNCHANGED <<ops, visit, contexts, pass, current>>
      /\ worklist' \in {worklist, PushSuccessors(current.block)}
  BY DEF FinishBlock
<1>3. Proper(worklist')
  BY <1>2, PushProper DEF DInv
<1>. QED  BY <1>1, <1>2, <1>3 DEF DInv, vars, Proper

LEMMA StepDInv == GraphInv /\ DInv /\ [FunctionNext]_allVars => DInv'
<1>. SUFFICES ASSUME GraphInv, DInv, [FunctionNext]_allVars PROVE DInv'
  OBVIOUS
<1>1. CASE UNCHANGED allVars
  BY <1>1 DEF DInv, allVars, vars, dfaVars, flow, Proper, Internal
<1>2. CASE dfa = "idle" /\ UNCHANGED dfaVars /\ [Next]_vars
  <2>1. code' = code
    BY <1>2 DEF Next, ScanPlain, RunOffEnd, HandleBranch, RuntimeBranch, AfterBranch, EndCall,
                EndBlock, Terminated, Stop, vars
  <2>2. worklist' = <<>> /\ visit' = <<>> /\ Proper(<<>>)'
        /\ (<<>> \in Seq([block : Internal, seen : Nat]))'
    BY <1>2, NothingProper DEF dfaVars, DInv, Proper, Distinct
  <2>. QED  BY <1>2, <2>1, <2>2 DEF DInv, dfaVars, flow, Proper
<1>3. CASE DfaNext /\ UNCHANGED vars
  <2>1. CASE InitWorklist
    BY <1>3, <2>1, InitWorklistDInv
  <2>2. CASE VisitSuccessor
    BY <1>3, <2>2, VisitSuccessorDInv
  <2>3. CASE VisitReturn
    BY <1>3, <2>3, VisitReturnDInv
  <2>4. CASE TakeBlock
    BY <1>3, <2>4, TakeBlockDInv
  <2>5. CASE Instruction
    BY <1>3, <2>5, InstructionDInv
  <2>6. CASE FinishBlock
    BY <1>3, <2>6, FinishBlockDInv
  <2>7. CASE InstructionThrows \/ Finish \/ Overflow
    BY <1>3, <2>7 DEF InstructionThrows, Finish, Overflow, DInv, vars, flow, Proper, Internal
  <2>. QED  BY <1>3, <2>1, <2>2, <2>3, <2>4, <2>5, <2>6, <2>7 DEF DfaNext
<1>. QED  BY <1>1, <1>2, <1>3, StepKinds DEF DInv

LEMMA Structured == FunctionSpec => [](GraphInv /\ DInv)
<1>. QED  BY GraphKept, FunctionsAnalysable, InitDInv, StepDInv, PTL DEF FunctionSpec

(* In every state of the analysis of every function the worklist holds     *)
(* internal blocks, each at most once, whatever has been pushed.           *)
THEOREM WorklistStaysProper == FunctionSpec => []WorklistProper
<1>1. DInv => WorklistProper
  BY LenProperties, ElementOfSeq DEF DInv, Proper, Distinct, WorklistProper
<1>. QED  BY <1>1, Structured, PTL

-----------------------------------------------------------------------------
(* What one instruction does to the contexts, in a well-ended function,    *)
(* where a block holds instructions only.                                  *)

LEMMA InstructionKnown ==
    ASSUME GraphInv, DInv, WellEnded, dfa = "block",
           NEW b, b = current.block, NEW pc, pc = current.pc, pc <= blocks[b].end
    PROVE  /\ b \in Internal /\ pc \in Positions /\ pc \in Nat /\ pc < Length
           /\ blocks[b].start <= pc /\ blocks[b].start \in Nat /\ blocks[b].end \in Nat
           /\ ops[pc].uses \subseteq Regs /\ ops[pc].defs \subseteq Regs
           /\ (~ops[pc].store /\ IsBranch(code[pc]) /\ blocks[b].endsInCall)
                 <=> (blocks[b].endsInCall /\ pc = blocks[b].end)
<1>1. b \in Internal /\ status = "done" /\ pc \in blocks[b].start..(blocks[b].end + 1)
  BY DEF DInv
<1>2. /\ blocks[b].start \in Nat /\ blocks[b].end \in Nat /\ blocks[b].end \in Positions
      /\ RunsTo(code, blocks[b].start, blocks[b].end)
  BY <1>1, DoneBlocks DEF GraphInv
<1>3. pc \in Nat /\ blocks[b].start <= pc
  BY <1>1, <1>2
<1>4. pc \in Positions /\ pc < Length
  BY <1>2, <1>3, LengthAssumption DEF Positions
<1>5. ops[pc] \in Operand /\ (ops[pc].store => ~IsBranch(code[pc]))
  BY <1>4 DEF DInv, Analysable
<1>6. blocks[b].endsInCall => IsBranch(code[blocks[b].end])
  BY <1>1 DEF GraphInv, GInv, ExitLinked, Internal
<1>7. IsBranch(code[pc]) => pc = blocks[b].end
  BY <1>2, <1>3, <1>4 DEF RunsTo
<1>. QED  BY <1>1, <1>2, <1>3, <1>4, <1>5, <1>6, <1>7 DEF Operand

(* The definitions of r when the instruction has been executed.            *)
After(b, r) ==
    LET call == blocks[b].endsInCall /\ current.pc = blocks[b].end
    IN  IF call /\ r \in DefinedByCall THEN {Fresh("callReturn", r, current.pc)}
        ELSE IF call /\ r \in KilledByCall THEN {}
        ELSE IF r \in ops[current.pc].defs THEN {Fresh("result", r, current.pc)}
        ELSE contexts[b][r]

LEMMA OutputsAt ==
    ASSUME NEW kind, NEW defs, NEW r
    PROVE  {n \in Outputs(kind, defs) : n.reg = r}
              = IF r \in defs THEN {Fresh(kind, r, current.pc)} ELSE {}
<1>1. \A s : Fresh(kind, s, current.pc).reg = s
  BY DEF Fresh
<1>. QED  BY <1>1 DEF Outputs

LEMMA InstructionEffect ==
    ASSUME GraphInv, DInv, WellEnded, Instruction, NEW b, b = current.block
    PROVE  /\ b \in DOMAIN contexts /\ DOMAIN contexts' = DOMAIN contexts
           /\ \A c \in DOMAIN contexts : c # b => contexts'[c] = contexts[c]
           /\ \A r \in Regs : contexts'[b][r] = After(b, r)
<1> DEFINE pc == current.pc
<1>2. PICK branch, call, exit :
          /\ branch = (~ops[pc].store /\ IsBranch(code[pc]))
          /\ call = (branch /\ blocks[b].endsInCall)
          /\ exit = Define(contexts[b], Outputs("result", ops[pc].defs))
  OBVIOUS
<1>3. PICK returns : returns = IF call THEN Outputs("callReturn", DefinedByCall) ELSE {}
  OBVIOUS
<1>4. /\ dfa = "block" /\ pc <= blocks[b].end
      /\ contexts' = [contexts EXCEPT ![b] =
                         IF call THEN Define(Kill(exit), returns) ELSE exit]
  BY <1>2, <1>3, Zenon DEF Instruction
<1>5. b \in DOMAIN contexts
  BY <1>4, InstructionKnown DEF DInv, Internal
<1>6. call <=> (blocks[b].endsInCall /\ pc = blocks[b].end)
  BY <1>2, <1>4, InstructionKnown
<1>7. ASSUME NEW r \in Regs PROVE contexts'[b][r] = After(b, r)
  <2>1. exit[r] = IF r \in ops[pc].defs THEN {Fresh("result", r, pc)} ELSE contexts[b][r]
    <3>1. PICK k, d, nodes : k = "result" /\ d = ops[pc].defs /\ nodes = Outputs(k, d)
      OBVIOUS
    <3>2. {n \in nodes : n.reg = r} = IF r \in d THEN {Fresh(k, r, pc)} ELSE {}
      BY <3>1, OutputsAt
    <3>3. exit[r] = IF {n \in nodes : n.reg = r} = {} THEN contexts[b][r]
                    ELSE {n \in nodes : n.reg = r}
      BY <1>2, <3>1 DEF Define
    <3>. QED  BY <3>1, <3>2, <3>3
  <2>2. CASE call
    <3>0. PICK k : k = "callReturn"
      OBVIOUS
    <3>1. contexts'[b] = Define(Kill(exit), returns) /\ returns = Outputs(k, DefinedByCall)
      BY <1>3, <1>4, <1>5, <2>2, <3>0
    <3>2. contexts'[b][r] = IF r \in DefinedByCall THEN {Fresh(k, r, pc)}
                            ELSE Kill(exit)[r]
      <4>1. {n \in returns : n.reg = r}
               = IF r \in DefinedByCall THEN {Fresh(k, r, pc)} ELSE {}
        BY <3>1, OutputsAt
      <4>2. contexts'[b][r] = IF {n \in returns : n.reg = r} = {} THEN Kill(exit)[r]
                              ELSE {n \in returns : n.reg = r}
        BY <3>1 DEF Define
      <4>. QED  BY <4>1, <4>2
    <3>3. Kill(exit)[r] = IF r \in KilledByCall THEN {} ELSE exit[r]
      BY DEF Kill
    <3>. QED  BY <1>6, <2>1, <2>2, <3>0, <3>2, <3>3 DEF After
  <2>3. CASE ~call
    <3>1. contexts'[b] = exit
      BY <1>4, <1>5, <2>3
    <3>. QED  BY <1>6, <2>1, <2>3, <3>1 DEF After
  <2>. QED  BY <2>2, <2>3
<1>. QED  BY <1>4, <1>5, <1>7

(* The contexts when a block is taken.                                     *)
LEMMA TakeBlockEffect ==
    ASSUME GraphInv, DInv, TakeBlock, NEW b, b = Head(worklist)
    PROVE  /\ b \in Internal /\ b \in DOMAIN contexts /\ DOMAIN contexts' = DOMAIN contexts
           /\ current'.block = b /\ current'.pc = blocks[b].start
           /\ Preds(b) \subseteq DOMAIN contexts
           /\ \A c \in DOMAIN contexts : c # b => contexts'[c] = contexts[c]
           /\ \A r \in Regs : contexts'[b][r] = UNION {contexts[c][r] : c \in Preds(b)}
<1>1. b \in Internal /\ dfa = "next" /\ DOMAIN contexts = DOMAIN blocks
  BY TailProper DEF TakeBlock, DInv
<1>2. b \in DOMAIN contexts
  BY <1>1 DEF Internal
<1>3. contexts' = [contexts EXCEPT ![b] = EntryContext(b)]
  BY DEF TakeBlock
<1>4. psTable[b].pred \in Seq(DOMAIN blocks)
  BY <1>1, GraphFacts
<1>5. Preds(b) \subseteq DOMAIN contexts
  BY <1>1, <1>4, LenProperties, ElementOfSeq DEF Preds
<1>6. ASSUME NEW r \in Regs
      PROVE  contexts'[b][r] = UNION {contexts[c][r] : c \in Preds(b)}
  <2>1. contexts'[b][r] = UNION {contexts[psTable[b].pred[k]][r] : k \in DOMAIN psTable[b].pred}
    BY <1>2, <1>3 DEF EntryContext
  <2>. QED  BY <2>1 DEF Preds
<1>7. current'.block = b /\ current'.pc = blocks[b].start
  BY DEF TakeBlock
<1>. QED  BY <1>1, <1>2, <1>3, <1>5, <1>6, <1>7

-----------------------------------------------------------------------------
(* The age of the variable nodes.                                          *)

(* The nodes of a context are made; those of the pass under way, by the    *)
(* instructions before the current one.                                    *)
Made(n) == n \in DOMAIN inputs /\ n.pass \in Nat /\ n.at \in Nat
Past(n, at) == n.pass < pass \/ (n.pass = pass /\ n.at < at)
Aged(b, r) ==
    \A n \in contexts[b][r] :
        /\ Made(n) /\ Past(n, Length)
        /\ dfa = "block" => n.pass < pass \/ (b = current.block /\ Past(n, current.pc))

AgeInv ==
    /\ InputsOlder
    /\ dfa # "idle" => \A b \in DOMAIN contexts, r \in Regs : Aged(b, r)

LEMMA UseKinds ==
    ASSUME NEW context, NEW r, NEW at
    PROVE  \/ Use(context, r, at) \in context[r]
           \/ Use(context, r, at) = Fresh("input", r, at)
           \/ Use(context, r, at) = Fresh("phi", r, at)
BY DEF Use

(* The inputs of what the operands of an instruction add are older.        *)
LEMMA OperandsOlder ==
    ASSUME NEW context, NEW uses \in SUBSET Regs, NEW at \in Nat, pass \in Nat,
           \A r \in Regs : \A n \in context[r] : Made(n) /\ Past(n, at)
    PROVE  /\ \A m \in Uses(context, uses, at) :
                 Past(m, at) \/ (m.pass = pass /\ m.at = at /\ IsOperand(m))
           /\ \A n \in DOMAIN UseInputs(context, uses, at) :
                 /\ n.pass = pass /\ n.at = at
                 /\ \A m \in UseInputs(context, uses, at)[n] : Past(m, at)
<1>1. ASSUME NEW r \in uses
      PROVE  LET n == Use(context, r, at)
             IN  \/ n \in DOMAIN inputs /\ Past(n, at)
                 \/ n.pass = pass /\ n.at = at /\ IsOperand(n) /\ n.reg = r
  <2>1. CASE Use(context, r, at) \in context[r]
    <3>1. PICK n \in context[r] : n = Use(context, r, at)
      BY <2>1
    <3>2. r \in Regs
      OBVIOUS
    <3>. QED  BY <3>1, <3>2 DEF Made
  <2>2. CASE Use(context, r, at) = Fresh("input", r, at)
    BY <2>2 DEF Fresh, IsOperand
  <2>3. CASE Use(context, r, at) = Fresh("phi", r, at)
    BY <2>3 DEF Fresh, IsOperand
  <2>. QED  BY <2>1, <2>2, <2>3, UseKinds
<1>2. \A m \in Uses(context, uses, at) :
         Past(m, at) \/ (m.pass = pass /\ m.at = at /\ IsOperand(m))
  BY <1>1 DEF Uses
<1>3. ASSUME NEW n \in DOMAIN UseInputs(context, uses, at)
      PROVE  /\ n.pass = pass /\ n.at = at
             /\ \A m \in UseInputs(context, uses, at)[n] : Past(m, at)
  <2>1. n \in Uses(context, uses, at) /\ n \notin DOMAIN inputs
        /\ UseInputs(context, uses, at)[n] = context[n.reg]
    BY DEF UseInputs
  <2>2. PICK r \in uses : n = Use(context, r, at)
    BY <2>1 DEF Uses
  <2>3. n.pass = pass /\ n.at = at /\ n.reg = r
    BY <1>1, <2>1, <2>2
  <2>. QED  BY <2>1, <2>3
<1>. QED  BY <1>2, <1>3

(* What an instruction adds.                                               *)
LEMMA InstructionAges ==
    ASSUME GraphInv, DInv, WellEnded, AgeInv, Instruction, UNCHANGED vars
    PROVE  AgeInv'
<1>1. PICK b, pc, entry, uses : b = current.block /\ pc = current.pc
                                /\ entry = contexts[b] /\ uses = ops[pc].uses
  OBVIOUS
<1>2. PICK used, added, returns, results :
         /\ used = Uses(entry, uses, pc) /\ added = UseInputs(entry, uses, pc)
         /\ results = Outputs("result", ops[pc].defs)
         /\ returns = IF ~ops[pc].store /\ IsBranch(code[pc]) /\ blocks[b].endsInCall
                      THEN Outputs("callReturn", DefinedByCall) ELSE {}
  OBVIOUS
<1>3. inputs' = Over([n \in results \cup returns |-> used], Over(inputs, added))
  BY <1>1, <1>2, Zenon DEF Instruction
<1>4. /\ dfa = "block" /\ dfa' = "block" /\ pc <= blocks[b].end
      /\ pass' = pass /\ current'.pc = pc + 1 /\ current'.block = b
  BY <1>1 DEF Instruction, DInv
<1>5. /\ b \in Internal /\ pc \in Nat /\ pc < Length /\ pass \in Nat
      /\ uses \in SUBSET Regs /\ b \in DOMAIN contexts
      /\ (~ops[pc].store /\ IsBranch(code[pc]) /\ blocks[b].endsInCall)
            <=> (blocks[b].endsInCall /\ pc = blocks[b].end)
  BY <1>1, <1>4, InstructionKnown DEF DInv, Internal
<1>6. ASSUME NEW r \in Regs, NEW n \in entry[r] PROVE Made(n) /\ Past(n, pc)
  BY <1>1, <1>4, <1>5, <1>6 DEF AgeInv, Aged, Past
<1>7. /\ \A m \in used : Past(m, pc) \/ (m.pass = pass /\ m.at = pc /\ IsOperand(m))
      /\ \A n \in DOMAIN added :
            /\ n.pass = pass /\ n.at = pc
            /\ \A m \in added[n] : Past(m, pc)
  <2>1. \A r \in Regs : \A n \in entry[r] : Made(n) /\ Past(n, pc)
    BY <1>6
  <2>2. uses \in SUBSET Regs /\ pc \in Nat /\ pass \in Nat
    BY <1>5
  <2>3. /\ \A m \in Uses(entry, uses, pc) :
              Past(m, pc) \/ (m.pass = pass /\ m.at = pc /\ IsOperand(m))
        /\ \A n \in DOMAIN UseInputs(entry, uses, pc) :
              /\ n.pass = pass /\ n.at = pc
              /\ \A m \in UseInputs(entry, uses, pc)[n] : Past(m, pc)
    BY <2>1, <2>2, OperandsOlder, Zenon
  <2>. QED  BY <1>2, <2>3
<1>8. \A n \in results \cup returns : n.pass = pass /\ n.at = pc /\ ~IsOperand(n)
  BY <1>1, <1>2 DEF Outputs, Fresh, IsOperand
<1>9. InputsOlder'
  <2>. SUFFICES ASSUME NEW n \in DOMAIN inputs', NEW m \in inputs'[n]
                PROVE  \/ m.pass < n.pass
                       \/ m.pass = n.pass /\ m.at < n.at
                       \/ m.pass = n.pass /\ m.at = n.at /\ IsOperand(m) /\ ~IsOperand(n)
    BY DEF InputsOlder, IsOperand
  <2>1. CASE n \in results \cup returns
    <3>1. inputs'[n] = used
      BY <1>3, <2>1 DEF Over
    <3>. QED  BY <1>7, <1>8, <2>1, <3>1 DEF Past
  <2>2. CASE n \notin results \cup returns /\ n \in DOMAIN inputs
    <3>1. inputs'[n] = inputs[n]
      BY <1>3, <2>2 DEF Over
    <3>. QED  BY <2>2, <3>1 DEF AgeInv, InputsOlder
  <2>3. CASE n \notin results \cup returns /\ n \notin DOMAIN inputs
    <3>1. n \in DOMAIN added /\ inputs'[n] = added[n]
      BY <1>3, <2>3 DEF Over
    <3>. QED  BY <1>7, <3>1 DEF Past
  <2>. QED  BY <2>1, <2>2, <2>3
<1>10. DOMAIN inputs \cup results \cup returns \subseteq DOMAIN inputs'
  BY <1>3 DEF Over
<1>11. ASSUME NEW c \in DOMAIN contexts', NEW r \in Regs, NEW n \in contexts'[c][r]
       PROVE  /\ n \in DOMAIN inputs' /\ n.pass \in Nat /\ n.at \in Nat
              /\ n.pass < pass \/ (n.pass = pass /\ n.at < Length)
              /\ n.pass < pass \/ (c = b /\ n.pass = pass /\ n.at < pc + 1)
  <2>1. /\ c \in DOMAIN contexts
        /\ c # b => contexts'[c] = contexts[c]
        /\ c = b => contexts'[c][r] = After(b, r)
    BY <1>1, InstructionEffect
  <2>2. CASE n \in contexts[c][r]
    BY <1>1, <1>4, <1>5, <1>10, <2>1, <2>2 DEF AgeInv, Aged, Made, Past
  <2>3. CASE n \notin contexts[c][r]
    <3>1. c = b /\ n \in After(b, r)
      BY <2>1, <2>3
    <3>2. n \in results \cup returns
      BY <1>1, <1>2, <1>5, <2>3, <3>1 DEF After, Outputs
    <3>. QED  BY <1>5, <1>8, <1>10, <3>1, <3>2
  <2>. QED  BY <2>2, <2>3
<1>12. Length' = Length
  OBVIOUS
<1>. QED  BY <1>4, <1>9, <1>11, <1>12 DEF AgeInv, Aged, Made, Past

LEMMA FinishAges ==
    ASSUME GraphInv, DInv, AgeInv, FinishBlock
    PROVE  AgeInv'
<1>1. PICK b, context, live :
         /\ b = current.block /\ context = contexts[b]
         /\ live = IF blocks[b].isExit THEN {r \in DefinedByCall : context[r] # {}} ELSE {}
  OBVIOUS
<1>2. PICK added : added = UseInputs(context, live, Length)
  OBVIOUS
<1>3. inputs' = Over(inputs, added)
  BY <1>1, <1>2, Zenon DEF FinishBlock
<1>4. /\ dfa = "block" /\ dfa' = "next" /\ pass' = pass /\ contexts' = contexts
  BY DEF FinishBlock
<1>5. b \in DOMAIN contexts /\ pass \in Nat /\ Length \in Nat /\ live \in SUBSET Regs
  BY <1>1, <1>4, LengthAssumption, CallAssumption DEF DInv, Internal
<1>6. \A n \in DOMAIN added :
         /\ n.pass = pass /\ n.at = Length
         /\ \A m \in added[n] : Past(m, Length)
  <2>1. \A r \in Regs : \A n \in context[r] : Made(n) /\ Past(n, Length)
    BY <1>1, <1>4, <1>5 DEF AgeInv, Aged
  <2>2. live \in SUBSET Regs /\ Length \in Nat /\ pass \in Nat
    BY <1>5
  <2>3. \A n \in DOMAIN UseInputs(context, live, Length) :
           /\ n.pass = pass /\ n.at = Length
           /\ \A m \in UseInputs(context, live, Length)[n] : Past(m, Length)
    BY <2>1, <2>2, OperandsOlder, Zenon
  <2>. QED  BY <1>2, <2>3
<1>7. InputsOlder'
  <2>. SUFFICES ASSUME NEW n \in DOMAIN inputs', NEW m \in inputs'[n]
                PROVE  \/ m.pass < n.pass
                       \/ m.pass = n.pass /\ m.at < n.at
                       \/ m.pass = n.pass /\ m.at = n.at /\ IsOperand(m) /\ ~IsOperand(n)
    BY DEF InputsOlder, IsOperand
  <2>1. CASE n \in DOMAIN inputs
    <3>1. inputs'[n] = inputs[n]
      BY <1>3, <2>1 DEF Over
    <3>. QED  BY <2>1, <3>1 DEF AgeInv, InputsOlder
  <2>2. CASE n \notin DOMAIN inputs
    <3>1. n \in DOMAIN added /\ inputs'[n] = added[n]
      BY <1>3, <2>2 DEF Over
    <3>. QED  BY <1>6, <3>1 DEF Past
  <2>. QED  BY <2>1, <2>2
<1>8. DOMAIN inputs \subseteq DOMAIN inputs'
  BY <1>3 DEF Over
<1>. QED  BY <1>4, <1>7, <1>8 DEF AgeInv, Aged, Made, Past

LEMMA TakeAges ==
    ASSUME GraphInv, DInv, AgeInv, TakeBlock
    PROVE  AgeInv'
<1>1. PICK b : b = Head(worklist)
  OBVIOUS
<1>2. /\ dfa = "next" /\ dfa' = "block" /\ inputs' = inputs
      /\ pass \in Nat /\ pass' = pass + 1
  BY DEF TakeBlock, DInv
<1>3. ASSUME NEW c \in DOMAIN contexts', NEW r \in Regs, NEW n \in contexts'[c][r]
      PROVE  /\ Made(n) /\ n.pass <= pass
  <2>1. /\ c \in DOMAIN contexts
        /\ c # b => contexts'[c] = contexts[c]
        /\ c = b => contexts'[c][r] = UNION {contexts[d][r] : d \in Preds(b)}
        /\ Preds(b) \subseteq DOMAIN contexts
    BY <1>1, TakeBlockEffect
  <2>2. PICK d \in DOMAIN contexts : n \in contexts[d][r]
    <3>1. CASE c = b
      <4>1. PICK d \in Preds(b) : n \in contexts[d][r]
        BY <2>1, <3>1
      <4>. QED  BY <2>1, <4>1
    <3>2. CASE c # b
      BY <2>1, <3>2
    <3>. QED  BY <3>1, <3>2
  <2>. QED  BY <1>2, <2>2 DEF AgeInv, Aged, Made, Past
<1>. QED  BY <1>2, <1>3 DEF AgeInv, Aged, Made, Past, InputsOlder, IsOperand

LEMMA StepAgeInv ==
    GraphInv /\ DInv /\ (WellEnded => AgeInv) /\ [FunctionNext]_allVars
        => (WellEnded => AgeInv)'
<1>. SUFFICES ASSUME GraphInv, DInv, WellEnded => AgeInv, [FunctionNext]_allVars, WellEnded'
              PROVE  AgeInv'
  OBVIOUS
<1>1. CASE UNCHANGED allVars
  <2>1. WellEnded
    BY <1>1, ClosureKept DEF WellEnded, allVars, vars
  <2>. QED  BY <1>1, <2>1 DEF AgeInv, Aged, Made, Past, InputsOlder, IsOperand, allVars, dfaVars,
                              flow
<1>2. CASE dfa = "idle" /\ UNCHANGED dfaVars /\ [Next]_vars
  BY <1>2 DEF DInv, AgeInv, InputsOlder, dfaVars, flow
<1>3. CASE DfaNext /\ UNCHANGED vars
  <2>1. WellEnded /\ AgeInv
    BY <1>3, ClosureKept DEF WellEnded, vars
  <2>2. CASE InitWorklist
    BY <2>1, <2>2 DEF InitWorklist, VisitBlock, AgeInv, Aged, NoContext, InputsOlder, IsOperand
  <2>3. CASE TakeBlock
    BY <2>1, <2>3, TakeAges
  <2>4. CASE Instruction
    BY <1>3, <2>1, <2>4, InstructionAges
  <2>5. CASE FinishBlock
    BY <2>1, <2>5, FinishAges
  <2>6. CASE VisitSuccessor \/ VisitReturn \/ InstructionThrows \/ Finish \/ Overflow
    <3>1. UNCHANGED <<flow, pass, current>> /\ dfa' # "block" /\ dfa # "idle"
      BY <2>6 DEF VisitSuccessor, VisitBlock, VisitReturn, InstructionThrows, Finish, Overflow
    <3>. QED  BY <2>1, <3>1 DEF AgeInv, Aged, Made, Past, InputsOlder, IsOperand, flow
  <2>. QED  BY <1>3, <2>2, <2>3, <2>4, <2>5, <2>6 DEF DfaNext
<1>. QED  BY <1>1, <1>2, <1>3, StepKinds DEF DInv

(* In a function that ends well the inputs of a variable node are older    *)
(* than the node, so that who follows them comes to an end, whatever loops *)
(* the function has and however often a block was analysed.                *)
THEOREM InputsAreOlder == FunctionSpec => [](WellEnded => InputsOlder)
<1>1. FunctionInit => (WellEnded => AgeInv)
  BY DEF FunctionInit, DfaInit, AgeInv, InputsOlder
<1>2. AgeInv => InputsOlder
  BY DEF AgeInv
<1>. QED  BY <1>1, <1>2, Structured, StepAgeInv, PTL DEF FunctionSpec

-----------------------------------------------------------------------------
(* Where the definitions of a context come from.                           *)

Site(n) == [kind |-> n.kind, at |-> n.at]

(* The definitions of r in the context of a block that is analysed: made   *)
(* in the block, or one that has reached the end of a predecessor.         *)
Called(b) == blocks[b].endsInCall /\ current.pc > blocks[b].end
DefinedIn(r, lo, hi) == \E p \in lo..hi : r \in ops[p].defs
Arrived(b, r, n) ==
    IF Called(b) /\ r \in KilledByCall \cup DefinedByCall
    THEN r \in DefinedByCall /\ Site(n) = [kind |-> "callReturn", at |-> blocks[b].end]
    ELSE \/ \E p \in blocks[b].start..(current.pc - 1) :
               /\ r \in ops[p].defs /\ ~DefinedIn(r, p + 1, current.pc - 1)
               /\ Site(n) = [kind |-> "result", at |-> p]
         \/ /\ ~DefinedIn(r, blocks[b].start, current.pc - 1)
            /\ \E c \in Preds(b) \cap Internal : Site(n) \in Reaching(c, r)

Sited(b, r) ==
    \A n \in contexts[b][r] :
        /\ b \in Internal
        /\ IF dfa \in {"block", "threw"} /\ b = current.block THEN Arrived(b, r, n)
           ELSE Site(n) \in Reaching(b, r)
SiteInv == dfa # "idle" => \A b \in DOMAIN contexts, r \in Regs : Sited(b, r)

LEMMA ReachingKept ==
    ASSUME UNCHANGED <<blocks, psTable, ops>>, NEW b, NEW r
    PROVE  Reaching(b, r)' = Reaching(b, r)
<1>1. Internal' = Internal
  BY DEF Internal
<1>2. \A c : PassesThrough(c, r)' = PassesThrough(c, r)
  BY DEF PassesThrough
<1>3. \A c : Generated(c, r)' = Generated(c, r)
  BY DEF Generated
<1>4. \A c : Preds(c)' = Preds(c)
  BY DEF Preds
<1>5. Through(r)' = Through(r)
  BY <1>1, <1>2 DEF Through
<1>6. \A S, through : ClosedBackwards(S, through)' = ClosedBackwards(S, through)
  BY <1>4 DEF ClosedBackwards
<1>7. Origins(b, r)' = Origins(b, r)
  BY <1>1, <1>5, <1>6 DEF Origins
<1>. QED  BY <1>3, <1>7 DEF Reaching

(* What a block generates reaches its end, and what reaches the end of a   *)
(* predecessor does if it passes through.                                  *)
LEMMA GeneratedReaches ==
    ASSUME NEW b \in Internal, NEW r
    PROVE  Generated(b, r) \subseteq Reaching(b, r)
<1>1. b \in Origins(b, r)
  BY DEF Origins
<1>. QED  BY <1>1 DEF Reaching

LEMMA PassedReaches ==
    ASSUME NEW b \in Internal, NEW r, PassesThrough(b, r), NEW c \in Preds(b) \cap Internal
    PROVE  Reaching(c, r) \subseteq Reaching(b, r)
<1>1. b \in Through(r)
  BY DEF Through
<1>2. ASSUME NEW S \in SUBSET Internal, b \in S, ClosedBackwards(S, Through(r))
      PROVE  c \in S
  BY <1>1, <1>2 DEF ClosedBackwards
<1>3. Origins(c, r) \subseteq Origins(b, r)
  BY <1>2 DEF Origins
<1>. QED  BY <1>3 DEF Reaching

(* What has arrived when all instructions are executed reaches the end.    *)
LEMMA ArrivedReaches ==
    ASSUME NEW b \in Internal, NEW r, NEW n, Arrived(b, r, n),
           blocks[b].start \in Nat, blocks[b].end \in Nat, current.pc = blocks[b].end + 1
    PROVE  Site(n) \in Reaching(b, r)
<1> DEFINE end  == blocks[b].end
           defs == {p \in blocks[b].start..end : r \in ops[p].defs}
<1>1. current.pc - 1 = end /\ (Called(b) <=> blocks[b].endsInCall)
  BY DEF Called
<1>2. CASE Called(b) /\ r \in KilledByCall \cup DefinedByCall
  <2>1. Site(n) \in Generated(b, r)
    BY <1>1, <1>2 DEF Arrived, Generated
  <2>. QED  BY <2>1, GeneratedReaches
<1>3. CASE ~(Called(b) /\ r \in KilledByCall \cup DefinedByCall)
  <2>1. CASE \E p \in blocks[b].start..(current.pc - 1) :
               /\ r \in ops[p].defs /\ ~DefinedIn(r, p + 1, current.pc - 1)
               /\ Site(n) = [kind |-> "result", at |-> p]
    <3>1. PICK p \in blocks[b].start..end :
               /\ r \in ops[p].defs /\ ~DefinedIn(r, p + 1, end)
               /\ Site(n) = [kind |-> "result", at |-> p]
      BY <1>1, <2>1
    <3>2. p \in defs /\ \A q \in defs : q <= p
      BY <3>1 DEF DefinedIn
    <3>3. Max(defs) = p
      <4>1. \A x \in defs : (\A y \in defs : x >= y) => x = p
        BY <3>2
      <4>2. \A y \in defs : p >= y
        BY <3>2
      <4> HIDE DEF defs
      <4>. QED  BY <3>2, <4>1, <4>2 DEF Max
    <3>4. Generated(b, r) = {[kind |-> "result", at |-> Max(defs)]}
      BY <1>1, <1>3, <3>2 DEF Generated
    <3>. QED  BY <3>1, <3>3, <3>4, GeneratedReaches
  <2>2. CASE /\ ~DefinedIn(r, blocks[b].start, current.pc - 1)
             /\ \E c \in Preds(b) \cap Internal : Site(n) \in Reaching(c, r)
    <3>1. PassesThrough(b, r)
      BY <1>1, <1>3, <2>2 DEF PassesThrough, DefinedIn
    <3>. QED  BY <2>2, <3>1, PassedReaches
  <2>. QED  BY <1>3, <2>1, <2>2 DEF Arrived
<1>. QED  BY <1>2, <1>3

LEMMA TakeSites ==
    ASSUME GraphInv, DInv, SiteInv, TakeBlock, UNCHANGED vars
    PROVE  SiteInv'
<1>1. PICK b : b = Head(worklist)
  OBVIOUS
<1>2. /\ dfa = "next" /\ dfa' = "block" /\ UNCHANGED <<blocks, psTable, ops>>
      /\ current'.block = b /\ current'.pc = blocks[b].start
      /\ b \in Internal /\ blocks[b].start \in Nat /\ blocks[b].end \in Nat
      /\ blocks[b].start <= blocks[b].end /\ Internal' = Internal /\ Preds(b)' = Preds(b)
  BY <1>1, TakeBlockEffect, GraphFacts DEF TakeBlock, vars, DInv, Internal, Preds
<1>3. ASSUME NEW c \in DOMAIN contexts', NEW r \in Regs, NEW n \in contexts'[c][r]
      PROVE  /\ c \in Internal
             /\ IF c = b THEN Arrived(b, r, n)' ELSE Site(n) \in Reaching(c, r)
  <2>1. /\ c \in DOMAIN contexts
        /\ c # b => contexts'[c] = contexts[c]
        /\ c = b => contexts'[c][r] = UNION {contexts[d][r] : d \in Preds(b)}
        /\ Preds(b) \subseteq DOMAIN contexts
    BY <1>1, TakeBlockEffect
  <2>2. CASE c # b
    BY <1>2, <2>1, <2>2 DEF SiteInv, Sited
  <2>3. CASE c = b
    <3>1. PICK d \in Preds(b) : n \in contexts[d][r]
      BY <2>1, <2>3
    <3>2. d \in Internal /\ Site(n) \in Reaching(d, r)
      BY <1>2, <2>1, <3>1 DEF SiteInv, Sited
    <3>3. Reaching(d, r)' = Reaching(d, r)
      BY <1>2, ReachingKept
    <3>4. ~Called(b)' /\ ~DefinedIn(r, blocks[b].start, current.pc - 1)'
      BY <1>2 DEF Called, DefinedIn
    <3>5. Site(n)' = Site(n)
      BY DEF Site
    <3>. QED  BY <1>2, <2>3, <3>1, <3>2, <3>3, <3>4, <3>5 DEF Arrived
  <2>. QED  BY <2>2, <2>3
<1>4. \A c, r : Reaching(c, r)' = Reaching(c, r)
  BY <1>2, ReachingKept
<1>. QED  BY <1>2, <1>3, <1>4 DEF SiteInv, Sited, Site

LEMMA InstructionSites ==
    ASSUME GraphInv, DInv, WellEnded, SiteInv, Instruction, UNCHANGED vars
    PROVE  SiteInv'
<1>1. PICK b, pc : b = current.block /\ pc = current.pc
  OBVIOUS
<1>2. /\ dfa = "block" /\ dfa' = "block" /\ pc <= blocks[b].end
      /\ UNCHANGED <<blocks, psTable, ops>>
      /\ current'.pc = pc + 1 /\ current'.block = b /\ Internal' = Internal
  BY <1>1 DEF Instruction, DInv, vars, Internal
<1>3. /\ b \in Internal /\ pc \in Nat /\ blocks[b].start \in Nat /\ blocks[b].end \in Nat
      /\ blocks[b].start <= pc /\ Preds(b)' = Preds(b)
  BY <1>1, <1>2, InstructionKnown DEF Preds
<1>4. /\ ~Called(b)
      /\ Called(b)' <=> (blocks[b].endsInCall /\ pc = blocks[b].end)
  BY <1>1, <1>2, <1>3 DEF Called
<1>5. \A c, r : Reaching(c, r)' = Reaching(c, r)
  BY <1>2, ReachingKept
<1>6. ASSUME NEW r \in Regs, NEW n \in After(b, r),
             \A m \in contexts[b][r] : Arrived(b, r, m)
      PROVE  Arrived(b, r, n)'
  <2>1. CASE Called(b)' /\ r \in KilledByCall \cup DefinedByCall
    <3>1. r \in DefinedByCall /\ n = Fresh("callReturn", r, pc)
      BY <1>1, <1>4, <2>1 DEF After
    <3>2. Site(n) = [kind |-> "callReturn", at |-> blocks[b].end]
      BY <1>4, <2>1, <3>1 DEF Fresh, Site
    <3>. QED  BY <1>2, <2>1, <3>1, <3>2 DEF Arrived, Site
  <2>2. CASE ~(Called(b)' /\ r \in KilledByCall \cup DefinedByCall) /\ r \in ops[pc].defs
    <3>1. n = Fresh("result", r, pc)
      BY <1>1, <1>4, <2>2 DEF After
    <3>2. Site(n) = [kind |-> "result", at |-> pc]
      BY <3>1 DEF Fresh, Site
    <3>3. pc \in blocks[b].start..(pc + 1 - 1) /\ ~DefinedIn(r, pc + 1, pc + 1 - 1)'
      BY <1>3 DEF DefinedIn
    <3>. QED  BY <1>2, <2>2, <3>2, <3>3 DEF Arrived, Site
  <2>3. CASE ~(Called(b)' /\ r \in KilledByCall \cup DefinedByCall) /\ r \notin ops[pc].defs
    <3>1. n \in contexts[b][r]
      BY <1>1, <1>4, <2>3 DEF After
    <3>2. Arrived(b, r, n)
      BY <1>6, <3>1
    <3>3. \A lo \in Nat : DefinedIn(r, lo, pc)' => DefinedIn(r, lo, pc - 1)
      BY <1>2, <1>3, <2>3 DEF DefinedIn
    <3>4. CASE \E p \in blocks[b].start..(pc - 1) :
                  /\ r \in ops[p].defs /\ ~DefinedIn(r, p + 1, pc - 1)
                  /\ Site(n) = [kind |-> "result", at |-> p]
      <4>1. PICK p \in blocks[b].start..(pc - 1) :
                  /\ r \in ops[p].defs /\ ~DefinedIn(r, p + 1, pc - 1)
                  /\ Site(n) = [kind |-> "result", at |-> p]
        BY <3>4
      <4>2. p \in blocks[b].start..(pc + 1 - 1) /\ p + 1 \in Nat /\ pc + 1 - 1 = pc
        BY <1>3
      <4>3. ~DefinedIn(r, p + 1, current.pc - 1)' /\ p \in blocks'[b].start..(current'.pc - 1)
        <5>1. current'.pc - 1 = pc /\ blocks' = blocks /\ p \in blocks[b].start..pc
          BY <1>2, <1>3, <4>2
        <5>2. ~DefinedIn(r, p + 1, pc)'
          BY <3>3, <4>1, <4>2
        <5>. QED  BY <5>1, <5>2
      <4>4. (\E q \in blocks[b].start..(current.pc - 1) :
               /\ r \in ops[q].defs /\ ~DefinedIn(r, q + 1, current.pc - 1)
               /\ Site(n) = [kind |-> "result", at |-> q])'
        BY <1>2, <4>1, <4>3 DEF Site
      <4>. QED  BY <1>2, <2>3, <4>4 DEF Arrived
    <3>5. CASE /\ ~DefinedIn(r, blocks[b].start, pc - 1)
               /\ \E c \in Preds(b) \cap Internal : Site(n) \in Reaching(c, r)
      <4>1. pc + 1 - 1 = pc
        BY <1>3
      <4>2. ~DefinedIn(r, blocks[b].start, current.pc - 1)'
        BY <1>2, <1>3, <3>3, <3>5, <4>1
      <4>3. (\E c \in Preds(b) \cap Internal : Site(n) \in Reaching(c, r))'
        BY <1>2, <1>3, <1>5, <3>5 DEF Site
      <4>. QED  BY <1>2, <2>3, <4>2, <4>3 DEF Arrived
    <3>. QED  BY <1>1, <1>4, <3>2, <3>4, <3>5 DEF Arrived
  <2>. QED  BY <2>1, <2>2, <2>3
<1>7. ASSUME NEW c \in DOMAIN contexts', NEW r \in Regs, NEW n \in contexts'[c][r]
      PROVE  /\ c \in Internal
             /\ IF c = b THEN Arrived(b, r, n)' ELSE Site(n) \in Reaching(c, r)
  <2>1. /\ c \in DOMAIN contexts /\ b \in DOMAIN contexts
        /\ c # b => contexts'[c] = contexts[c]
        /\ c = b => contexts'[c][r] = After(b, r)
    BY <1>1, InstructionEffect
  <2>2. \A m \in contexts[c][r] :
           c \in Internal /\ IF c = b THEN Arrived(b, r, m) ELSE Site(m) \in Reaching(c, r)
    BY <1>1, <1>2, <2>1 DEF SiteInv, Sited
  <2>3. CASE c = b
    <3>1. \A m \in contexts[b][r] : Arrived(b, r, m)
      BY <2>2, <2>3
    <3>2. n \in After(b, r)
      BY <2>1, <2>3
    <3>. QED  BY <1>3, <1>6, <2>3, <3>1, <3>2
  <2>4. CASE c # b
    BY <2>1, <2>2, <2>4
  <2>. QED  BY <2>3, <2>4
<1>. QED  BY <1>2, <1>5, <1>7 DEF SiteInv, Sited, Site

LEMMA FinishSites ==
    ASSUME GraphInv, DInv, SiteInv, FinishBlock, UNCHANGED vars
    PROVE  SiteInv'
<1>1. PICK b : b = current.block
  OBVIOUS
<1>2. /\ dfa = "block" /\ dfa' = "next" /\ UNCHANGED <<blocks, psTable, ops, contexts>>
      /\ Internal' = Internal
  BY DEF FinishBlock, vars, Internal
<1>3. /\ b \in Internal /\ blocks[b].start \in Nat /\ blocks[b].end \in Nat
      /\ current.pc = blocks[b].end + 1
  <2>1. current.pc > blocks[b].end
    BY <1>1 DEF FinishBlock
  <2>2. b \in Internal /\ current.pc \in blocks[b].start..(blocks[b].end + 1)
    BY <1>1, <1>2 DEF DInv
  <2>3. blocks[b].start \in Nat /\ blocks[b].end \in Nat
    BY <2>2, GraphFacts
  <2>. QED  BY <2>1, <2>2, <2>3
<1>4. ASSUME NEW c \in DOMAIN contexts, NEW r \in Regs, NEW n \in contexts[c][r]
      PROVE  c \in Internal /\ Site(n) \in Reaching(c, r)
  <2>1. c \in Internal /\ IF c = b THEN Arrived(b, r, n) ELSE Site(n) \in Reaching(c, r)
    BY <1>1, <1>2 DEF SiteInv, Sited
  <2>. QED  BY <1>3, <2>1, ArrivedReaches
<1>5. \A c, r : Reaching(c, r)' = Reaching(c, r)
  BY <1>2, ReachingKept
<1>. QED  BY <1>2, <1>4, <1>5 DEF SiteInv, Sited, Site

LEMMA SameArrived ==
    ASSUME UNCHANGED <<blocks, psTable, ops, current>>
    PROVE  \A b, r, n : Arrived(b, r, n)' <=> Arrived(b, r, n)
<1>1. \A b : (Called(b)' <=> Called(b)) /\ Preds(b)' = Preds(b)
  BY DEF Called, Preds
<1>2. \A r, lo, hi : DefinedIn(r, lo, hi)' <=> DefinedIn(r, lo, hi)
  BY DEF DefinedIn
<1>3. \A n : Site(n)' = Site(n)
  BY DEF Site
<1>4. \A b, r : Reaching(b, r)' = Reaching(b, r)
  BY ReachingKept
<1>5. Internal' = Internal
  BY DEF Internal
<1>. QED  BY <1>1, <1>2, <1>3, <1>4, <1>5 DEF Arrived

LEMMA StepSiteInv ==
    GraphInv /\ DInv /\ (WellEnded => SiteInv) /\ [FunctionNext]_allVars
        => (WellEnded => SiteInv)'
<1>. SUFFICES ASSUME GraphInv, DInv, WellEnded => SiteInv, [FunctionNext]_allVars, WellEnded'
              PROVE  SiteInv'
  OBVIOUS
<1>1. CASE dfa = "idle" /\ UNCHANGED dfaVars /\ [Next]_vars
  BY <1>1 DEF SiteInv, dfaVars
<1>2. CASE \/ UNCHANGED allVars
           \/ DfaNext /\ UNCHANGED vars
  <2>1. UNCHANGED <<code, blocks, psTable, ops>> /\ Internal' = Internal
    BY <1>2 DEF allVars, dfaVars, vars, DfaNext, InitWorklist, VisitSuccessor, VisitReturn,
                TakeBlock, Instruction, InstructionThrows, FinishBlock, Finish, Overflow, Internal
  <2>2. WellEnded /\ SiteInv
    BY <2>1, ClosureKept DEF WellEnded
  <2>3. \A c, r : Reaching(c, r)' = Reaching(c, r)
    BY <2>1, ReachingKept
  <2>4. CASE UNCHANGED allVars
    <3>1. UNCHANGED <<contexts, current, dfa>>
      BY <2>4 DEF allVars, dfaVars, flow
    <3>2. \A c, r, n : Arrived(c, r, n)' <=> Arrived(c, r, n)
      BY <2>1, <3>1, SameArrived
    <3>. QED  BY <2>1, <2>2, <2>3, <3>1, <3>2 DEF SiteInv, Sited, Site
  <2>5. CASE DfaNext /\ UNCHANGED vars
    <3>1. CASE InitWorklist
      BY <3>1 DEF InitWorklist, SiteInv, Sited, NoContext
    <3>2. CASE TakeBlock
      BY <2>2, <2>5, <3>2, TakeSites
    <3>3. CASE Instruction
      BY <2>2, <2>5, <3>3, InstructionSites
    <3>4. CASE FinishBlock
      BY <2>2, <2>5, <3>4, FinishSites
    <3>5. CASE VisitSuccessor \/ VisitReturn \/ Finish \/ Overflow
      <4>1. /\ UNCHANGED contexts /\ dfa # "idle"
            /\ dfa \notin {"block", "threw"} /\ dfa' \notin {"block", "threw"}
        BY <3>5 DEF VisitSuccessor, VisitBlock, VisitReturn, Finish, Overflow, flow
      <4>. QED  BY <2>1, <2>2, <2>3, <4>1 DEF SiteInv, Sited, Site
    <3>6. CASE InstructionThrows
      <4>1. UNCHANGED <<contexts, current>> /\ dfa = "block" /\ dfa' = "threw"
        BY <3>6 DEF InstructionThrows, flow
      <4>2. \A c, r, n : Arrived(c, r, n)' <=> Arrived(c, r, n)
        BY <2>1, <4>1, SameArrived
      <4>. QED  BY <2>1, <2>2, <2>3, <4>1, <4>2 DEF SiteInv, Sited, Site
    <3>. QED  BY <2>5, <3>1, <3>2, <3>3, <3>4, <3>5, <3>6 DEF DfaNext
  <2>. QED  BY <1>2, <2>4, <2>5
<1>. QED  BY <1>1, <1>2, StepKinds DEF DInv

(* In a function that ends well the contexts hold, whenever no block is    *)
(* being analysed, only definitions that reach the end of their block.     *)
THEOREM DefinitionsReach == FunctionSpec => [](WellEnded => NoSpuriousDefinition)
<1>1. FunctionInit => (WellEnded => SiteInv)
  BY DEF FunctionInit, DfaInit, SiteInv
<1>2. ASSUME DInv, GraphInv, SiteInv PROVE NoSpuriousDefinition
  <2>. SUFFICES ASSUME dfa \in {"next", "done", "overflow"},
                       NEW b \in Internal, NEW r \in Regs, NEW n \in contexts[b][r]
                PROVE  Site(n) \in Reaching(b, r)
    BY DEF NoSpuriousDefinition, Sites, Site
  <2>1. b \in DOMAIN contexts
    BY <1>2 DEF DInv, Internal
  <2>. QED  BY <1>2, <2>1 DEF SiteInv, Sited
<1>. QED  BY <1>1, <1>2, Structured, StepSiteInv, PTL DEF FunctionSpec

-----------------------------------------------------------------------------
(* The first order: every block is on the worklist when it is complete.    *)

Listed == {worklist[k] : k \in DOMAIN worklist}

(* The first n successors of block b are listed, if they are in the        *)
(* function.                                                               *)
Looked(b, n) ==
    \A k \in DOMAIN psTable[b].succ :
        k <= n /\ psTable[b].succ[k] \in Internal => psTable[b].succ[k] \in Listed
LookedAtAll(b) == \A s \in SuccsOf(b) \cap Internal : s \in Listed

OrderInv ==
    /\ 1 \in Listed
    /\ \A b \in Listed : LookedAtAll(b) \/ \E k \in DOMAIN visit : visit[k].block = b
    /\ \A k \in DOMAIN visit : Looked(visit[k].block, visit[k].seen)

(* Membership is what Contains asks for.                                   *)
LEMMA ListedIs ==
    ASSUME NEW w \in Seq(Internal), NEW x
    PROVE  /\ Contains(w, x) <=> x \in {w[k] : k \in DOMAIN w}
           /\ \A y \in Internal : {Append(w, y)[k] : k \in DOMAIN Append(w, y)}
                                     = {w[k] : k \in DOMAIN w} \cup {y}
<1>1. Len(w) \in Nat /\ DOMAIN w = 1..Len(w)
  BY LenProperties
<1>2. Contains(w, x) <=> x \in {w[k] : k \in DOMAIN w}
  BY <1>1 DEF Contains
<1>3. ASSUME NEW y \in Internal
      PROVE  {Append(w, y)[k] : k \in DOMAIN Append(w, y)} = {w[k] : k \in DOMAIN w} \cup {y}
  <2>1. PICK n, u : n = Len(w) /\ u = Append(w, y)
    OBVIOUS
  <2>2. /\ u \in Seq(Internal) /\ Len(u) = n + 1 /\ n \in Nat
        /\ \A k \in 1..n : u[k] = w[k]
        /\ u[n + 1] = y
    BY <1>1, <2>1, AppendProperties
  <2>3. DOMAIN u = 1..n \cup {n + 1} /\ DOMAIN w = 1..n
    <3>1. DOMAIN u = 1..(n + 1)
      BY <2>2, LenProperties
    <3>. QED  BY <1>1, <2>1, <2>2, <3>1
  <2>4. {u[k] : k \in DOMAIN u} = {w[k] : k \in DOMAIN w} \cup {y}
    BY <2>2, <2>3
  <2>. QED  BY <2>1, <2>4
<1>. QED  BY <1>2, <1>3

(* A set of blocks with the first and with all successors has them all.    *)
LEMMA AllListed ==
    ASSUME GraphInv, Rooted, 1 \in Listed, \A b \in Listed : LookedAtAll(b)
    PROVE  Internal \subseteq Listed
<1> DEFINE T == {i \in Nat : i \in Internal /\ i \notin Listed}
<1>1. Internal \subseteq Nat
  BY GraphFacts
<1>. SUFFICES ASSUME T # {} PROVE FALSE
  BY <1>1
<1>2. PICK i \in T : \A j \in T : i <= j
  BY FirstIsLeast
<1>3. i \in Internal \ {1}
  BY <1>2
<1>4. PICK j \in Internal : j < i /\ i \in SuccsOf(j)
  BY <1>3 DEF Rooted
<1>5. j \in Listed
  BY <1>1, <1>2, <1>4
<1>. QED  BY <1>2, <1>3, <1>4, <1>5 DEF LookedAtAll

LEMMA BeginOrder ==
    ASSUME GraphInv, DInv, UNCHANGED vars, InitWorklist
    PROVE  OrderInv'
<1>1. worklist' = <<1>> /\ visit' = <<[block |-> 1, seen |-> 0]>>
  <2>1. worklist = <<>>
    BY DEF InitWorklist, DInv
  <2>. QED  BY <2>1 DEF InitWorklist, VisitBlock
<1>2. Listed' = {1} /\ DOMAIN visit' = {1} /\ visit'[1].block = 1 /\ visit'[1].seen = 0
  BY <1>1 DEF Listed
<1>3. Looked(1, 0)'
  <2>1. psTable[1].succ \in Seq(DOMAIN blocks) /\ psTable' = psTable
    BY GraphFacts DEF vars
  <2>2. \A k \in DOMAIN psTable'[1].succ : ~(k <= 0)
    BY <2>1, LenProperties
  <2>. QED  BY <2>2 DEF Looked
<1>. QED  BY <1>2, <1>3 DEF OrderInv, Looked

LEMMA SuccessorOrder ==
    ASSUME GraphInv, DInv, OrderInv, UNCHANGED vars, VisitSuccessor
    PROVE  OrderInv'
<1>1. PICK f, n, w : f = Last(visit) /\ n = Len(visit) /\ w = [f EXCEPT !.seen = @ + 1]
  OBVIOUS
<1>2. PICK s : s = psTable[f.block].succ[f.seen + 1]
  OBVIOUS
<1> DEFINE V == [block : Internal, seen : Nat]
<1>3. /\ visit \in Seq(V) /\ visit # <<>> /\ f \in V /\ Front(visit) \in Seq(V)
      /\ n \in DOMAIN visit /\ f = visit[n]
  <2>1. visit \in Seq(V) /\ visit # <<>>
    BY DEF VisitSuccessor, DInv
  <2> HIDE DEF V
  <2>. QED  BY <1>1, <2>1, FrontKeeps DEF Last
<1>4. n \in Nat \ {0} /\ DOMAIN visit = 1..n
  <2> HIDE DEF V
  <2>. QED  BY <1>1, <1>3, LenProperties, EmptySeq
<1>5. w \in V /\ w.block = f.block /\ w.seen = f.seen + 1
  BY <1>1, <1>3
<1>6. PICK v : v = Append(Front(visit), w)
  OBVIOUS
<1>7. /\ v \in Seq(V) /\ Len(v) = n /\ DOMAIN v = 1..n
      /\ v[n] = w /\ \A k \in 1..(n - 1) : v[k] = visit[k]
  <2> HIDE DEF V
  <2>1. Len(Front(visit)) = n - 1 /\ \A k \in 1..(n - 1) : Front(visit)[k] = visit[k]
    <3>1. n - 1 \in Nat /\ \A k \in 1..(n - 1) : visit[k] \in V
      BY <1>3, <1>4, ElementOfSeq, <1>1
    <3>. QED  BY <1>1, <3>1, SubSeqProperties DEF Front
  <2>2. /\ v \in Seq(V) /\ Len(v) = n - 1 + 1 /\ v[n - 1 + 1] = w
        /\ \A k \in 1..(n - 1) : v[k] = Front(visit)[k]
    BY <1>3, <1>5, <1>6, <2>1, AppendProperties
  <2>3. n - 1 + 1 = n
    BY <1>4
  <2>. QED  BY <2>1, <2>2, <2>3, LenProperties
<1>8. Listed \subseteq Listed' /\ (s \in Internal => s \in Listed')
      /\ Listed' \subseteq Listed \cup {s}
      /\ Internal' = Internal /\ psTable' = psTable
      /\ \/ visit' = v /\ Listed' = Listed
         \/ visit' = Append(v, [block |-> s, seen |-> 0]) /\ s \in Internal
  <2>1. s \in DOMAIN blocks
    <3>1. f.block \in Internal /\ f.seen \in Nat
      BY <1>3
    <3>2. psTable[f.block].succ \in Seq(DOMAIN blocks)
      BY <3>1, GraphFacts
    <3>3. f.seen < Len(psTable[f.block].succ)
      BY <1>1 DEF VisitSuccessor
    <3>. QED  BY <1>2, <3>1, <3>2, <3>3, LenProperties, ElementOfSeq
  <2>2. worklist \in Seq(Internal) /\ (s \in Internal <=> blocks[s].type = "INTERNAL")
    BY <2>1 DEF DInv, Proper, Internal
  <2>3. Contains(worklist, s) <=> s \in Listed
    BY <2>2, ListedIs DEF Listed
  <2>4. Internal' = Internal /\ psTable' = psTable
    BY DEF vars, Internal
  <2>5. CASE /\ blocks[s].type = "INTERNAL" /\ ~Contains(worklist, s)
             /\ VisitBlock(s)
             /\ visit' = Append(v, [block |-> s, seen |-> 0])
    <3>1. Listed' = Listed \cup {s}
      <4>1. worklist' = Append(worklist, s) /\ s \in Internal
        BY <2>2, <2>5 DEF VisitBlock
      <4>2. {Append(worklist, s)[k] : k \in DOMAIN Append(worklist, s)}
               = {worklist[k] : k \in DOMAIN worklist} \cup {s}
        BY <2>2, <4>1, ListedIs
      <4>3. Listed' = {worklist'[k] : k \in DOMAIN worklist'}
        BY DEF Listed
      <4>. QED  BY <4>1, <4>2, <4>3 DEF Listed
    <3>. QED  BY <2>2, <2>4, <2>5, <3>1
  <2>6. CASE /\ ~(blocks[s].type = "INTERNAL" /\ ~Contains(worklist, s))
             /\ visit' = v /\ UNCHANGED worklist
    <3>1. Listed' = Listed
      BY <2>6 DEF Listed
    <3>. QED  BY <2>2, <2>3, <2>4, <2>6, <3>1
  <2>. QED  BY <1>1, <1>2, <1>6, <2>5, <2>6 DEF VisitSuccessor
<1>9. PICK g, last : g = [block |-> s, seen |-> 0] /\ last = n + 1
  OBVIOUS
<1>10. \/ visit' = v /\ Listed' = Listed
       \/ /\ DOMAIN visit' = 1..last /\ visit'[last] = g /\ s \in Internal
          /\ \A k \in 1..n : visit'[k] = v[k]
  <2>1. CASE visit' = Append(v, g) /\ s \in Internal
    <3>1. g \in V
      BY <1>9, <2>1
    <3> HIDE DEF V
    <3>2. /\ visit' \in Seq(V) /\ Len(visit') = last /\ visit'[last] = g
          /\ \A k \in 1..n : visit'[k] = v[k]
      BY <1>7, <1>9, <2>1, <3>1, AppendProperties
    <3>. QED  BY <2>1, <3>2, LenProperties
  <2>. QED  BY <1>8, <1>9, <2>1
<1>11. \A b, m : Looked(b, m) => Looked(b, m)'
  BY <1>8 DEF Looked
<1>12. Looked(w.block, w.seen)'
  <2>1. Looked(f.block, f.seen) /\ f.block \in Internal /\ f.seen \in Nat
    BY <1>3 DEF OrderInv
  <2>2. psTable[f.block].succ \in Seq(DOMAIN blocks)
    BY <2>1, GraphFacts
  <2>3. \A k \in DOMAIN psTable[f.block].succ : k <= f.seen + 1 => k <= f.seen \/ k = f.seen + 1
    BY <2>1, <2>2, LenProperties
  <2>. QED  BY <1>2, <1>5, <1>8, <2>1, <2>3 DEF Looked
<1>13. \A k \in 1..n : k = n \/ k \in 1..(n - 1)
  BY <1>4
<1>14. \A k \in 1..n : Looked(v[k].block, v[k].seen)' /\ v[k].block = visit[k].block
  <2>. SUFFICES ASSUME NEW k \in 1..n
                PROVE  Looked(v[k].block, v[k].seen)' /\ v[k].block = visit[k].block
    OBVIOUS
  <2>1. CASE k = n
    BY <1>3, <1>5, <1>7, <1>12, <2>1
  <2>2. CASE k \in 1..(n - 1)
    <3>1. Looked(visit[k].block, visit[k].seen)
      BY <1>4 DEF OrderInv
    <3>. QED  BY <1>7, <1>11, <2>2, <3>1
  <2>. QED  BY <1>13, <2>1, <2>2
<1>15. \A b \in Listed : LookedAtAll(b)' \/ \E k \in 1..n : v[k].block = b
  <2>1. \A b : LookedAtAll(b) => LookedAtAll(b)'
    BY <1>8 DEF LookedAtAll, SuccsOf
  <2>. QED  BY <1>4, <1>14, <2>1 DEF OrderInv
<1>16. 1 \in Listed'
  BY <1>8 DEF OrderInv
<1>17. CASE visit' = v /\ Listed' = Listed
  BY <1>7, <1>14, <1>15, <1>16, <1>17 DEF OrderInv, Looked
<1>18. CASE /\ DOMAIN visit' = 1..last /\ visit'[last] = g /\ s \in Internal
            /\ \A k \in 1..n : visit'[k] = v[k]
  <2>1. Looked(g.block, g.seen)'
    <3>1. psTable[s].succ \in Seq(DOMAIN blocks)
      BY <1>18, GraphFacts
    <3>2. \A k \in DOMAIN psTable[s].succ : ~(k <= 0)
      BY <3>1, LenProperties
    <3>. QED  BY <1>8, <1>9, <3>2 DEF Looked
  <2>2. \A k \in 1..last : k = last \/ k \in 1..n
    BY <1>4, <1>9
  <2>3. \A k \in 1..n : k \in 1..last
    BY <1>4, <1>9
  <2>4. last \in 1..last /\ g.block = s
    BY <1>4, <1>9
  <2>5. \A k \in DOMAIN visit' : Looked(visit[k].block, visit[k].seen)'
    <3>. SUFFICES ASSUME NEW k \in 1..last PROVE Looked(visit[k].block, visit[k].seen)'
      BY <1>18
    <3>1. CASE k = last
      BY <1>18, <2>1, <3>1 DEF Looked
    <3>2. CASE k \in 1..n
      BY <1>14, <1>18, <3>2 DEF Looked
    <3>. QED  BY <2>2, <3>1, <3>2
  <2>6. \A b \in Listed' : LookedAtAll(b)' \/ \E k \in DOMAIN visit' : visit'[k].block = b
    <3>. SUFFICES ASSUME NEW b \in Listed', ~LookedAtAll(b)'
                  PROVE  \E k \in 1..last : visit'[k].block = b
      BY <1>18
    <3>1. CASE b = s
      BY <1>18, <2>4, <3>1
    <3>2. CASE b \in Listed
      <4>1. PICK k \in 1..n : v[k].block = b
        BY <1>15, <3>2
      <4>. QED  BY <1>18, <2>3, <4>1
    <3>. QED  BY <1>8, <3>1, <3>2
  <2>. QED  BY <1>16, <2>5, <2>6 DEF OrderInv
<1>. QED  BY <1>10, <1>17, <1>18

LEMMA ReturnOrder ==
    ASSUME GraphInv, DInv, OrderInv, UNCHANGED vars, VisitReturn
    PROVE  OrderInv' /\ (visit' = <<>> => \A b \in Listed : LookedAtAll(b))
<1> DEFINE V == [block : Internal, seen : Nat]
<1>1. PICK f, n : f = Last(visit) /\ n = Len(visit)
  OBVIOUS
<1>2. /\ visit \in Seq(V) /\ visit # <<>> /\ f \in V /\ n \in DOMAIN visit /\ f = visit[n]
  <2>1. visit \in Seq(V) /\ visit # <<>>
    BY DEF VisitReturn, DInv
  <2> HIDE DEF V
  <2>. QED  BY <1>1, <2>1, FrontKeeps DEF Last
<1>3. n \in Nat \ {0} /\ DOMAIN visit = 1..n
  <2> HIDE DEF V
  <2>. QED  BY <1>1, <1>2, LenProperties, EmptySeq
<1>4. DOMAIN visit' = 1..(n - 1) /\ \A k \in 1..(n - 1) : visit'[k] = visit[k]
  <2> HIDE DEF V
  <2>1. n - 1 \in Nat /\ \A k \in 1..(n - 1) : visit[k] \in V
    BY <1>1, <1>2, <1>3, ElementOfSeq
  <2>2. visit' = SubSeq(visit, 1, n - 1)
    BY <1>1 DEF VisitReturn, Front
  <2>. QED  BY <2>1, <2>2, SubSeqProperties, LenProperties
<1>5. Listed' = Listed /\ Internal' = Internal /\ psTable' = psTable
  BY DEF VisitReturn, vars, Listed, Internal
<1>6. LookedAtAll(f.block)
  <2>1. Looked(f.block, f.seen) /\ f.block \in Internal
    BY <1>2 DEF OrderInv
  <2>2. psTable[f.block].succ \in Seq(DOMAIN blocks) /\ f.seen = Len(psTable[f.block].succ)
    BY <1>1, <2>1, GraphFacts DEF VisitReturn
  <2>3. \A k \in DOMAIN psTable[f.block].succ : k <= f.seen
    BY <2>2, LenProperties
  <2>. QED  BY <2>1, <2>3 DEF Looked, LookedAtAll, SuccsOf
<1>7. \A k \in 1..n : k = n \/ k \in 1..(n - 1)
  BY <1>3
<1>8. \A b \in Listed : LookedAtAll(b) \/ \E k \in 1..(n - 1) : visit'[k].block = b
  BY <1>2, <1>3, <1>4, <1>6, <1>7 DEF OrderInv
<1>9. \A b : LookedAtAll(b)' <=> LookedAtAll(b)
  BY <1>5 DEF LookedAtAll, SuccsOf
<1>10. \A b, m : Looked(b, m)' <=> Looked(b, m)
  BY <1>5 DEF Looked
<1>11. \A k \in 1..(n - 1) : k \in 1..n
  BY <1>3
<1>12. OrderInv'
  <2>1. \A k \in DOMAIN visit' : Looked(visit[k].block, visit[k].seen)'
    BY <1>3, <1>4, <1>10, <1>11 DEF OrderInv, Looked
  <2>. QED  BY <1>4, <1>5, <1>8, <1>9, <2>1 DEF OrderInv
<1>13. visit' = <<>> => \A b \in Listed : LookedAtAll(b)
  BY <1>4, <1>8
<1>. QED  BY <1>12, <1>13
-----------------------------------------------------------------------------
(* The worklist after a block has been taken or finished.                  *)

LEMMA TakenListed ==
    ASSUME DInv, TakeBlock, NEW b, b = Head(worklist)
    PROVE  Listed \subseteq Listed' \cup {b}
<1>1. worklist \in Seq(Internal) /\ worklist # <<>> /\ worklist' = Tail(worklist)
  BY DEF DInv, Proper, TakeBlock, PopFront
<1>2. PICK n, w : n = Len(worklist) /\ w = Tail(worklist)
  OBVIOUS
<1>3. /\ n \in Nat \ {0} /\ DOMAIN worklist = 1..n /\ w \in Seq(Internal) /\ Len(w) = n - 1
      /\ \A k \in 1..(n - 1) : w[k] = worklist[k + 1]
      /\ b = worklist[1]
  BY <1>1, <1>2, EmptySeq, HeadTailProperties
<1>4. DOMAIN w = 1..(n - 1)
  BY <1>3, LenProperties
<1>5. ASSUME NEW k \in 1..n, k # 1 PROVE worklist[k] \in {w[j] : j \in DOMAIN w}
  <2>1. k - 1 \in 1..(n - 1) /\ k - 1 + 1 = k
    BY <1>3, <1>5
  <2>. QED  BY <1>3, <1>4, <2>1
<1>6. Listed' = {w[j] : j \in DOMAIN w}
  BY <1>1, <1>2 DEF Listed
<1>. QED  BY <1>3, <1>5, <1>6 DEF Listed

LEMMA ConsListed ==
    ASSUME NEW w \in Seq(Internal), NEW s \in Internal
    PROVE  {(<<s>> \o w)[k] : k \in DOMAIN (<<s>> \o w)} = {w[k] : k \in DOMAIN w} \cup {s}
<1>1. PICK n, v : n = Len(w) /\ v = <<s>> \o w
  OBVIOUS
<1>2. n \in Nat /\ DOMAIN w = 1..n
  BY <1>1, LenProperties
<1>3. /\ v \in Seq(Internal) /\ Len(v) = n + 1 /\ v[1] = s
      /\ \A k \in 1..(n + 1) : k > 1 => v[k] = w[k - 1]
  <2>1. <<s>> \in Seq(Internal) /\ Len(<<s>>) = 1 /\ <<s>>[1] = s
    OBVIOUS
  <2>2. 1 + n = n + 1
    BY <1>2
  <2>. QED  BY <1>1, <1>2, <2>1, <2>2, ConcatProperties
<1>4. DOMAIN v = 1..(n + 1)
  BY <1>3, LenProperties
<1>5. \A k \in 1..n : k + 1 \in 1..(n + 1) /\ v[k + 1] = w[k]
  BY <1>2, <1>3
<1>6. \A k \in 1..(n + 1) : k = 1 \/ (k - 1 \in 1..n /\ v[k] = w[k - 1])
  BY <1>2, <1>3
<1>7. 1 \in 1..(n + 1)
  BY <1>2
<1>8. \A k \in DOMAIN v : v[k] \in {w[j] : j \in DOMAIN w} \cup {s}
  BY <1>2, <1>3, <1>4, <1>6
<1>9. \A j \in DOMAIN w : w[j] \in {v[k] : k \in DOMAIN v}
  BY <1>2, <1>4, <1>5
<1>10. s \in {v[k] : k \in DOMAIN v}
  BY <1>3, <1>4, <1>7
<1>11. {v[k] : k \in DOMAIN v} = {w[j] : j \in DOMAIN w} \cup {s}
  BY <1>8, <1>9, <1>10
<1>. QED  BY <1>1, <1>11

(* All successors in the function are pushed, or are there already.        *)
LEMMA PushListed ==
    ASSUME GraphInv, Proper(worklist), NEW b \in Internal
    PROVE  LET w == PushSuccessors(b)
           IN  Listed \cup (SuccsOf(b) \cap Internal) \subseteq {w[j] : j \in DOMAIN w}
<1> DEFINE On(w) == {w[j] : j \in DOMAIN w}
<1>1. PICK n, succ : succ = psTable[b].succ /\ n = Len(succ)
  OBVIOUS
<1>2. n \in Nat /\ DOMAIN succ = 1..n /\ \A k \in 1..n : succ[k] \in DOMAIN blocks
  <2>1. succ \in Seq(DOMAIN blocks)
    BY <1>1, GraphFacts
  <2>. QED  BY <1>1, <2>1, LenProperties, ElementOfSeq
<1>3. PICK f : f = CHOOSE g : Pushes(b, g, n)
  OBVIOUS
<1>4. Pushes(b, f, n)
  BY <1>2, <1>3, PushesExist
<1>5. PushSuccessors(b) = f[n]
  BY <1>1, <1>3 DEF PushSuccessors, Pushes, Pushed
<1> DEFINE Good(k) == /\ Proper(f[k]) /\ Listed \subseteq On(f[k])
                      /\ \A j \in 1..k : succ[j] \in Internal => succ[j] \in On(f[k])
           T == {k \in Nat : k <= n /\ ~Good(k)}
<1>6. T = {}
  <2>. SUFFICES ASSUME T # {} PROVE FALSE
    OBVIOUS
  <2>1. PICK k \in T : \A i \in T : k <= i
    BY FirstIsLeast
  <2>2. k \in 0..n /\ k \in Nat
    BY <1>2, <2>1
  <2>3. f[k] = Pushed(b, f, k)
    BY <1>4, <2>2 DEF Pushes
  <2>4. CASE k = 0
    <3>1. f[k] = worklist
      BY <2>3, <2>4 DEF Pushed
    <3>2. \A j \in 1..k : FALSE
      BY <2>4
    <3>3. On(f[k]) = Listed
      BY <3>1 DEF Listed
    <3> HIDE DEF On
    <3>. QED  BY <2>1, <3>1, <3>2, <3>3
  <2>5. CASE k # 0
    <3>1. k - 1 \in Nat /\ k - 1 <= n /\ k - 1 \notin T /\ k \in 1..n
      BY <1>2, <2>1, <2>2, <2>5
    <3>2. Good(k - 1)
      BY <3>1
    <3>3. PICK w, s : w = f[k - 1] /\ s = succ[k]
      OBVIOUS
    <3>4. s \in Internal <=> blocks[s].type = "INTERNAL"
      BY <1>2, <3>1, <3>3 DEF Internal
    <3>5. f[k] = IF s \in Internal /\ ~Contains(w, s) THEN <<s>> \o w ELSE w
      BY <1>1, <2>3, <2>5, <3>3, <3>4 DEF Pushed
    <3>6. \A j \in 1..k : j = k \/ j \in 1..(k - 1)
      BY <3>1
    <3>7. /\ Proper(w) /\ Listed \subseteq On(w)
          /\ \A j \in 1..(k - 1) : succ[j] \in Internal => succ[j] \in On(w)
      BY <3>2, <3>3
    <3>8. Proper(f[k]) /\ On(w) \subseteq On(f[k]) /\ (s \in Internal => s \in On(f[k]))
      <4>1. CASE s \in Internal /\ ~Contains(w, s)
        <5>1. f[k] = <<s>> \o w /\ w \in Seq(Internal)
          BY <3>5, <3>7, <4>1 DEF Proper
        <5>2. On(<<s>> \o w) = On(w) \cup {s}
          BY <4>1, <5>1, ConsListed
        <5>3. Proper(<<s>> \o w)
          BY <3>7, <4>1, ConsProper
        <5> HIDE DEF On
        <5>. QED  BY <5>1, <5>2, <5>3
      <4>2. CASE ~(s \in Internal /\ ~Contains(w, s))
        <5>1. f[k] = w /\ w \in Seq(Internal)
          BY <3>5, <3>7, <4>2 DEF Proper
        <5>2. Contains(w, s) <=> s \in On(w)
          BY <5>1, ListedIs
        <5> HIDE DEF On
        <5>. QED  BY <3>7, <4>2, <5>1, <5>2
      <4>. QED  BY <4>1, <4>2
    <3> HIDE DEF On
    <3>9. Good(k)
      BY <3>3, <3>6, <3>7, <3>8
    <3>. QED  BY <2>1, <3>9
  <2>. QED  BY <2>4, <2>5
<1>7. Good(n)
  BY <1>2, <1>6
<1>8. SuccsOf(b) = {succ[j] : j \in 1..n}
  BY <1>1, <1>2 DEF SuccsOf
<1>. QED  BY <1>5, <1>7, <1>8

-----------------------------------------------------------------------------
(* What a block that need not be analysed again has.                       *)

Under(b) == dfa = "block" /\ b = current.block
Upto(b) == IF Under(b) THEN current.pc - 1 ELSE blocks[b].end

(* What the successors of a block have seen of it: of the block under      *)
(* analysis, its context before.                                           *)
Coming(b, r) == IF Under(b) THEN current.prev[r] # 0 ELSE contexts[b][r] # {}

MustHave(b, r) ==
    IF blocks[b].endsInCall /\ Upto(b) = blocks[b].end /\ r \in KilledByCall \cup DefinedByCall
    THEN r \in DefinedByCall
    ELSE DefinedIn(r, blocks[b].start, Upto(b)) \/ \E c \in Preds(b) : Coming(c, r)
UpToDate(b, r) == MustHave(b, r) => contexts[b][r] # {}

FreshInv ==
    /\ Rooted
    /\ dfa # "idle" => \A b \in DOMAIN contexts, r \in Regs : IsFiniteSet(contexts[b][r])
    /\ dfa = "order" => OrderInv
    /\ dfa \in {"next", "block", "done", "overflow"} =>
          \A b \in Internal, r \in Regs : (b \in Listed /\ ~Under(b)) \/ UpToDate(b, r)
    /\ dfa = "done" => worklist = <<>>

(* The two halves of psTable agree.                                        *)
LEMMA PredsSuccs ==
    ASSUME GraphInv, NEW b \in DOMAIN blocks, NEW c \in Internal, b \in Preds(c)
    PROVE  c \in SuccsOf(b)
<1>1. psTable[b].succ \in Seq(DOMAIN blocks) /\ psTable[c].pred \in Seq(DOMAIN blocks)
      /\ b \in DOMAIN psTable /\ c \in DOMAIN psTable
  BY GraphFacts, SuccsAre DEF GraphInv
<1>2. PICK m, n : m = Len(psTable[b].succ) /\ n = Len(psTable[c].pred)
  OBVIOUS
<1>3. DOMAIN psTable[b].succ = 1..m /\ DOMAIN psTable[c].pred = 1..n /\ m \in Nat /\ n \in Nat
  BY <1>1, <1>2, LenProperties
<1> DEFINE A == {k \in DOMAIN psTable[b].succ : psTable[b].succ[k] = c}
           B == {k \in DOMAIN psTable[c].pred : psTable[c].pred[k] = b}
<1>4. Cardinality(A) = Cardinality(B)
  BY <1>1 DEF GraphInv, EInv, EdgesMirrored, Occurrences
<1>5. IsFiniteSet(1..m) /\ IsFiniteSet(1..n)
  BY <1>3, FS_Interval
<1>6. A \subseteq 1..m /\ B \subseteq 1..n
  BY <1>3
<1>7. B # {}
  BY DEF Preds
<1>8. A # {} => c \in SuccsOf(b)
  BY DEF SuccsOf
<1> HIDE DEF A, B
<1>9. IsFiniteSet(A) /\ IsFiniteSet(B)
  BY <1>5, <1>6, FS_Subset
<1>. QED  BY <1>4, <1>7, <1>8, <1>9, FS_EmptySet

(* A block is only entered from blocks of the function.                    *)
LEMMA Sources ==
    ASSUME GraphInv, Rooted, NEW c \in Internal, NEW b \in Preds(c)
    PROVE  b \in Internal
<1>1. psTable[c].pred \in Seq(DOMAIN blocks)
  BY GraphFacts
<1>2. b \in DOMAIN blocks
  BY <1>1, LenProperties, ElementOfSeq DEF Preds
<1>. QED  BY <1>2, PredsSuccs DEF Rooted

(* Neither the graph nor the code changes.                                 *)
Fixed == UNCHANGED <<blocks, psTable, ops>>

LEMMA FixedFacts ==
    ASSUME Fixed
    PROVE  /\ Internal' = Internal
           /\ \A b : Preds(b)' = Preds(b) /\ SuccsOf(b)' = SuccsOf(b)
           /\ \A r, lo, hi : DefinedIn(r, lo, hi)' <=> DefinedIn(r, lo, hi)
           /\ Rooted => Rooted'
<1>1. Internal' = Internal /\ psTable' = psTable /\ DOMAIN blocks' = DOMAIN blocks
  BY DEF Fixed, Internal
<1>. QED  BY <1>1, KeptRooted DEF Fixed, Preds, SuccsOf, DefinedIn

(* A block stays up to date if none of its predecessors has a new register. *)
LEMMA StaysUpToDate ==
    ASSUME Fixed, NEW b, NEW r, UpToDate(b, r),
           Upto(b)' = Upto(b),
           \A c \in Preds(b) : Coming(c, r)' => Coming(c, r),
           contexts[b][r] # {} => contexts'[b][r] # {}
    PROVE  UpToDate(b, r)'
<1>1. /\ \A lo, hi : DefinedIn(r, lo, hi)' <=> DefinedIn(r, lo, hi)
      /\ Preds(b)' = Preds(b) /\ blocks' = blocks
  BY FixedFacts DEF Fixed
<1>2. MustHave(b, r)' => MustHave(b, r)
  BY <1>1 DEF MustHave
<1>. QED  BY <1>2 DEF UpToDate

(* initWorklist: nothing is defined yet, so nothing is behind.             *)
LEMMA BeginFresh ==
    ASSUME GraphInv, DInv, FreshInv, UNCHANGED vars, InitWorklist
    PROVE  FreshInv'
<1>1. OrderInv'
  BY BeginOrder
<1>2. Rooted'
  BY KeptRooted DEF FreshInv, Internal, vars
<1>3. \A b \in DOMAIN contexts', r \in Regs : contexts'[b][r] = {}
  BY DEF InitWorklist, NoContext
<1>4. dfa' = "order"
  BY DEF InitWorklist, VisitBlock
<1>. QED  BY <1>1, <1>2, <1>3, <1>4, FS_EmptySet DEF FreshInv

(* When the first order is complete, every block is on the worklist.       *)
LEMMA OrderComplete ==
    ASSUME GraphInv, DInv, FreshInv, VisitReturn, UNCHANGED vars, dfa' = "next"
    PROVE  Internal \subseteq Listed'
<1>1. OrderInv /\ Listed' = Listed /\ visit' = <<>>
  BY DEF FreshInv, VisitReturn, Listed
<1>. QED  BY <1>1, ReturnOrder, AllListed DEF OrderInv, FreshInv

(* The first order lists blocks and leaves the contexts alone.            *)
LEMMA VisitFresh ==
    ASSUME GraphInv, DInv, FreshInv, UNCHANGED vars, VisitSuccessor \/ VisitReturn
    PROVE  FreshInv'
<1>1. /\ OrderInv' /\ dfa # "idle" /\ dfa' \in {"order", "next"} /\ contexts' = contexts
      /\ dfa' = "next" => VisitReturn /\ visit' = <<>>
  BY SuccessorOrder, ReturnOrder
     DEF FreshInv, VisitSuccessor, VisitBlock, VisitReturn, flow
<1>2. Rooted' /\ Internal' = Internal
  BY KeptRooted DEF FreshInv, Internal, vars
<1>3. ASSUME dfa' = "next" PROVE Internal' \subseteq Listed' /\ \A b : ~Under(b)'
  BY <1>1, <1>2, <1>3, OrderComplete DEF Under
<1>. QED  BY <1>1, <1>2, <1>3 DEF FreshInv

(* A block is taken up: what it had counts as its previous context.        *)
LEMMA TakeFresh ==
    ASSUME GraphInv, DInv, FreshInv, UNCHANGED vars, TakeBlock
    PROVE  FreshInv'
<1>1. PICK b : b = Head(worklist)
  OBVIOUS
<1>2. /\ dfa = "next" /\ dfa' = "block" /\ Fixed
      /\ b \in Internal /\ b \in DOMAIN contexts /\ DOMAIN contexts' = DOMAIN contexts
      /\ current'.block = b /\ current'.pc = blocks[b].start
      /\ blocks[b].start \in Nat /\ blocks[b].end \in Nat
      /\ blocks[b].start <= blocks[b].end
      /\ current'.prev = getSizes(contexts[b])
  BY <1>1, TakeBlockEffect, GraphFacts DEF TakeBlock, vars, DInv, Fixed
<1>3. /\ \A c \in DOMAIN contexts : c # b => contexts'[c] = contexts[c]
      /\ \A r \in Regs : contexts'[b][r] = UNION {contexts[c][r] : c \in Preds(b)}
      /\ Preds(b) \subseteq DOMAIN contexts
  BY <1>1, TakeBlockEffect
<1>4. Internal' = Internal /\ Rooted' /\ Preds(b)' = Preds(b)
  BY <1>2, FixedFacts DEF FreshInv
<1>5. \A c : (Under(c)' <=> c = b) /\ ~Under(c)
  BY <1>2 DEF Under
<1>6. ASSUME NEW c \in DOMAIN contexts, NEW r \in Regs, Coming(c, r)'
      PROVE  contexts[c][r] # {}
  <2>1. CASE c = b
    <3>1. Cardinality(contexts[b][r]) # 0
      BY <1>2, <1>5, <1>6, <2>1 DEF Coming, getSizes
    <3>. QED  BY <2>1, <3>1, FS_EmptySet
  <2>2. CASE c # b
    BY <1>3, <1>5, <1>6, <2>2 DEF Coming
  <2>. QED  BY <2>1, <2>2
<1>7. ASSUME NEW r \in Regs PROVE IsFiniteSet(contexts'[b][r])
  <2>1. psTable[b].pred \in Seq(DOMAIN blocks)
    BY <1>2, GraphFacts
  <2>2. PICK n : n = Len(psTable[b].pred)
    OBVIOUS
  <2>3. n \in Nat /\ DOMAIN psTable[b].pred = 1..n
    BY <2>1, <2>2, LenProperties
  <2> DEFINE S == {contexts[c][r] : c \in Preds(b)}
             f == [k \in 1..n |-> contexts[psTable[b].pred[k]][r]]
  <2>4. f \in Surjection(1..n, S)
    BY <2>3 DEF Surjection, Preds
  <2>5. \A T \in S : IsFiniteSet(T)
    BY <1>2, <1>3 DEF FreshInv
  <2>6. contexts'[b][r] = UNION S
    BY <1>3
  <2> HIDE DEF S, f
  <2>7. IsFiniteSet(1..n)
    BY <2>3, FS_Interval
  <2>8. IsFiniteSet(S)
    BY <2>4, <2>7, FS_Surjection
  <2>. QED  BY <2>5, <2>6, <2>8, FS_UNION
<1>8. \A c \in DOMAIN contexts', r \in Regs : IsFiniteSet(contexts'[c][r])
  BY <1>2, <1>3, <1>7 DEF FreshInv
<1>9. ASSUME NEW r \in Regs PROVE UpToDate(b, r)'
  <2>1. Upto(b)' = blocks[b].start - 1 /\ Upto(b)' # blocks[b].end
    BY <1>2, <1>5 DEF Upto
  <2>2. ~DefinedIn(r, blocks[b].start, blocks[b].start - 1)'
    <3>1. \A p : p \notin blocks[b].start..(blocks[b].start - 1)
      BY <1>2
    <3>2. ~DefinedIn(r, blocks[b].start, blocks[b].start - 1)
      BY <3>1 DEF DefinedIn
    <3>. QED  BY <1>2, <3>2, FixedFacts DEF Fixed
  <2>. SUFFICES ASSUME MustHave(b, r)' PROVE contexts'[b][r] # {}
    BY DEF UpToDate
  <2>3. PICK c \in Preds(b) : Coming(c, r)'
    BY <1>2, <1>4, <2>1, <2>2 DEF MustHave, Fixed
  <2>4. contexts[c][r] # {}
    BY <1>3, <1>6, <2>3
  <2>. QED  BY <1>3, <2>3, <2>4
<1>10. ASSUME NEW c \in Internal, NEW r \in Regs, c # b, c \notin Listed'
       PROVE  UpToDate(c, r)'
  <2>1. c \notin Listed /\ UpToDate(c, r) /\ c \in DOMAIN contexts
    BY <1>1, <1>2, <1>10, TakenListed DEF FreshInv, DInv, Internal
  <2>2. Upto(c)' = Upto(c)
    BY <1>2, <1>5, <1>10 DEF Upto, Fixed
  <2>3. \A d \in Preds(c) : Coming(d, r)' => Coming(d, r)
    <3>1. psTable[c].pred \in Seq(DOMAIN blocks) /\ DOMAIN contexts = DOMAIN blocks
      BY <1>2, GraphFacts DEF DInv
    <3>2. Preds(c) \subseteq DOMAIN contexts
      BY <3>1, LenProperties, ElementOfSeq DEF Preds
    <3>. QED  BY <1>5, <1>6, <3>2 DEF Coming
  <2>4. contexts'[c] = contexts[c]
    BY <1>3, <1>10, <2>1
  <2>. QED  BY <1>2, <2>1, <2>2, <2>3, <2>4, StaysUpToDate
<1>. QED  BY <1>2, <1>4, <1>5, <1>8, <1>9, <1>10 DEF FreshInv

(* An instruction brings the block under analysis one place further.       *)
LEMMA InstructionFresh ==
    ASSUME GraphInv, DInv, WellEnded, FreshInv, UNCHANGED vars, Instruction
    PROVE  FreshInv'
<1>1. PICK b, pc : b = current.block /\ pc = current.pc
  OBVIOUS
<1>2. /\ dfa = "block" /\ dfa' = "block" /\ pc <= blocks[b].end /\ Fixed
      /\ worklist' = worklist
      /\ current'.pc = pc + 1 /\ current'.block = b /\ current'.prev = current.prev
  BY <1>1 DEF Instruction, DInv, vars, Fixed
<1>3. /\ b \in Internal /\ pc \in Nat /\ blocks[b].start \in Nat /\ blocks[b].end \in Nat
      /\ blocks[b].start <= pc
  BY <1>1, <1>2, InstructionKnown
<1>4. /\ b \in DOMAIN contexts /\ DOMAIN contexts' = DOMAIN contexts
      /\ \A c \in DOMAIN contexts : c # b => contexts'[c] = contexts[c]
      /\ \A r \in Regs : contexts'[b][r] = After(b, r)
  BY <1>1, InstructionEffect
<1>5. Internal' = Internal /\ Rooted' /\ Listed' = Listed
  BY <1>2, FixedFacts DEF FreshInv, Listed
<1>6. \A c : (Under(c)' <=> c = b) /\ (Under(c) <=> c = b)
  BY <1>1, <1>2 DEF Under
<1>7. \A c \in DOMAIN contexts : \A r : Coming(c, r)' <=> Coming(c, r)
  BY <1>2, <1>4, <1>6 DEF Coming
<1>8. ASSUME NEW c \in DOMAIN contexts', NEW r \in Regs
      PROVE  IsFiniteSet(contexts'[c][r])
  <2>1. IsFiniteSet(contexts[c][r])
    BY <1>2, <1>4 DEF FreshInv
  <2>2. CASE c # b
    BY <1>4, <2>1, <2>2
  <2>3. CASE c = b
    <3>1. \A x : IsFiniteSet({x})
      BY FS_Singleton
    <3>2. IsFiniteSet({})
      BY FS_EmptySet
    <3>3. After(b, r) = contexts[b][r] \/ After(b, r) = {} \/ \E x : After(b, r) = {x}
      BY DEF After
    <3>. QED  BY <1>4, <2>1, <2>3, <3>1, <3>2, <3>3
  <2>. QED  BY <2>2, <2>3
<1>9. \A c \in Internal : Preds(c) \subseteq DOMAIN contexts /\ c \in DOMAIN contexts
  <2>. SUFFICES ASSUME NEW c \in Internal
                PROVE  Preds(c) \subseteq DOMAIN contexts /\ c \in DOMAIN contexts
    OBVIOUS
  <2>1. psTable[c].pred \in Seq(DOMAIN blocks) /\ DOMAIN contexts = DOMAIN blocks
    BY <1>2, GraphFacts DEF DInv
  <2>. QED  BY <2>1, LenProperties, ElementOfSeq DEF Preds, Internal
<1>10. ASSUME NEW r \in Regs PROVE UpToDate(b, r)'
  <2>1. UpToDate(b, r)
    BY <1>2, <1>3, <1>6 DEF FreshInv
  <2>2. Upto(b) = pc - 1 /\ Upto(b)' = pc /\ pc - 1 # blocks[b].end
    BY <1>1, <1>2, <1>3, <1>6 DEF Upto
  <2>. SUFFICES ASSUME MustHave(b, r)' PROVE After(b, r) # {}
    BY <1>4 DEF UpToDate
  <2>3. blocks' = blocks /\ Preds(b)' = Preds(b)
    BY <1>2, FixedFacts DEF Fixed
  <2>4. CASE /\ blocks[b].endsInCall /\ pc = blocks[b].end
             /\ r \in KilledByCall \cup DefinedByCall
    <3>1. r \in DefinedByCall
      BY <2>2, <2>3, <2>4 DEF MustHave
    <3>. QED  BY <1>1, <2>4, <3>1 DEF After
  <2>5. CASE ~(/\ blocks[b].endsInCall /\ pc = blocks[b].end
               /\ r \in KilledByCall \cup DefinedByCall)
    <3>1. After(b, r) = IF r \in ops[pc].defs THEN {Fresh("result", r, pc)} ELSE contexts[b][r]
      BY <1>1, <2>5 DEF After
    <3>2. DefinedIn(r, blocks[b].start, pc)' \/ \E c \in Preds(b) : Coming(c, r)'
      BY <2>2, <2>3, <2>5 DEF MustHave
    <3>3. CASE r \in ops[pc].defs
      BY <3>1, <3>3
    <3>4. CASE r \notin ops[pc].defs
      <4>1. DefinedIn(r, blocks[b].start, pc)' => DefinedIn(r, blocks[b].start, pc - 1)
        <5>1. \A p \in blocks[b].start..pc : p = pc \/ p \in blocks[b].start..(pc - 1)
          BY <1>3
        <5>2. DefinedIn(r, blocks[b].start, pc) => DefinedIn(r, blocks[b].start, pc - 1)
          BY <3>4, <5>1 DEF DefinedIn
        <5>3. DefinedIn(r, blocks[b].start, pc)' => \E p \in blocks[b].start..pc : r \in ops[p].defs
          BY <1>2, <2>3 DEF DefinedIn, Fixed
        <5>. QED  BY <5>2, <5>3 DEF DefinedIn
      <4>2. MustHave(b, r)
        BY <1>3, <1>7, <1>9, <2>2, <3>2, <4>1 DEF MustHave
      <4>. QED  BY <2>1, <3>1, <3>4, <4>2 DEF UpToDate
    <3>. QED  BY <3>3, <3>4
  <2>. QED  BY <2>4, <2>5
<1>11. ASSUME NEW c \in Internal, NEW r \in Regs, c # b, c \notin Listed
       PROVE  UpToDate(c, r)'
  <2>1. UpToDate(c, r) /\ contexts'[c] = contexts[c]
    BY <1>2, <1>4, <1>9, <1>11 DEF FreshInv
  <2>2. Upto(c)' = Upto(c)
    BY <1>2, <1>6, <1>11 DEF Upto, Fixed
  <2>. QED  BY <1>2, <1>7, <1>9, <2>1, <2>2, StaysUpToDate
<1>. QED  BY <1>2, <1>5, <1>6, <1>8, <1>10, <1>11 DEF FreshInv

(* The end of a block: its successors are behind only if its sizes differ, *)
(* and then they are on the worklist.                                      *)
LEMMA FinishFresh ==
    ASSUME GraphInv, DInv, FreshInv, UNCHANGED vars, FinishBlock
    PROVE  FreshInv'
<1>1. PICK b : b = current.block
  OBVIOUS
<1>2. /\ dfa = "block" /\ dfa' = "next" /\ Fixed /\ contexts' = contexts
      /\ b \in Internal /\ b \in DOMAIN contexts
      /\ worklist' = IF getSizes(contexts[b]) # current.prev THEN PushSuccessors(b) ELSE worklist
  BY <1>1 DEF FinishBlock, vars, Fixed, DInv, Internal
<1>3. Internal' = Internal /\ Rooted'
  BY <1>2, FixedFacts DEF FreshInv
<1>4. \A c : ~Under(c)' /\ (Under(c) <=> c = b)
  BY <1>1, <1>2 DEF Under
<1>5. Upto(b) = blocks[b].end
  <2>1. current.pc > blocks[b].end /\ current.pc \in blocks[b].start..(blocks[b].end + 1)
    BY <1>1, <1>2 DEF FinishBlock, DInv
  <2>2. blocks[b].start \in Nat /\ blocks[b].end \in Nat
    BY <1>2, GraphFacts
  <2>. QED  BY <1>1, <1>4, <2>1, <2>2 DEF Upto
<1>6. \A c : Upto(c)' = Upto(c)
  BY <1>2, <1>4, <1>5 DEF Upto, Fixed
<1>7. \A c, r : c # b => (Coming(c, r)' <=> Coming(c, r))
  BY <1>2, <1>4 DEF Coming
<1>8. CASE getSizes(contexts[b]) = current.prev
  <2>1. Listed' = Listed
    BY <1>2, <1>8 DEF Listed
  <2>2. ASSUME NEW r \in Regs, Coming(b, r)' PROVE Coming(b, r)
    <3>1. contexts[b][r] # {} /\ IsFiniteSet(contexts[b][r])
      BY <1>2, <1>4, <2>2 DEF Coming, FreshInv
    <3>2. Cardinality(contexts[b][r]) # 0
      BY <3>1, FS_EmptySet
    <3>3. current.prev[r] = Cardinality(contexts[b][r])
      BY <1>8 DEF getSizes
    <3>. QED  BY <1>4, <3>2, <3>3 DEF Coming
  <2>3. ASSUME NEW c \in Internal, NEW r \in Regs, c \notin Listed \/ Under(c)
        PROVE  UpToDate(c, r)'
    <3>1. UpToDate(c, r)
      BY <1>2, <2>3 DEF FreshInv
    <3>. QED  BY <1>2, <1>6, <1>7, <2>2, <3>1, StaysUpToDate
  <2>. QED  BY <1>2, <1>3, <1>4, <2>1, <2>3 DEF FreshInv
<1>9. CASE getSizes(contexts[b]) # current.prev
  <2>1. Listed \cup (SuccsOf(b) \cap Internal) \subseteq Listed'
    <3>1. worklist' = PushSuccessors(b) /\ Proper(worklist)
      BY <1>2, <1>9 DEF DInv
    <3>. QED  BY <1>2, <3>1, PushListed DEF Listed
  <2>2. ASSUME NEW c \in Internal, NEW r \in Regs, c \notin Listed'
        PROVE  UpToDate(c, r)'
    <3>1. UpToDate(c, r)
      BY <1>2, <2>1, <2>2 DEF FreshInv
    <3>2. b \notin Preds(c)
      BY <1>2, <2>1, <2>2, PredsSuccs DEF Internal
    <3>. QED  BY <1>2, <1>6, <1>7, <3>1, <3>2, StaysUpToDate
  <2>. QED  BY <1>2, <1>3, <1>4, <2>2 DEF FreshInv
<1>. QED  BY <1>8, <1>9

(* Every step keeps FreshInv, in a function that ends well.                *)
LEMMA StepFreshInv ==
    GraphInv /\ DInv /\ GraphInv' /\ (WellEnded => FreshInv) /\ Rooted /\ [FunctionNext]_allVars
        => (WellEnded => FreshInv)' /\ Rooted'
<1>. SUFFICES ASSUME GraphInv, DInv, GraphInv', WellEnded => FreshInv, Rooted,
                     [FunctionNext]_allVars
              PROVE  (WellEnded' => FreshInv') /\ Rooted'
  OBVIOUS
<1>1. Rooted'
  BY GraphStep, StepRooted DEF GraphInv
<1>2. CASE dfa = "idle" /\ UNCHANGED dfaVars /\ [Next]_vars
  BY <1>1, <1>2 DEF FreshInv, dfaVars
<1>3. CASE \/ UNCHANGED allVars
           \/ DfaNext /\ UNCHANGED vars
  <2>1. UNCHANGED <<code, blocks, psTable, ops>> /\ Fixed
    BY <1>3 DEF allVars, dfaVars, vars, DfaNext, InitWorklist, VisitSuccessor, VisitReturn,
                TakeBlock, Instruction, InstructionThrows, FinishBlock, Finish, Overflow, Fixed
  <2>. SUFFICES ASSUME WellEnded' PROVE FreshInv'
    BY <1>1
  <2>2. WellEnded /\ FreshInv
    BY <2>1, ClosureKept DEF WellEnded
  <2>3. Internal' = Internal
    BY <2>1, FixedFacts
  <2>4. CASE UNCHANGED allVars
    <3>1. UNCHANGED <<contexts, current, dfa, worklist, visit>>
      BY <2>4 DEF allVars, dfaVars, flow
    <3>2. Listed' = Listed /\ \A c : Under(c)' <=> Under(c)
      BY <3>1 DEF Listed, Under
    <3>3. OrderInv => OrderInv'
      BY <2>1, <2>3, <3>1, <3>2 DEF OrderInv, Looked, LookedAtAll, SuccsOf
    <3>4. \A c, r : UpToDate(c, r) => UpToDate(c, r)'
      <4>1. \A c : Upto(c)' = Upto(c)
        BY <2>1, <3>1, <3>2 DEF Upto
      <4>2. \A c, r : Coming(c, r)' <=> Coming(c, r)
        BY <3>1, <3>2 DEF Coming
      <4>. QED  BY <2>1, <3>1, <4>1, <4>2, StaysUpToDate
    <3>. QED  BY <1>1, <2>2, <2>3, <3>1, <3>2, <3>3, <3>4 DEF FreshInv
  <2>5. CASE DfaNext /\ UNCHANGED vars
    <3>1. CASE InitWorklist
      BY <2>2, <2>5, <3>1, BeginFresh
    <3>2. CASE VisitSuccessor \/ VisitReturn
      BY <2>2, <2>5, <3>2, VisitFresh
    <3>3. CASE TakeBlock
      BY <2>2, <2>5, <3>3, TakeFresh
    <3>4. CASE Instruction
      BY <2>2, <2>5, <3>4, InstructionFresh
    <3>5. CASE FinishBlock
      BY <2>2, <2>5, <3>5, FinishFresh
    <3>6. CASE Finish \/ Overflow
      <4>1. /\ UNCHANGED <<contexts, worklist>> /\ dfa = "next" /\ dfa' \in {"done", "overflow"}
            /\ dfa' = "done" => worklist = <<>>
        BY <3>6 DEF Finish, Overflow, flow
      <4>2. Listed' = Listed /\ \A c : ~Under(c)' /\ ~Under(c)
        BY <4>1 DEF Listed, Under
      <4>3. \A c, r : UpToDate(c, r) => UpToDate(c, r)'
        <5>1. \A c : Upto(c)' = Upto(c)
          BY <2>1, <4>2 DEF Upto
        <5>2. \A c, r : Coming(c, r)' <=> Coming(c, r)
          BY <4>1, <4>2 DEF Coming
        <5>. QED  BY <2>1, <4>1, <5>1, <5>2, StaysUpToDate
      <4>. QED  BY <1>1, <2>2, <2>3, <4>1, <4>2, <4>3 DEF FreshInv
    <3>7. CASE InstructionThrows
      BY <1>1, <2>2, <3>7 DEF InstructionThrows, FreshInv, flow
    <3>. QED  BY <2>5, <3>1, <3>2, <3>3, <3>4, <3>5, <3>6, <3>7 DEF DfaNext
  <2>. QED  BY <1>3, <2>4, <2>5
<1>. QED  BY <1>2, <1>3, StepKinds DEF DInv

(* When nothing is left to do, a register without a definition has none    *)
(* that reaches: the blocks where it has none are closed backwards.        *)
LEMMA DefinedWhereReached ==
    ASSUME GraphInv, DInv, SiteInv, FreshInv, dfa = "done", NEW b \in Internal, NEW r \in Regs,
           contexts[b][r] = {}
    PROVE  Reaching(b, r) = {}
<1> DEFINE S == {c \in Internal : contexts[c][r] = {}}
<1>1. ASSUME NEW c \in S
      PROVE  /\ ~MustHave(c, r) /\ Upto(c) = blocks[c].end
             /\ \A d \in Preds(c) : Coming(d, r) <=> contexts[d][r] # {}
             /\ blocks[c].start \in Nat /\ blocks[c].end \in Nat
  <2>1. Listed = {} /\ \A d : ~Under(d)
    BY DEF FreshInv, Listed, Under
  <2>2. UpToDate(c, r)
    BY <2>1 DEF FreshInv
  <2>. QED  BY <2>1, <2>2, GraphFacts DEF UpToDate, Upto, Coming
<1>2. ASSUME NEW c \in S PROVE Generated(c, r) = {}
  <2>1. ~(blocks[c].endsInCall /\ r \in DefinedByCall)
    BY <1>1, <1>2 DEF MustHave
  <2>2. CASE blocks[c].endsInCall /\ r \in KilledByCall
    BY <2>1, <2>2 DEF Generated
  <2>3. CASE ~(blocks[c].endsInCall /\ r \in KilledByCall)
    <3>1. ~DefinedIn(r, blocks[c].start, blocks[c].end)
      BY <1>1, <1>2, <2>1, <2>3 DEF MustHave
    <3>2. {p \in blocks[c].start..blocks[c].end : r \in ops[p].defs} = {}
      BY <3>1 DEF DefinedIn
    <3>. QED  BY <2>1, <3>2 DEF Generated
  <2>. QED  BY <2>2, <2>3
<1>3. ClosedBackwards(S, Through(r))
  <2>. SUFFICES ASSUME NEW c \in S, c \in Through(r), NEW d \in Preds(c) PROVE d \in S
    BY DEF ClosedBackwards
  <2>1. ~(blocks[c].endsInCall /\ r \in KilledByCall \cup DefinedByCall)
    BY DEF Through, PassesThrough
  <2>2. contexts[d][r] = {}
    BY <1>1, <2>1 DEF MustHave
  <2>3. d \in Internal
    BY Sources DEF FreshInv
  <2>. QED  BY <2>2, <2>3
<1>4. Origins(b, r) \subseteq S
  BY <1>3 DEF Origins
<1>. QED  BY <1>2, <1>4 DEF Reaching

(* In a function that ends well the analysis ends with a definition of a   *)
(* register at the end of a block exactly when one reaches it: the passes  *)
(* stop no earlier than the definitions have gone everywhere.              *)
THEOREM DefinednessIsExact == FunctionSpec => [](WellEnded => DefinednessExact)
<1>1. FunctionInit => (WellEnded => FreshInv) /\ Rooted
  <2>. SUFFICES ASSUME FunctionInit PROVE FreshInv
    BY DEF FreshInv
  <2>1. Rooted /\ dfa = "idle"
    BY InitRooted DEF FunctionInit, DfaInit
  <2>. QED  BY <2>1 DEF FreshInv
<1>2. FunctionInit => (WellEnded => SiteInv)
  BY DEF FunctionInit, DfaInit, SiteInv
<1>3. ASSUME GraphInv, DInv, SiteInv, FreshInv PROVE DefinednessExact
  <2>. SUFFICES ASSUME dfa = "done", NEW b \in Internal, NEW r \in Regs
                PROVE  contexts[b][r] = {} <=> Reaching(b, r) = {}
    BY DEF DefinednessExact
  <2>1. ASSUME NEW n \in contexts[b][r] PROVE Site(n) \in Reaching(b, r)
    <3>1. b \in DOMAIN contexts
      BY <1>3 DEF DInv, Internal
    <3>. QED  BY <1>3, <2>1, <3>1 DEF SiteInv, Sited
  <2>2. contexts[b][r] = {} => Reaching(b, r) = {}
    BY <1>3, DefinedWhereReached
  <2>. QED  BY <2>1, <2>2
<1>. QED  BY <1>1, <1>2, <1>3, Structured, StepSiteInv, StepFreshInv, PTL DEF FunctionSpec
-----------------------------------------------------------------------------
(* The types of the nodes and of the sinks.                                *)

TInv ==
    /\ DOMAIN sinks = DOMAIN contexts
    /\ \A b \in DOMAIN contexts : contexts[b] \in Context /\ sinks[b] \in Seq(Sink)
    /\ \A n \in DOMAIN inputs : n \in Node /\ inputs[n] \subseteq DOMAIN inputs
    /\ pass \in 0..MaxPasses
    /\ current \in [block : Nat, pc : Nat, prev : [Regs -> Nat]]
    /\ dfa \in {"idle", "order", "next", "block", "done", "threw", "overflow"}

(* The nodes of a context have been made.                                  *)
Known(context) ==
    context \in Context /\ \A r \in Regs : context[r] \subseteq DOMAIN inputs

LEMMA ContextsKnown ==
    ASSUME TInv, AgeInv, dfa # "idle", NEW b \in DOMAIN contexts
    PROVE  Known(contexts[b])
BY DEF TInv, AgeInv, Aged, Made, Known

LEMMA FreshIsNode ==
    ASSUME TInv, NEW kind \in {"result", "callReturn", "input", "phi"}, NEW r \in Regs,
           NEW at \in Nat
    PROVE  Fresh(kind, r, at) \in Node
BY MaxPassesAssumption DEF Fresh, Node, TInv

LEMMA OutputsAreNodes ==
    ASSUME TInv, NEW kind \in {"result", "callReturn"}, NEW defs \in SUBSET Regs
    PROVE  Outputs(kind, defs) \subseteq Node
BY FreshIsNode DEF Outputs, TInv

LEMMA UsesAreNodes ==
    ASSUME TInv, NEW context, Known(context), NEW uses \in SUBSET Regs, NEW at \in Nat
    PROVE  LET added == UseInputs(context, uses, at)
           IN  /\ Uses(context, uses, at) \subseteq Node
               /\ Uses(context, uses, at) \subseteq DOMAIN inputs \cup DOMAIN added
               /\ DOMAIN added \subseteq Node
               /\ \A n \in DOMAIN added : added[n] \subseteq DOMAIN inputs
<1>1. ASSUME NEW r \in uses PROVE Use(context, r, at) \in Node
  <2>1. context[r] \subseteq DOMAIN inputs /\ DOMAIN inputs \subseteq Node
    BY DEF Known, TInv
  <2>2. Fresh("input", r, at) \in Node /\ Fresh("phi", r, at) \in Node
    BY FreshIsNode
  <2>. QED  BY <2>1, <2>2, UseKinds
<1>2. Uses(context, uses, at) \subseteq Node
  BY <1>1 DEF Uses
<1>3. /\ DOMAIN UseInputs(context, uses, at) = Uses(context, uses, at) \ DOMAIN inputs
      /\ \A n \in DOMAIN UseInputs(context, uses, at) :
            UseInputs(context, uses, at)[n] = context[n.reg]
  BY DEF UseInputs
<1>4. \A n \in Node : n.reg \in Regs
  BY DEF Node
<1>. QED  BY <1>2, <1>3, <1>4 DEF Known

(* New nodes with inputs that are made keep the edges between nodes there  *)
(* are.                                                                    *)
EdgesTyped(f, made) == \A n \in DOMAIN f : n \in Node /\ f[n] \subseteq made

LEMMA OverTyped ==
    ASSUME NEW f, NEW g, NEW made, EdgesTyped(f, made), EdgesTyped(g, made)
    PROVE  EdgesTyped(Over(f, g), made) /\ DOMAIN Over(f, g) = DOMAIN f \cup DOMAIN g
BY DEF Over, EdgesTyped

(* The return values come in the order of the calling convention.          *)
LEMMA ConventionOrder == SetToSeq(DefinedByCall) \in Seq(DefinedByCall)
<1> DEFINE n == Cardinality(DefinedByCall)
           Orders == {f \in [1..n -> DefinedByCall] : IsInjective(f)}
<1>1. n \in Nat /\ \E f \in Bijection(1..n, DefinedByCall) : TRUE
  <2>1. IsFiniteSet(DefinedByCall)
    BY CallAssumption, FS_Subset
  <2>. QED  BY <2>1, FS_CardinalityType DEF ExistsBijection
<1>2. PICK f \in Bijection(1..n, DefinedByCall) : TRUE
  BY <1>1
<1>3. f \in Orders
  BY <1>2 DEF Bijection, Injection, IsInjective
<1>4. SetToSeq(DefinedByCall) \in [1..n -> DefinedByCall]
  BY <1>3 DEF SetToSeq
<1>. QED  BY <1>1, <1>4, SeqDef

(* What the end of a block adds to its sinks.                              *)
Returned(b, returns) ==
    \A k \in 1..Len(returns) :
        /\ returns[k].kind = "return" /\ returns[k].at = blocks[b].end
        /\ blocks[b].isExit
        /\ \E r \in DefinedByCall :
              /\ contexts[b][r] # {}
              /\ returns[k].inputs = {Use(contexts[b], r, Length)}

LEMMA FinishEffect ==
    ASSUME GraphInv, TInv, AgeInv, DInv, FinishBlock, NEW b, b = current.block
    PROVE  \E returns \in Seq(Sink) :
              sinks' = [sinks EXCEPT ![b] = @ \o returns] /\ Returned(b, returns)
<1>1. PICK context, live, order :
         /\ context = contexts[b]
         /\ live = (IF blocks[b].isExit THEN {r \in DefinedByCall : context[r] # {}} ELSE {})
         /\ order = Sublist(SetToSeq(DefinedByCall), live)
  OBVIOUS
<1>2. PICK returns : returns = [k \in DOMAIN order |->
                                  [kind |-> "return", at |-> blocks[b].end,
                                   inputs |-> {Use(context, order[k], Length)}]]
  OBVIOUS
<1>3. sinks' = [sinks EXCEPT ![b] = @ \o returns] /\ dfa = "block"
  BY <1>1, <1>2, Zenon DEF FinishBlock
<1>4. b \in DOMAIN contexts /\ Known(context) /\ blocks[b].end \in Nat
  BY <1>1, <1>3, ContextsKnown, GraphFacts DEF DInv, Internal
<1>5. PICK n : n = Len(order)
  OBVIOUS
<1>6. n \in Nat /\ DOMAIN order = 1..n /\ \A k \in 1..n : order[k] \in DefinedByCall \cap live
  <2>1. order \in Seq(DefinedByCall \cap live)
    BY <1>1, ConventionOrder, SublistHolds
  <2>. QED  BY <1>5, <2>1, LenProperties, ElementOfSeq
<1>7. ASSUME NEW k \in 1..n
      PROVE  /\ returns[k] \in Sink
             /\ returns[k].kind = "return" /\ returns[k].at = blocks[b].end
             /\ blocks[b].isExit
             /\ \E r \in DefinedByCall :
                   /\ contexts[b][r] # {}
                   /\ returns[k].inputs = {Use(contexts[b], r, Length)}
  <2>1. {order[k]} \in SUBSET Regs /\ Length \in Nat
    BY <1>6, CallAssumption, LengthAssumption
  <2>2. Uses(context, {order[k]}, Length) \subseteq Node
    BY <1>4, <2>1, UsesAreNodes
  <2>3. {Use(context, order[k], Length)} \subseteq Node
    BY <2>2 DEF Uses
  <2>4. returns[k] = [kind |-> "return", at |-> blocks[b].end,
                      inputs |-> {Use(context, order[k], Length)}]
    BY <1>2, <1>6
  <2>5. order[k] \in live
    BY <1>6
  <2>6. blocks[b].isExit /\ order[k] \in DefinedByCall /\ contexts[b][order[k]] # {}
    BY <1>1, <2>5
  <2>7. returns[k] \in Sink /\ returns[k].kind = "return" /\ returns[k].at = blocks[b].end
    BY <1>4, <2>3, <2>4 DEF Sink
  <2>8. returns[k].inputs = {Use(contexts[b], order[k], Length)}
    BY <1>1, <2>4
  <2>. QED  BY <2>6, <2>7, <2>8
<1>8. returns \in [1..n -> Sink]
  <2>1. DOMAIN returns = 1..n /\ returns = [k \in 1..n |-> returns[k]]
    BY <1>2, <1>6
  <2>. QED  BY <1>7, <2>1
<1>9. returns \in Seq(Sink) /\ Len(returns) = n
  <2>1. returns \in Seq(Sink)
    BY <1>6, <1>8, SeqDef
  <2>. QED  BY <1>6, <1>8, <2>1, LenProperties
<1>. QED  BY <1>3, <1>7, <1>9 DEF Returned

LEMMA BeginTypes ==
    ASSUME TInv, DInv, InitWorklist
    PROVE  TInv'
<1>1. /\ contexts' = [b \in DOMAIN blocks |-> NoContext] /\ dfa' = "order"
      /\ sinks' = [b \in DOMAIN blocks |-> <<>>]
      /\ UNCHANGED <<inputs, pass, current>>
  BY DEF InitWorklist, VisitBlock
<1>2. NoContext \in Context /\ <<>> \in Seq(Sink)
  BY DEF NoContext, Context
<1> HIDE DEF Context, Sink
<1>. QED  BY <1>1, <1>2 DEF TInv

LEMMA TakeTypes ==
    ASSUME GraphInv, DInv, AgeInv, TInv, FreshInv, TakeBlock
    PROVE  TInv'
<1>1. PICK b : b = Head(worklist)
  OBVIOUS
<1>2. /\ b \in Internal /\ b \in DOMAIN contexts /\ DOMAIN contexts' = DOMAIN contexts
      /\ Preds(b) \subseteq DOMAIN contexts
      /\ \A c \in DOMAIN contexts : c # b => contexts'[c] = contexts[c]
      /\ \A r \in Regs : contexts'[b][r] = UNION {contexts[c][r] : c \in Preds(b)}
  BY <1>1, TakeBlockEffect
<1>3. /\ dfa = "next" /\ dfa' = "block" /\ pass' = pass + 1 /\ pass < MaxPasses
      /\ inputs' = inputs /\ sinks' = [sinks EXCEPT ![b] = <<>>]
      /\ current' = [block |-> b, pc |-> blocks[b].start, prev |-> getSizes(contexts[b])]
      /\ contexts'[b] = EntryContext(b)
  BY <1>1, <1>2 DEF TakeBlock
<1>4. contexts'[b] \in Context
  <2>1. \A c \in Preds(b), r \in Regs : contexts[c][r] \subseteq Node
    BY <1>2 DEF TInv, Context
  <2>2. \A r \in Regs : contexts'[b][r] \subseteq Node
    BY <1>2, <2>1
  <2>3. contexts'[b] = [r \in Regs |-> contexts'[b][r]]
    BY <1>3 DEF EntryContext
  <2>. QED  BY <2>2, <2>3 DEF Context
<1>5. current' \in [block : Nat, pc : Nat, prev : [Regs -> Nat]]
  <2>1. \A r \in Regs : Cardinality(contexts[b][r]) \in Nat
    BY <1>2, <1>3, FS_CardinalityType DEF FreshInv
  <2>2. b \in Nat /\ blocks[b].start \in Nat
    BY <1>2, GraphFacts
  <2>. QED  BY <1>3, <2>1, <2>2 DEF getSizes
<1>6. pass' \in 0..MaxPasses
  BY <1>3, MaxPassesAssumption DEF TInv
<1>7. <<>> \in Seq(Sink)
  OBVIOUS
<1>8. \A c \in DOMAIN contexts' : contexts'[c] \in Context /\ sinks'[c] \in Seq(Sink)
  BY <1>2, <1>3, <1>4, <1>7 DEF TInv
<1>. QED  BY <1>2, <1>3, <1>5, <1>6, <1>8 DEF TInv

LEMMA InstructionTypes ==
    ASSUME GraphInv, DInv, WellEnded, AgeInv, TInv, Instruction
    PROVE  TInv'
<1>1. PICK b, pc, entry, uses : b = current.block /\ pc = current.pc
                                /\ entry = contexts[b] /\ uses = ops[pc].uses
  OBVIOUS
<1>2. PICK used, added, returns, results :
         /\ used = Uses(entry, uses, pc) /\ added = UseInputs(entry, uses, pc)
         /\ results = Outputs("result", ops[pc].defs)
         /\ returns = IF ~ops[pc].store /\ IsBranch(code[pc]) /\ blocks[b].endsInCall
                      THEN Outputs("callReturn", DefinedByCall) ELSE {}
  OBVIOUS
<1>3. /\ inputs' = Over([n \in results \cup returns |-> used], Over(inputs, added))
      /\ sinks' = IF ops[pc].store \/ (~ops[pc].store /\ IsBranch(code[pc]))
                  THEN AddSink(b, pc, used) ELSE sinks
  BY <1>1, <1>2, Zenon DEF Instruction
<1>4. /\ dfa = "block" /\ dfa' = "block" /\ pc <= blocks[b].end /\ pass' = pass
      /\ current' = [current EXCEPT !.pc = pc + 1]
  BY <1>1 DEF Instruction
<1>5. /\ b \in Internal /\ pc \in Nat /\ uses \in SUBSET Regs /\ ops[pc].defs \in SUBSET Regs
      /\ b \in DOMAIN contexts
  BY <1>1, <1>4, InstructionKnown DEF DInv, Internal
<1>6. Known(entry)
  BY <1>1, <1>4, <1>5, ContextsKnown
<1>7. /\ used \subseteq Node /\ used \subseteq DOMAIN inputs \cup DOMAIN added
      /\ DOMAIN added \subseteq Node
      /\ \A n \in DOMAIN added : added[n] \subseteq DOMAIN inputs
  BY <1>2, <1>5, <1>6, UsesAreNodes
<1>8. results \subseteq Node /\ returns \subseteq Node
  <2>1. DefinedByCall \in SUBSET Regs
    BY CallAssumption
  <2>2. PICK k, l : k = "result" /\ l = "callReturn"
    OBVIOUS
  <2>3. Outputs(k, ops[pc].defs) \subseteq Node /\ Outputs(l, DefinedByCall) \subseteq Node
    BY <1>5, <2>1, <2>2, OutputsAreNodes
  <2>. QED  BY <1>2, <2>2, <2>3
<1>9. EdgesTyped(inputs', DOMAIN inputs')
  <2> DEFINE made == DOMAIN inputs \cup DOMAIN added
  <2>1. EdgesTyped(inputs, made) /\ EdgesTyped(added, made)
    BY <1>7 DEF EdgesTyped, TInv
  <2>2. PICK g : g = Over(inputs, added)
    OBVIOUS
  <2>3. EdgesTyped(g, made) /\ DOMAIN g = made
    BY <2>1, <2>2, OverTyped
  <2>4. PICK f : f = [n \in results \cup returns |-> used]
    OBVIOUS
  <2>5. EdgesTyped(f, made)
    BY <1>7, <1>8, <2>4 DEF EdgesTyped
  <2>6. EdgesTyped(Over(f, g), made) /\ DOMAIN Over(f, g) = DOMAIN f \cup made
    BY <2>3, <2>5, OverTyped
  <2>. QED  BY <1>3, <2>2, <2>4, <2>6 DEF EdgesTyped
<1>10. \A c \in DOMAIN contexts' : contexts'[c] \in Context
  <2>1. /\ DOMAIN contexts' = DOMAIN contexts
        /\ \A c \in DOMAIN contexts : c # b => contexts'[c] = contexts[c]
        /\ \A r \in Regs : contexts'[b][r] = After(b, r)
    BY <1>1, InstructionEffect
  <2>2. ASSUME NEW r \in Regs PROVE contexts'[b][r] \subseteq Node
    <3>1. After(b, r) \subseteq contexts[b][r] \cup {Fresh("callReturn", r, pc)}
                                               \cup {Fresh("result", r, pc)}
      BY <1>1 DEF After
    <3>2. Fresh("callReturn", r, pc) \in Node /\ Fresh("result", r, pc) \in Node
      BY <1>5, FreshIsNode
    <3>3. contexts[b][r] \subseteq Node
      BY <1>5 DEF TInv, Context
    <3>. QED  BY <2>1, <3>1, <3>2, <3>3
  <2>3. contexts'[b] = [r \in Regs |-> contexts'[b][r]]
    <3>1. PICK exit, last : /\ exit = Define(entry, results)
                            /\ last = Define(Kill(exit), returns)
      OBVIOUS
    <3>2. exit = [r \in Regs |-> exit[r]] /\ last = [r \in Regs |-> last[r]]
      BY <3>1 DEF Define
    <3>3. contexts'[b] = exit \/ contexts'[b] = last
      BY <1>1, <1>2, <1>5, <3>1 DEF Instruction
    <3>. QED  BY <3>2, <3>3
  <2>4. contexts'[b] \in Context
    BY <2>2, <2>3 DEF Context
  <2>. QED  BY <2>1, <2>4 DEF TInv
<1>11. DOMAIN sinks' = DOMAIN contexts' /\ \A c \in DOMAIN contexts' : sinks'[c] \in Seq(Sink)
  <2>1. PICK sink : sink = [kind |-> "sink", at |-> pc, inputs |-> used]
    OBVIOUS
  <2>2. sink \in Sink
    BY <1>5, <1>7, <2>1 DEF Sink
  <2>3. sinks' = sinks \/ sinks' = [sinks EXCEPT ![b] = Append(@, sink)]
    BY <1>3, <2>1 DEF AddSink
  <2>4. Append(sinks[b], sink) \in Seq(Sink)
    BY <1>5, <2>2, AppendProperties DEF TInv
  <2>5. DOMAIN contexts' = DOMAIN contexts
    BY <1>1, InstructionEffect
  <2>. QED  BY <2>3, <2>4, <2>5 DEF TInv
<1>12. current' \in [block : Nat, pc : Nat, prev : [Regs -> Nat]]
  BY <1>4, <1>5 DEF TInv
<1>. QED  BY <1>4, <1>9, <1>10, <1>11, <1>12 DEF TInv, EdgesTyped

LEMMA FinishTypes ==
    ASSUME GraphInv, DInv, AgeInv, TInv, FinishBlock
    PROVE  TInv'
<1>1. PICK b, context, live :
         /\ b = current.block /\ context = contexts[b]
         /\ live = IF blocks[b].isExit THEN {r \in DefinedByCall : context[r] # {}} ELSE {}
  OBVIOUS
<1>2. PICK added : added = UseInputs(context, live, Length)
  OBVIOUS
<1>3. inputs' = Over(inputs, added)
  BY <1>1, <1>2, Zenon DEF FinishBlock
<1>4. dfa = "block" /\ dfa' = "next" /\ UNCHANGED <<contexts, pass, current>>
  BY DEF FinishBlock
<1>5. /\ Length \in Nat /\ live \in SUBSET Regs /\ Known(context) /\ b \in DOMAIN contexts
  BY <1>1, <1>4, LengthAssumption, CallAssumption, ContextsKnown DEF DInv, Internal
<1>6. EdgesTyped(inputs', DOMAIN inputs')
  <2> DEFINE made == DOMAIN inputs \cup DOMAIN added
  <2>1. DOMAIN added \subseteq Node /\ \A n \in DOMAIN added : added[n] \subseteq DOMAIN inputs
    BY <1>2, <1>5, UsesAreNodes
  <2>2. EdgesTyped(inputs, made) /\ EdgesTyped(added, made)
    BY <2>1 DEF EdgesTyped, TInv
  <2>3. EdgesTyped(Over(inputs, added), made) /\ DOMAIN Over(inputs, added) = made
    BY <2>2, OverTyped
  <2>. QED  BY <1>3, <2>3
<1>7. \A c \in DOMAIN contexts : sinks'[c] \in Seq(Sink)
  <2>1. PICK returns \in Seq(Sink) : sinks' = [sinks EXCEPT ![b] = @ \o returns]
    BY <1>1, FinishEffect
  <2>2. sinks[b] \o returns \in Seq(Sink)
    BY <1>5, <2>1, ConcatProperties DEF TInv
  <2>. QED  BY <2>1, <2>2 DEF TInv
<1>8. DOMAIN sinks' = DOMAIN sinks
  BY DEF FinishBlock
<1>. QED  BY <1>4, <1>6, <1>7, <1>8 DEF TInv, EdgesTyped

LEMMA StepTInv ==
    GraphInv /\ DInv /\ (WellEnded => AgeInv) /\ (WellEnded => FreshInv) /\ (WellEnded => TInv)
        /\ [FunctionNext]_allVars => (WellEnded => TInv)'
<1>. SUFFICES ASSUME GraphInv, DInv, WellEnded => AgeInv, WellEnded => FreshInv,
                     WellEnded => TInv, [FunctionNext]_allVars, WellEnded'
              PROVE  TInv'
  OBVIOUS
<1>1. code' = code
  BY DEF FunctionNext, DfaNext, Next, ScanPlain, RunOffEnd, HandleBranch, RuntimeBranch, Stop,
         AfterBranch, EndCall, EndBlock, Terminated, Stopped, allVars, vars
<1>2. WellEnded /\ TInv /\ AgeInv /\ FreshInv
  BY <1>1, ClosureKept DEF WellEnded
<1>3. CASE UNCHANGED dfaVars
  BY <1>2, <1>3 DEF TInv, dfaVars, flow
<1>4. CASE DfaNext
  <2>1. CASE InitWorklist
    BY <1>2, <2>1, BeginTypes
  <2>2. CASE TakeBlock
    BY <1>2, <2>2, TakeTypes
  <2>3. CASE Instruction
    BY <1>2, <2>3, InstructionTypes
  <2>4. CASE FinishBlock
    BY <1>2, <2>4, FinishTypes
  <2>5. CASE VisitSuccessor \/ VisitReturn \/ InstructionThrows \/ Finish \/ Overflow
    <3>1. /\ UNCHANGED <<flow, pass, current>>
          /\ dfa' \in {"idle", "order", "next", "block", "done", "threw", "overflow"}
      BY <1>2, <2>5 DEF VisitSuccessor, VisitBlock, VisitReturn, InstructionThrows, Finish,
                        Overflow, TInv
    <3>. QED  BY <1>2, <3>1 DEF TInv, flow
  <2>. QED  BY <1>4, <2>1, <2>2, <2>3, <2>4, <2>5 DEF DfaNext
<1>. QED  BY <1>3, <1>4, StepKinds DEF DInv, allVars

LEMMA InitTInv == AnalysisInit => TInv
<1>. SUFFICES ASSUME AnalysisInit PROVE TInv
  OBVIOUS
<1>1. /\ contexts = <<>> /\ sinks = <<>> /\ inputs = <<>> /\ pass = 0 /\ dfa = "idle"
      /\ current = [block |-> 0, pc |-> 0, prev |-> [r \in Regs |-> 0]]
  BY DEF AnalysisInit, DfaInit
<1>2. DOMAIN <<>> = {}
  OBVIOUS
<1>. QED  BY <1>1, <1>2, MaxPassesAssumption DEF TInv

-----------------------------------------------------------------------------
(* What a comparison follows.                                              *)

(* The inputs of a node or of a sink can be listed, and the instruction    *)
(* that computed it, or that the sink stands for, is one of the function.  *)
ListInv ==
    /\ \A n \in DOMAIN inputs :
          /\ IsFiniteSet(inputs[n])
          /\ ~IsOperand(n) => n.at \in Positions
    /\ sinks = [b \in DOMAIN sinks |-> sinks[b]]
    /\ \A b \in DOMAIN sinks : \A k \in DOMAIN sinks[b] :
          /\ IsFiniteSet(sinks[b][k].inputs) /\ sinks[b][k].inputs \subseteq DOMAIN inputs
          /\ sinks[b][k].kind = "sink" => sinks[b][k].at \in Positions

SinkListed(s, made) ==
    /\ IsFiniteSet(s.inputs) /\ s.inputs \subseteq made
    /\ s.kind = "sink" => s.at \in Positions
EdgesListed(f) ==
    \A n \in DOMAIN f : IsFiniteSet(f[n]) /\ (~IsOperand(n) => n.at \in Positions)

LEMMA OverListed ==
    ASSUME NEW f, NEW g, EdgesListed(f), EdgesListed(g)
    PROVE  EdgesListed(Over(f, g)) /\ DOMAIN Over(f, g) = DOMAIN f \cup DOMAIN g
BY DEF Over, EdgesListed

(* The nodes that an instruction uses can be listed.                       *)
LEMMA UsesListed ==
    ASSUME TInv, NEW context, Known(context), NEW uses \in SUBSET Regs, NEW at \in Nat,
           EdgesListed(inputs), \A r \in Regs : IsFiniteSet(context[r])
    PROVE  /\ IsFiniteSet(Uses(context, uses, at))
           /\ EdgesListed(UseInputs(context, uses, at))
<1>1. IsFiniteSet(uses)
  BY CallAssumption, FS_Subset
<1>2. PICK T : T = Uses(context, uses, at)
  OBVIOUS
<1>3. PICK f : f = [r \in uses |-> Use(context, r, at)]
  OBVIOUS
<1>4. f \in Surjection(uses, T)
  <2>1. T = {f[r] : r \in uses}
    BY <1>2, <1>3 DEF Uses
  <2>2. f \in [uses -> T] /\ \A t \in T : \E r \in uses : f[r] = t
    BY <1>3, <2>1
  <2>. QED  BY <2>2 DEF Surjection
<1>5. IsFiniteSet(T)
  BY <1>1, <1>4, FS_Surjection
<1>6. ASSUME NEW n \in DOMAIN UseInputs(context, uses, at)
      PROVE  /\ IsFiniteSet(UseInputs(context, uses, at)[n])
             /\ IsOperand(n)
  <2>1. n \in Uses(context, uses, at) /\ n \notin DOMAIN inputs
        /\ UseInputs(context, uses, at)[n] = context[n.reg]
    BY DEF UseInputs
  <2>2. PICK r \in uses : n = Use(context, r, at)
    BY <2>1 DEF Uses
  <2>3. n = Fresh("input", r, at) \/ n = Fresh("phi", r, at)
    <3>1. n \notin context[r]
      BY <2>1 DEF Known
    <3>. QED  BY <2>2, <3>1, UseKinds
  <2>4. n.reg = r /\ IsOperand(n)
    BY <2>3 DEF Fresh, IsOperand
  <2>. QED  BY <2>1, <2>4
<1>. QED  BY <1>2, <1>5, <1>6 DEF EdgesListed

LEMMA InstructionLists ==
    ASSUME GraphInv, DInv, WellEnded, AgeInv, TInv, FreshInv, ListInv, Instruction
    PROVE  ListInv'
<1>1. PICK b, pc, entry, uses : b = current.block /\ pc = current.pc
                                /\ entry = contexts[b] /\ uses = ops[pc].uses
  OBVIOUS
<1>2. PICK used, added, returns, results :
         /\ used = Uses(entry, uses, pc) /\ added = UseInputs(entry, uses, pc)
         /\ results = Outputs("result", ops[pc].defs)
         /\ returns = IF ~ops[pc].store /\ IsBranch(code[pc]) /\ blocks[b].endsInCall
                      THEN Outputs("callReturn", DefinedByCall) ELSE {}
  OBVIOUS
<1>3. /\ inputs' = Over([n \in results \cup returns |-> used], Over(inputs, added))
      /\ sinks' = IF ops[pc].store \/ (~ops[pc].store /\ IsBranch(code[pc]))
                  THEN AddSink(b, pc, used) ELSE sinks
  BY <1>1, <1>2, Zenon DEF Instruction
<1>4. dfa = "block" /\ pc <= blocks[b].end
  BY <1>1 DEF Instruction
<1>5. /\ b \in Internal /\ pc \in Nat /\ pc \in Positions
      /\ uses \in SUBSET Regs /\ b \in DOMAIN contexts
  BY <1>1, <1>4, InstructionKnown DEF DInv, Internal
<1>6. Known(entry) /\ \A r \in Regs : IsFiniteSet(entry[r])
  BY <1>1, <1>4, <1>5, ContextsKnown DEF FreshInv
<1>7. used \subseteq DOMAIN inputs \cup DOMAIN added
  BY <1>2, <1>5, <1>6, UsesAreNodes
<1>8. EdgesListed(inputs)
  BY DEF ListInv, EdgesListed
<1>9. IsFiniteSet(used) /\ EdgesListed(added)
  BY <1>2, <1>5, <1>6, <1>8, UsesListed
<1>10. \A n \in results \cup returns : n.at = pc
  BY <1>1, <1>2 DEF Outputs, Fresh
<1>11. EdgesListed(inputs') /\ used \subseteq DOMAIN inputs' /\ DOMAIN inputs \subseteq DOMAIN inputs'
  <2>1. PICK f, g : f = [n \in results \cup returns |-> used] /\ g = Over(inputs, added)
    OBVIOUS
  <2>2. EdgesListed(g) /\ DOMAIN g = DOMAIN inputs \cup DOMAIN added
    BY <1>8, <1>9, <2>1, OverListed
  <2>3. EdgesListed(f)
    BY <1>5, <1>9, <1>10, <2>1 DEF EdgesListed
  <2>4. EdgesListed(Over(f, g)) /\ DOMAIN Over(f, g) = DOMAIN f \cup DOMAIN g
    BY <2>2, <2>3, OverListed
  <2>. QED  BY <1>3, <1>7, <2>1, <2>2, <2>4
<1>12. ASSUME NEW c \in DOMAIN sinks', NEW k \in DOMAIN sinks'[c]
       PROVE  SinkListed(sinks'[c][k], DOMAIN inputs')
  <2>1. PICK sink : sink = [kind |-> "sink", at |-> pc, inputs |-> used]
    OBVIOUS
  <2>2. SinkListed(sink, DOMAIN inputs')
    BY <1>5, <1>9, <1>11, <2>1 DEF SinkListed
  <2>3. sinks' = sinks \/ sinks' = [sinks EXCEPT ![b] = Append(@, sink)]
    BY <1>3, <2>1 DEF AddSink
  <2>4. ASSUME NEW d \in DOMAIN sinks, NEW j \in DOMAIN sinks[d]
        PROVE  SinkListed(sinks[d][j], DOMAIN inputs')
    BY <1>11 DEF SinkListed, ListInv
  <2>5. c \in DOMAIN sinks
    BY <2>3
  <2>6. CASE sinks'[c] = sinks[c]
    BY <2>4, <2>5, <2>6
  <2>7. CASE c = b /\ sinks'[c] = Append(sinks[b], sink)
    <3>1. sinks[b] \in Seq(Sink)
      BY <1>5 DEF TInv
    <3>2. PICK n, s : s = sinks[b] /\ n = Len(s)
      OBVIOUS
    <3>3. /\ n \in Nat /\ DOMAIN sinks[b] = 1..n /\ k \in 1..(n + 1)
          /\ \A j \in 1..n : sinks'[c][j] = sinks[b][j]
          /\ sinks'[c][n + 1] = sink
      <4>1. sink \in Sink
        BY <1>2, <1>5, <1>6, <2>1, UsesAreNodes DEF Sink
      <4>. QED  BY <2>7, <3>1, <3>2, <4>1, AppendProperties, LenProperties
    <3>4. k \in 1..n \/ k = n + 1
      BY <3>3
    <3>. QED  BY <2>2, <2>4, <2>5, <2>7, <3>3, <3>4
  <2>. QED  BY <1>5, <2>3, <2>5, <2>6, <2>7
<1>13. sinks' = [c \in DOMAIN sinks' |-> sinks'[c]]
  BY <1>3 DEF AddSink, ListInv
<1>. QED  BY <1>11, <1>12, <1>13 DEF ListInv, EdgesListed, SinkListed

LEMMA FinishLists ==
    ASSUME GraphInv, DInv, AgeInv, TInv, FreshInv, ListInv, FinishBlock
    PROVE  ListInv'
<1>1. PICK b, context, live :
         /\ b = current.block /\ context = contexts[b]
         /\ live = IF blocks[b].isExit THEN {r \in DefinedByCall : context[r] # {}} ELSE {}
  OBVIOUS
<1>2. PICK added : added = UseInputs(context, live, Length)
  OBVIOUS
<1>3. inputs' = Over(inputs, added)
  BY <1>1, <1>2, Zenon DEF FinishBlock
<1>4. dfa = "block"
  BY DEF FinishBlock
<1>5. /\ Length \in Nat /\ live \in SUBSET Regs /\ Known(context) /\ b \in DOMAIN contexts
      /\ \A r \in Regs : IsFiniteSet(context[r])
  BY <1>1, <1>4, LengthAssumption, CallAssumption, ContextsKnown DEF DInv, Internal, FreshInv
<1>6. EdgesListed(inputs) /\ EdgesListed(added)
  <2>1. EdgesListed(inputs)
    BY DEF ListInv, EdgesListed
  <2>. QED  BY <1>2, <1>5, <2>1, UsesListed
<1>7. EdgesListed(inputs') /\ DOMAIN inputs' = DOMAIN inputs \cup DOMAIN added
  BY <1>3, <1>6, OverListed
<1>8. Uses(context, live, Length) \subseteq DOMAIN inputs'
  BY <1>2, <1>5, <1>7, UsesAreNodes
<1>9. PICK returns \in Seq(Sink) :
         sinks' = [sinks EXCEPT ![b] = @ \o returns] /\ Returned(b, returns)
  BY <1>1, FinishEffect
<1>10. ASSUME NEW c \in DOMAIN sinks', NEW k \in DOMAIN sinks'[c]
       PROVE  SinkListed(sinks'[c][k], DOMAIN inputs')
  <2>1. ASSUME NEW d \in DOMAIN sinks, NEW j \in DOMAIN sinks[d]
        PROVE  SinkListed(sinks[d][j], DOMAIN inputs')
    BY <1>7 DEF SinkListed, ListInv
  <2>2. ASSUME NEW j \in 1..Len(returns) PROVE SinkListed(returns[j], DOMAIN inputs')
    <3>1. PICK r \in live : returns[j].inputs = {Use(context, r, Length)}
      BY <1>1, <1>9 DEF Returned
    <3>2. Use(context, r, Length) \in DOMAIN inputs'
      BY <1>8, <3>1 DEF Uses
    <3>. QED  BY <1>9, <3>1, <3>2, FS_Singleton DEF SinkListed, Returned
  <2>3. CASE c # b
    BY <1>9, <2>1, <2>3
  <2>4. CASE c = b
    <3>1. PICK s, n, v : s = sinks[b] /\ n = Len(s) /\ v = s \o returns
      OBVIOUS
    <3>2. s \in Seq(Sink) /\ b \in DOMAIN sinks
      BY <1>5, <3>1 DEF TInv
    <3>3. /\ n \in Nat /\ Len(returns) \in Nat /\ DOMAIN s = 1..n
          /\ DOMAIN v = 1..(n + Len(returns))
          /\ \A j \in 1..(n + Len(returns)) :
                v[j] = IF j <= n THEN s[j] ELSE returns[j - n]
      BY <1>9, <3>1, <3>2, ConcatProperties, LenProperties
    <3>4. sinks'[c] = v
      BY <1>9, <2>4, <3>1, <3>2
    <3>5. k \in 1..n \/ (k > n /\ k - n \in 1..Len(returns))
      BY <3>3, <3>4
    <3>6. CASE k \in 1..n
      BY <2>1, <3>1, <3>2, <3>3, <3>4, <3>6
    <3>7. CASE k > n /\ k - n \in 1..Len(returns)
      BY <2>2, <3>3, <3>4, <3>7
    <3>. QED  BY <3>5, <3>6, <3>7
  <2>. QED  BY <2>3, <2>4
<1>11. sinks' = [c \in DOMAIN sinks' |-> sinks'[c]]
  BY <1>9
<1>. QED  BY <1>7, <1>10, <1>11 DEF ListInv, EdgesListed, SinkListed

LEMMA StepListInv ==
    GraphInv /\ DInv /\ (WellEnded => AgeInv /\ FreshInv /\ TInv /\ ListInv)
        /\ [FunctionNext]_allVars => (WellEnded => ListInv)'
<1>. SUFFICES ASSUME GraphInv, DInv, WellEnded => AgeInv /\ FreshInv /\ TInv /\ ListInv,
                     [FunctionNext]_allVars, WellEnded'
              PROVE  ListInv'
  OBVIOUS
<1>1. code' = code
  BY DEF FunctionNext, DfaNext, Next, ScanPlain, RunOffEnd, HandleBranch, RuntimeBranch, Stop,
         AfterBranch, EndCall, EndBlock, Terminated, Stopped, allVars, vars
<1>2. WellEnded /\ TInv /\ AgeInv /\ FreshInv /\ ListInv
  BY <1>1, ClosureKept DEF WellEnded
<1>3. CASE UNCHANGED dfaVars
  BY <1>2, <1>3 DEF ListInv, dfaVars, flow
<1>4. CASE DfaNext
  <2>1. CASE InitWorklist
    <3>1. inputs' = inputs /\ sinks' = [b \in DOMAIN blocks |-> <<>>]
      BY <2>1 DEF InitWorklist
    <3>. QED  BY <1>2, <3>1 DEF ListInv
  <2>2. CASE TakeBlock
    <3>1. inputs' = inputs /\ sinks' = [sinks EXCEPT ![Head(worklist)] = <<>>]
      BY <2>2 DEF TakeBlock
    <3>2. /\ DOMAIN sinks' = DOMAIN sinks
          /\ \A b \in DOMAIN sinks : sinks'[b] = sinks[b] \/ sinks'[b] = <<>>
          /\ sinks' = [b \in DOMAIN sinks' |-> sinks'[b]]
      BY <3>1
    <3>. QED  BY <1>2, <3>1, <3>2 DEF ListInv
  <2>3. CASE Instruction
    BY <1>2, <2>3, InstructionLists
  <2>4. CASE FinishBlock
    BY <1>2, <2>4, FinishLists
  <2>5. CASE VisitSuccessor \/ VisitReturn \/ InstructionThrows \/ Finish \/ Overflow
    <3>1. UNCHANGED flow
      BY <2>5 DEF VisitSuccessor, VisitReturn, InstructionThrows, Finish, Overflow
    <3>. QED  BY <1>2, <3>1 DEF ListInv, flow
  <2>. QED  BY <1>4, <2>1, <2>2, <2>3, <2>4, <2>5 DEF DfaNext
<1>. QED  BY <1>3, <1>4, StepKinds DEF DInv, allVars

(* What the proofs about well-ended functions have in common.              *)
FlowInv == WellEnded => AgeInv /\ FreshInv /\ TInv /\ ListInv

LEMMA InitFlow == AnalysisInit => FlowInv /\ Rooted
<1>1. AnalysisInit => Rooted /\ dfa = "idle" /\ inputs = <<>>
  BY InitRooted DEF AnalysisInit, DfaInit
<1>2. AnalysisInit => AgeInv
  BY DEF AnalysisInit, DfaInit, AgeInv, InputsOlder
<1>3. AnalysisInit => ListInv
  <2>1. DOMAIN <<>> = {} /\ <<>> = [b \in DOMAIN <<>> |-> <<>>[b]]
    OBVIOUS
  <2>. QED  BY <2>1 DEF AnalysisInit, DfaInit, ListInv
<1>. QED  BY <1>1, <1>2, <1>3, InitTInv DEF FreshInv, FlowInv

LEMMA StepFlow ==
    GraphInv /\ DInv /\ GraphInv' /\ FlowInv /\ Rooted /\ [FunctionNext]_allVars
        => FlowInv' /\ Rooted'
BY StepAgeInv, StepFreshInv, StepTInv, StepListInv DEF FlowInv

LEMMA FlowKept == FunctionSpec => [](GraphInv /\ DInv /\ FlowInv)
BY FunctionsAnalysable, InitFlow, StepFlow, Structured, PTL DEF FunctionSpec

(* In a function that ends well the worklist and the edges between nodes   *)
(* refer to blocks and nodes there are, whatever the code and however many *)
(* passes.                                                                 *)
THEOREM DfaTypes == FunctionSpec => [](WellEnded => DfaTypeOK)
<1>1. ASSUME GraphInv, DInv, TInv PROVE DfaTypeOK
  <2>1. ops \in [Positions -> Operand]
    BY <1>1 DEF DInv, Analysable
  <2>2. Internal \subseteq DOMAIN blocks
    BY DEF Internal
  <2>3. worklist \in Seq(Internal) /\ visit \in Seq([block : Internal, seen : Nat])
    BY <1>1 DEF DInv, Proper
  <2>4. PICK V, W : V = [block : Internal, seen : Nat] /\ W = [block : DOMAIN blocks, seen : Nat]
    OBVIOUS
  <2>5. V \subseteq W
    BY <2>2, <2>4
  <2>6. worklist \in Seq(DOMAIN blocks)
    BY <2>2, <2>3
  <2>7. visit \in Seq(W)
    <3>1. visit \in Seq(V)
      BY <2>3, <2>4
    <3>. QED  BY <2>5, <3>1
  <2>. QED  BY <1>1, <2>1, <2>4, <2>6, <2>7 DEF DfaTypeOK, TInv
<1>. QED  BY <1>1, FlowKept, PTL DEF FlowInv

-----------------------------------------------------------------------------
(* The order of the sinks.                                                 *)

(* The block under analysis has those of the instructions before; one that *)
(* need not be analysed any more has all of them.                          *)
SinkInv ==
    /\ dfa = "block" =>
          LET b == current.block
          IN  SinksAt(sinks[b], Len(sinks[b]), SinkPlaces(b, current.pc - 1))
    /\ dfa \in {"next", "block", "done", "overflow"} =>
          \A b \in Internal : b \in Listed \/ Under(b) \/ SinksEnd(b)

LEMMA SinksAppend ==
    ASSUME NEW s \in Seq(Sink), NEW P \in SUBSET Nat, SinksAt(s, Len(s), P),
           NEW sink \in Sink, sink.kind = "sink", \A p \in P : p < sink.at
    PROVE  SinksAt(Append(s, sink), Len(Append(s, sink)), P \cup {sink.at})
<1>1. PICK n, v : n = Len(s) /\ v = Append(s, sink)
  OBVIOUS
<1>2. n \in Nat /\ Len(v) = n + 1 /\ v[n + 1] = sink /\ \A k \in 1..n : v[k] = s[k]
  BY <1>1, AppendProperties, LenProperties
<1>3. {s[k].at : k \in 1..n} = P /\ \A k \in 1..n : s[k].at \in P
  BY <1>1 DEF SinksAt
<1>4. 1..(n + 1) = 1..n \cup {n + 1}
  BY <1>2
<1>5. {v[k].at : k \in 1..(n + 1)} = P \cup {sink.at}
  BY <1>2, <1>3, <1>4
<1>6. ASSUME NEW k \in 1..(n + 1)
      PROVE  v[k].kind = "sink" /\ \A j \in 1..(k - 1) : v[j].at < v[k].at
  <2>1. CASE k \in 1..n
    <3>1. v[k] = s[k] /\ \A j \in 1..(k - 1) : j \in 1..n
      BY <1>2, <2>1
    <3>2. s[k].kind = "sink" /\ \A j \in 1..(k - 1) : s[j].at < s[k].at
      BY <1>1, <2>1 DEF SinksAt
    <3>. QED  BY <1>2, <3>1, <3>2
  <2>2. CASE k = n + 1
    <3>1. \A j \in 1..(k - 1) : j \in 1..n
      BY <1>2, <2>2
    <3>. QED  BY <1>2, <1>3, <2>2, <3>1
  <2>. QED  BY <1>4, <2>1, <2>2
<1>. QED  BY <1>1, <1>2, <1>5, <1>6 DEF SinksAt

LEMMA SinksKept ==
    ASSUME NEW b, SinksEnd(b), sinks'[b] = sinks[b], Fixed, code' = code
    PROVE  SinksEnd(b)'
BY DEF SinksEnd, SinkPlaces, SinksAt, Fixed

LEMMA TakeSinksInOrder ==
    ASSUME GraphInv, DInv, TInv, SinkInv, UNCHANGED vars, TakeBlock
    PROVE  SinkInv'
<1>1. PICK b : b = Head(worklist)
  OBVIOUS
<1>2. /\ dfa = "next" /\ dfa' = "block" /\ Fixed /\ code' = code
      /\ b \in Internal /\ b \in DOMAIN contexts /\ current'.block = b
      /\ current'.pc = blocks[b].start /\ blocks[b].start \in Nat
      /\ sinks' = [sinks EXCEPT ![b] = <<>>]
  BY <1>1, TakeBlockEffect, GraphFacts DEF TakeBlock, vars, Fixed
<1>3. sinks'[b] = <<>> /\ \A c : c # b => sinks'[c] = sinks[c]
  BY <1>2 DEF TInv
<1>4. SinksAt(<<>>, 0, {})
  BY DEF SinksAt
<1>5. SinkPlaces(current.block, current.pc - 1)' = {}
  <2>1. blocks[b].start..(blocks[b].start - 1) = {}
    BY <1>2
  <2>2. SinkPlaces(b, blocks[b].start - 1) = {}
    BY <2>1 DEF SinkPlaces
  <2>. QED  BY <1>2, <2>2 DEF SinkPlaces, Fixed
<1>6. LET s == sinks[current.block]
      IN  SinksAt(s, Len(s), SinkPlaces(current.block, current.pc - 1))'
  <2>1. sinks'[current'.block] = <<>> /\ Len(<<>>) = 0
    BY <1>2, <1>3
  <2>. QED  BY <1>4, <1>5, <2>1 DEF SinksAt
<1>7. ASSUME NEW c \in Internal, c \notin Listed', ~Under(c)'
      PROVE  SinksEnd(c)'
  <2>1. c # b /\ ~Under(c)
    BY <1>2, <1>7 DEF Under
  <2>2. c \notin Listed
    BY <1>1, <1>7, <2>1, TakenListed
  <2>3. SinksEnd(c)
    BY <1>2, <2>1, <2>2 DEF SinkInv
  <2>. QED  BY <1>2, <1>3, <2>1, <2>3, SinksKept
<1>8. Internal' = Internal
  BY <1>2, FixedFacts
<1>. QED  BY <1>2, <1>6, <1>7, <1>8 DEF SinkInv, SinksAt

LEMMA InstructionSinksInOrder ==
    ASSUME GraphInv, DInv, WellEnded, AgeInv, TInv, SinkInv, UNCHANGED vars, Instruction
    PROVE  SinkInv'
<1>1. PICK b, pc, used, s : b = current.block /\ pc = current.pc /\ s = sinks[b]
                           /\ used = Uses(contexts[b], ops[pc].uses, pc)
  OBVIOUS
<1>2. /\ dfa = "block" /\ dfa' = "block" /\ pc <= blocks[b].end /\ Fixed /\ code' = code
      /\ worklist' = worklist /\ current'.pc = pc + 1 /\ current'.block = b
      /\ sinks' = IF ops[pc].store \/ (~ops[pc].store /\ IsBranch(code[pc]))
                  THEN AddSink(b, pc, used) ELSE sinks
  BY <1>1 DEF Instruction, DInv, vars, Fixed
<1>3. /\ b \in Internal /\ b \in DOMAIN contexts /\ pc \in Nat /\ blocks[b].start \in Nat
      /\ blocks[b].start <= pc
      /\ ops[pc].uses \in SUBSET Regs
  BY <1>1, <1>2, InstructionKnown DEF DInv, Internal
<1>4. s \in Seq(Sink) /\ SinksAt(s, Len(s), SinkPlaces(b, pc - 1))
  BY <1>1, <1>2, <1>3 DEF TInv, SinkInv
<1>5. /\ SinkPlaces(b, pc - 1) \subseteq Nat /\ \A p \in SinkPlaces(b, pc - 1) : p < pc
      /\ SinkPlaces(b, pc) = SinkPlaces(b, pc - 1)
            \cup IF ops[pc].store \/ IsBranch(code[pc]) THEN {pc} ELSE {}
  <2>1. /\ blocks[b].start..pc = blocks[b].start..(pc - 1) \cup {pc}
        /\ \A p \in blocks[b].start..(pc - 1) : p \in Nat /\ p < pc
    BY <1>3
  <2>. QED  BY <2>1 DEF SinkPlaces
<1>6. SinksAt(sinks'[b], Len(sinks'[b]), SinkPlaces(b, pc))
  <2>1. CASE ops[pc].store \/ IsBranch(code[pc])
    <3>1. PICK sink : sink = [kind |-> "sink", at |-> pc, inputs |-> used]
      OBVIOUS
    <3>2. sink \in Sink /\ sink.kind = "sink" /\ sink.at = pc
      <4>1. Known(contexts[b])
        BY <1>2, <1>3, ContextsKnown
      <4>2. used \subseteq Node
        BY <1>1, <1>3, <4>1, UsesAreNodes
      <4>. QED  BY <1>3, <3>1, <4>2 DEF Sink
    <3>3. sinks'[b] = Append(s, sink)
      BY <1>1, <1>2, <1>3, <2>1, <3>1 DEF AddSink, TInv
    <3>. QED  BY <1>4, <1>5, <2>1, <3>2, <3>3, SinksAppend
  <2>2. CASE ~(ops[pc].store \/ IsBranch(code[pc]))
    BY <1>1, <1>2, <1>4, <1>5, <2>2
  <2>. QED  BY <2>1, <2>2
<1>7. SinkPlaces(current.block, current.pc - 1)' = SinkPlaces(b, pc)
  <2>1. current'.pc - 1 = pc
    BY <1>2, <1>3
  <2>. QED  BY <1>2, <2>1 DEF SinkPlaces, Fixed
<1>8. ASSUME NEW c \in Internal, c \notin Listed', ~Under(c)'
      PROVE  SinksEnd(c)'
  <2>1. c # b /\ c \notin Listed /\ ~Under(c)
    BY <1>1, <1>2, <1>8 DEF Under, Listed
  <2>2. SinksEnd(c)
    BY <1>2, <2>1 DEF SinkInv
  <2>3. sinks'[c] = sinks[c]
    BY <1>2, <2>1 DEF AddSink
  <2>. QED  BY <1>2, <2>2, <2>3, SinksKept
<1>9. Internal' = Internal
  BY <1>2, FixedFacts
<1>. QED  BY <1>2, <1>6, <1>7, <1>8, <1>9 DEF SinkInv, SinksAt

(* The end of a block takes no block from the worklist.                    *)
LEMMA FinishListed ==
    ASSUME GraphInv, DInv, NEW b \in Internal,
           worklist' = worklist \/ worklist' = PushSuccessors(b)
    PROVE  Listed \subseteq Listed'
<1>1. Proper(worklist)
  BY DEF DInv
<1>2. CASE worklist' = worklist
  BY <1>2 DEF Listed
<1>3. CASE worklist' = PushSuccessors(b)
  <2>1. PICK w : w = PushSuccessors(b)
    OBVIOUS
  <2>2. Listed' = {w[j] : j \in DOMAIN w}
    BY <1>3, <2>1 DEF Listed
  <2>. QED  BY <1>1, <2>1, <2>2, PushListed
<1>. QED  BY <1>2, <1>3

LEMMA FinishSinksInOrder ==
    ASSUME GraphInv, DInv, AgeInv, TInv, SinkInv, UNCHANGED vars, FinishBlock
    PROVE  SinkInv'
<1>1. PICK b, s : b = current.block /\ s = sinks[b]
  OBVIOUS
<1>2. /\ dfa = "block" /\ dfa' = "next" /\ Fixed /\ code' = code
      /\ b \in Internal /\ b \in DOMAIN contexts
      /\ worklist' = worklist \/ worklist' = PushSuccessors(b)
  BY <1>1 DEF FinishBlock, vars, Fixed, DInv, Internal
<1>3. current.pc - 1 = blocks[b].end
  <2>1. current.pc > blocks[b].end /\ current.pc \in blocks[b].start..(blocks[b].end + 1)
    BY <1>1, <1>2 DEF FinishBlock, DInv
  <2>2. blocks[b].start \in Nat /\ blocks[b].end \in Nat
    BY <1>2, GraphFacts
  <2>. QED  BY <2>1, <2>2
<1>4. s \in Seq(Sink) /\ SinksAt(s, Len(s), SinkPlaces(b, blocks[b].end))
  BY <1>1, <1>2, <1>3 DEF TInv, SinkInv
<1>5. PICK returns \in Seq(Sink) :
         sinks' = [sinks EXCEPT ![b] = @ \o returns] /\ Returned(b, returns)
  BY <1>1, FinishEffect
<1>6. PICK m, n, v : m = Len(returns) /\ n = Len(s) /\ v = s \o returns
  OBVIOUS
<1>7. /\ m \in Nat /\ n \in Nat /\ Len(v) = n + m
      /\ \A k \in 1..(n + m) : v[k] = IF k <= n THEN s[k] ELSE returns[k - n]
  BY <1>4, <1>6, LenProperties, ConcatProperties
<1>8. sinks'[b] = v /\ \A c : c # b => sinks'[c] = sinks[c]
  BY <1>1, <1>2, <1>5, <1>6 DEF TInv
<1>9. SinksEnd(b)'
  <2>1. \A k \in 1..n : v[k] = s[k]
    BY <1>7
  <2>2. SinksAt(v, n, SinkPlaces(b, blocks[b].end))
    <3>1. \A k \in 1..n : \A j \in 1..(k - 1) : j \in 1..n
      BY <1>7
    <3>. QED  BY <1>4, <1>6, <2>1, <3>1 DEF SinksAt
  <2>3. ASSUME NEW k \in (n + 1)..Len(v)
        PROVE  v[k].kind = "return" /\ v[k].at = blocks[b].end /\ blocks[b].isExit
    <3>1. k - n \in 1..m /\ k \in 1..(n + m) /\ ~(k <= n)
      BY <1>7
    <3>. QED  BY <1>5, <1>6, <1>7, <3>1 DEF Returned
  <2>4. n \in 0..Len(v)
    BY <1>7
  <2>5. SinkPlaces(b, blocks[b].end)' = SinkPlaces(b, blocks[b].end) /\ blocks' = blocks
    BY <1>2 DEF SinkPlaces, Fixed
  <2>. QED  BY <1>8, <2>2, <2>3, <2>4, <2>5 DEF SinksEnd, SinksAt
<1>10. ASSUME NEW c \in Internal, c \notin Listed' PROVE SinksEnd(c)'
  <2>1. CASE c = b
    BY <1>9, <2>1
  <2>2. CASE c # b
    <3>1. Listed \subseteq Listed'
      BY <1>2, FinishListed
    <3>2. SinksEnd(c)
      BY <1>1, <1>2, <1>10, <2>2, <3>1 DEF SinkInv, Under
    <3>. QED  BY <1>2, <1>8, <2>2, <3>2, SinksKept
  <2>. QED  BY <2>1, <2>2
<1>11. Internal' = Internal
  BY <1>2, FixedFacts
<1>. QED  BY <1>2, <1>10, <1>11 DEF SinkInv

LEMMA StepSinkInv ==
    GraphInv /\ DInv /\ FlowInv /\ (WellEnded => SinkInv) /\ [FunctionNext]_allVars
        => (WellEnded => SinkInv)'
<1>. SUFFICES ASSUME GraphInv, DInv, FlowInv, WellEnded => SinkInv, [FunctionNext]_allVars,
                     WellEnded'
              PROVE  SinkInv'
  OBVIOUS
<1>1. CASE dfa = "idle" /\ UNCHANGED dfaVars /\ [Next]_vars
  BY <1>1 DEF SinkInv, dfaVars
<1>2. CASE \/ UNCHANGED allVars
           \/ DfaNext /\ UNCHANGED vars
  <2>1. code' = code /\ Fixed
    BY <1>2 DEF allVars, dfaVars, vars, DfaNext, InitWorklist, VisitSuccessor, VisitReturn,
                TakeBlock, Instruction, InstructionThrows, FinishBlock, Finish, Overflow, Fixed
  <2>2. WellEnded /\ AgeInv /\ FreshInv /\ TInv /\ SinkInv
    BY <2>1, ClosureKept DEF WellEnded, FlowInv
  <2>3. Internal' = Internal
    BY <2>1, FixedFacts
  <2>4. CASE UNCHANGED allVars
    <3>1. UNCHANGED <<worklist, sinks, current, dfa>>
      BY <2>4 DEF allVars, dfaVars, flow
    <3>2. Listed' = Listed /\ \A b : Under(b)' <=> Under(b)
      BY <3>1 DEF Listed, Under
    <3>3. \A b : SinksEnd(b) => SinksEnd(b)'
      BY <2>1, <3>1, SinksKept
    <3>4. SinkPlaces(current.block, current.pc - 1)' = SinkPlaces(current.block, current.pc - 1)
      BY <2>1, <3>1 DEF SinkPlaces, Fixed
    <3>. QED  BY <2>2, <2>3, <3>1, <3>2, <3>3, <3>4 DEF SinkInv, SinksAt
  <2>5. CASE DfaNext /\ UNCHANGED vars
    <3>1. CASE TakeBlock
      BY <2>2, <2>5, <3>1, TakeSinksInOrder
    <3>2. CASE Instruction
      BY <2>2, <2>5, <3>2, InstructionSinksInOrder
    <3>3. CASE FinishBlock
      BY <2>2, <2>5, <3>3, FinishSinksInOrder
    <3>4. CASE InitWorklist \/ VisitSuccessor \/ VisitReturn
      <4>1. dfa' \in {"order", "next"} /\ (dfa' = "next" => VisitReturn)
        BY <3>4 DEF InitWorklist, VisitSuccessor, VisitReturn, VisitBlock
      <4>2. dfa' = "next" => Internal \subseteq Listed'
        BY <2>2, <2>5, <4>1, OrderComplete
      <4>. QED  BY <2>3, <4>1, <4>2 DEF SinkInv
    <3>5. CASE Finish \/ Overflow
      <4>1. UNCHANGED <<sinks, worklist>> /\ dfa = "next" /\ dfa' \in {"done", "overflow"}
        BY <3>5 DEF Finish, Overflow, flow
      <4>2. Listed' = Listed /\ \A b : ~Under(b)
        BY <4>1 DEF Listed, Under
      <4>3. \A b : SinksEnd(b) => SinksEnd(b)'
        BY <2>1, <4>1, SinksKept
      <4>. QED  BY <2>2, <2>3, <4>1, <4>2, <4>3 DEF SinkInv
    <3>6. CASE InstructionThrows
      BY <3>6 DEF InstructionThrows, SinkInv
    <3>. QED  BY <2>5, <3>1, <3>2, <3>3, <3>4, <3>5, <3>6 DEF DfaNext
  <2>. QED  BY <1>2, <2>4, <2>5
<1>. QED  BY <1>1, <1>2, StepKinds DEF DInv

(* In a function that ends well the sinks of a block are in the end its    *)
(* stores and branches, each once and in the order of the code, and after  *)
(* them the return values, however often the block was analysed.           *)
THEOREM SinksComeInOrder == FunctionSpec => [](WellEnded => SinksInOrder)
<1>1. FunctionInit => (WellEnded => SinkInv)
  BY DEF FunctionInit, DfaInit, SinkInv
<1>2. ASSUME FreshInv, SinkInv PROVE SinksInOrder
  <2>1. dfa = "done" => Listed = {} /\ \A b : ~Under(b)
    BY <1>2 DEF FreshInv, Listed, Under
  <2>. QED  BY <1>2, <2>1 DEF SinkInv, SinksInOrder
<1>. QED  BY <1>1, <1>2, FlowKept, StepSinkInv, PTL DEF FlowInv, FunctionSpec

-----------------------------------------------------------------------------
(* What has been analysed.                                                 *)

(* The block under analysis has met supported instructions only, and so has *)
(* one that need not be analysed any more.                                 *)
AllSupported(b, last) == \A p \in blocks[b].start..last : ops[p].supported
SupportInv ==
    /\ dfa = "block" => AllSupported(current.block, current.pc - 1)
    /\ dfa \in {"next", "block", "done", "overflow"} =>
          \A b \in Internal : b \in Listed \/ Under(b) \/ AllSupported(b, blocks[b].end)

LEMMA TakeSupports ==
    ASSUME GraphInv, DInv, SupportInv, UNCHANGED vars, TakeBlock
    PROVE  SupportInv'
<1>1. PICK b : b = Head(worklist)
  OBVIOUS
<1>2. /\ dfa = "next" /\ dfa' = "block" /\ Fixed /\ b \in Internal
      /\ current'.block = b /\ current'.pc = blocks[b].start /\ blocks[b].start \in Nat
  BY <1>1, TakeBlockEffect, GraphFacts DEF TakeBlock, vars, Fixed
<1>3. AllSupported(current.block, current.pc - 1)'
  <2>1. blocks[b].start..(blocks[b].start - 1) = {}
    BY <1>2
  <2>. QED  BY <1>2, <2>1 DEF AllSupported, Fixed
<1>4. ASSUME NEW c \in Internal, c \notin Listed', ~Under(c)'
      PROVE  AllSupported(c, blocks[c].end)'
  <2>1. c # b /\ ~Under(c)
    BY <1>2, <1>4 DEF Under
  <2>2. c \notin Listed
    BY <1>1, <1>4, <2>1, TakenListed
  <2>. QED  BY <1>2, <2>1, <2>2 DEF SupportInv, AllSupported, Fixed
<1>. QED  BY <1>2, <1>3, <1>4, FixedFacts DEF SupportInv

LEMMA InstructionSupports ==
    ASSUME GraphInv, DInv, SupportInv, UNCHANGED vars, Instruction
    PROVE  SupportInv'
<1>1. PICK b, pc : b = current.block /\ pc = current.pc
  OBVIOUS
<1>2. /\ dfa = "block" /\ dfa' = "block" /\ Fixed /\ worklist' = worklist
      /\ current'.pc = pc + 1 /\ current'.block = b /\ ops[pc].supported
      /\ b \in Internal /\ pc \in blocks[b].start..(blocks[b].end + 1)
  BY <1>1 DEF Instruction, DInv, vars, Fixed
<1>3. pc \in Nat /\ blocks[b].start \in Nat
  BY <1>2, GraphFacts
<1>4. AllSupported(b, pc)
  <2>1. \A p \in blocks[b].start..pc : p = pc \/ p \in blocks[b].start..(pc - 1)
    BY <1>3
  <2>. QED  BY <1>1, <1>2, <2>1 DEF SupportInv, AllSupported
<1>5. AllSupported(current.block, current.pc - 1)'
  <2>1. current'.pc - 1 = pc
    BY <1>2, <1>3
  <2>. QED  BY <1>2, <1>4, <2>1 DEF AllSupported, Fixed
<1>6. Listed' = Listed /\ \A c : Under(c)' <=> Under(c)
  BY <1>1, <1>2 DEF Listed, Under
<1>. QED  BY <1>2, <1>5, <1>6, FixedFacts DEF SupportInv, AllSupported, Fixed

LEMMA FinishSupports ==
    ASSUME GraphInv, DInv, SupportInv, UNCHANGED vars, FinishBlock
    PROVE  SupportInv'
<1>1. PICK b : b = current.block
  OBVIOUS
<1>2. /\ dfa = "block" /\ dfa' = "next" /\ Fixed /\ b \in Internal
      /\ worklist' = worklist \/ worklist' = PushSuccessors(b)
  BY <1>1 DEF FinishBlock, vars, Fixed, DInv
<1>3. current.pc - 1 = blocks[b].end
  <2>1. current.pc > blocks[b].end /\ current.pc \in blocks[b].start..(blocks[b].end + 1)
    BY <1>1, <1>2 DEF FinishBlock, DInv
  <2>2. blocks[b].start \in Nat /\ blocks[b].end \in Nat
    BY <1>2, GraphFacts
  <2>. QED  BY <2>1, <2>2
<1>4. Listed \subseteq Listed'
  BY <1>2, FinishListed
<1>5. ASSUME NEW c \in Internal, c \notin Listed' PROVE AllSupported(c, blocks[c].end)
  BY <1>1, <1>2, <1>3, <1>4, <1>5 DEF SupportInv, Under
<1>. QED  BY <1>2, <1>5, FixedFacts DEF SupportInv, AllSupported, Fixed

LEMMA StepSupports ==
    GraphInv /\ DInv /\ FlowInv /\ (WellEnded => SupportInv) /\ [FunctionNext]_allVars
        => (WellEnded => SupportInv)'
<1>. SUFFICES ASSUME GraphInv, DInv, FlowInv, WellEnded => SupportInv, [FunctionNext]_allVars,
                     WellEnded'
              PROVE  SupportInv'
  OBVIOUS
<1>1. CASE dfa = "idle" /\ UNCHANGED dfaVars /\ [Next]_vars
  BY <1>1 DEF SupportInv, dfaVars
<1>2. CASE \/ UNCHANGED allVars
           \/ DfaNext /\ UNCHANGED vars
  <2>1. code' = code /\ Fixed
    BY <1>2 DEF allVars, dfaVars, vars, DfaNext, InitWorklist, VisitSuccessor, VisitReturn,
                TakeBlock, Instruction, InstructionThrows, FinishBlock, Finish, Overflow, Fixed
  <2>2. FreshInv /\ SupportInv
    BY <2>1, ClosureKept DEF WellEnded, FlowInv
  <2>3. Internal' = Internal
    BY <2>1, FixedFacts
  <2>4. CASE UNCHANGED allVars
    <3>1. UNCHANGED <<worklist, current, dfa>>
      BY <2>4 DEF allVars, dfaVars
    <3>2. Listed' = Listed /\ \A b : Under(b)' <=> Under(b)
      BY <3>1 DEF Listed, Under
    <3>. QED  BY <2>1, <2>2, <2>3, <3>1, <3>2 DEF SupportInv, AllSupported, Fixed
  <2>5. CASE DfaNext /\ UNCHANGED vars
    <3>1. CASE TakeBlock
      BY <2>2, <2>5, <3>1, TakeSupports
    <3>2. CASE Instruction
      BY <2>2, <2>5, <3>2, InstructionSupports
    <3>3. CASE FinishBlock
      BY <2>2, <2>5, <3>3, FinishSupports
    <3>4. CASE InitWorklist \/ VisitSuccessor \/ VisitReturn
      <4>1. dfa' \in {"order", "next"} /\ (dfa' = "next" => VisitReturn)
        BY <3>4 DEF InitWorklist, VisitSuccessor, VisitReturn, VisitBlock
      <4>2. dfa' = "next" => Internal \subseteq Listed'
        BY <2>2, <2>5, <4>1, OrderComplete
      <4>. QED  BY <2>3, <4>1, <4>2 DEF SupportInv
    <3>5. CASE Finish \/ Overflow
      <4>1. UNCHANGED worklist /\ dfa = "next" /\ dfa' \in {"done", "overflow"}
        BY <3>5 DEF Finish, Overflow
      <4>2. Listed' = Listed /\ \A b : ~Under(b)
        BY <4>1 DEF Listed, Under
      <4>. QED  BY <2>1, <2>2, <2>3, <4>1, <4>2 DEF SupportInv, AllSupported, Fixed
    <3>6. CASE InstructionThrows
      BY <3>6 DEF InstructionThrows, SupportInv
    <3>. QED  BY <2>5, <3>1, <3>2, <3>3, <3>4, <3>5, <3>6 DEF DfaNext
  <2>. QED  BY <1>2, <2>4, <2>5
<1>. QED  BY <1>1, <1>2, StepKinds DEF DInv

-----------------------------------------------------------------------------
(* What a straight function computes: where the value of a register comes  *)
(* from, read from its instructions.                                       *)

(* The node of a register at position p: there is one pass for each block. *)
NodeAt(c, kind, p, r) == [kind |-> kind, at |-> p, reg |-> r, pass |-> Calls(c, p) + 1]

(* The instructions that change what is known of r, the last of them before *)
(* position p, and what they leave.                                        *)
Writes(c, o, p, r) ==
    (CallIn(c, p) /\ r \in DefinedByCall \cup KilledByCall) \/ r \in o[p].defs
Lasts(c, o, p, r) ==
    {q \in 0..(p - 1) : /\ Writes(c, o, q, r)
                        /\ \A x \in (q + 1)..(p - 1) : ~Writes(c, o, x, r)}
Left(c, q, r) ==
    IF CallIn(c, q) /\ r \in DefinedByCall THEN {NodeAt(c, "callReturn", q, r)}
    ELSE IF CallIn(c, q) /\ r \in KilledByCall THEN {} ELSE {NodeAt(c, "result", q, r)}
Holds(c, o, p, r) == UNION {Left(c, q, r) : q \in Lasts(c, o, p, r)}

(* What the instruction at p uses for r, and for all that it reads.        *)
UseOf(c, o, p, r) ==
    IF Holds(c, o, p, r) = {} THEN NodeAt(c, "input", p, r)
    ELSE CHOOSE n \in Holds(c, o, p, r) : TRUE
UsesOf(c, o, p) == {UseOf(c, o, p, r) : r \in o[p].uses}

(* The sinks after n calls that are before position p, and the values that *)
(* are returned.                                                           *)
Numbers == [k \in 1..Length |-> k - 1]
Ends(c, o, n, p) ==
    {q \in Positions : q < p /\ (o[q].store \/ IsBranch(c[q])) /\ Calls(c, q) = n}
SinksOf(c, o, n, p) ==
    LET places == Sublist(Numbers, Ends(c, o, n, p))
    IN  [k \in DOMAIN places |->
            [kind |-> "sink", at |-> places[k], inputs |-> UsesOf(c, o, places[k])]]
ReturnsOf(c, o) ==
    LET regs == Sublist(SetToSeq(DefinedByCall),
                        {r \in DefinedByCall : Holds(c, o, Length, r) # {}})
    IN  [k \in DOMAIN regs |-> [kind |-> "return", at |-> Length - 1,
                                inputs |-> {UseOf(c, o, Length, regs[k])}]]
SinksAfter(c, o, n) ==
    SinksOf(c, o, n, Length) \o (IF n = Calls(c, Length) THEN ReturnsOf(c, o) ELSE <<>>)

(* A variable node of it: no phi, and its inputs are what its instruction  *)
(* uses.                                                                   *)
Fits(c, o, m, used) ==
    /\ m.kind # "phi" /\ m = NodeAt(c, m.kind, m.at, m.reg) /\ m.at \in 0..Length
    /\ m.kind # "input" => m.at \in Positions /\ used = UsesOf(c, o, m.at)

LEMMA LastsNext ==
    ASSUME NEW c, NEW o, NEW p \in Nat, NEW r
    PROVE  /\ Lasts(c, o, 0, r) = {}
           /\ Writes(c, o, p, r) => Lasts(c, o, p + 1, r) = {p}
           /\ ~Writes(c, o, p, r) => Lasts(c, o, p + 1, r) = Lasts(c, o, p, r)
<1>1. Lasts(c, o, 0, r) = {}
  BY DEF Lasts
<1>2. (p + 1) - 1 = p /\ 0..p = 0..(p - 1) \cup {p} /\ p \notin 0..(p - 1)
  OBVIOUS
<1>3. Lasts(c, o, p + 1, r) =
         {q \in 0..p : Writes(c, o, q, r) /\ \A x \in (q + 1)..p : ~Writes(c, o, x, r)}
  BY <1>2 DEF Lasts
<1>4. (p + 1)..p = {}
  OBVIOUS
<1>5. \A q \in 0..(p - 1) : (q + 1)..p = (q + 1)..(p - 1) \cup {p}
  OBVIOUS
<1>6. CASE Writes(c, o, p, r)
  <2>1. \A q \in 0..(p - 1) : p \in (q + 1)..p
    OBVIOUS
  <2>2. Writes(c, o, p, r) /\ \A x \in (p + 1)..p : ~Writes(c, o, x, r)
    BY <1>4, <1>6
  <2>3. \A q \in 0..p : (\A x \in (q + 1)..p : ~Writes(c, o, x, r)) <=> q = p
    BY <1>2, <1>6, <2>1, <2>2
  <2>4. p \in 0..p
    OBVIOUS
  <2>5. Lasts(c, o, p + 1, r) = {p}
    BY <1>3, <2>2, <2>3, <2>4
  <2>. QED  BY <1>1, <1>6, <2>5
<1>7. CASE ~Writes(c, o, p, r)
  BY <1>2, <1>3, <1>5, <1>7 DEF Lasts
<1>. QED  BY <1>1, <1>6, <1>7

LEMMA HoldsNext ==
    ASSUME NEW c, NEW o, NEW p \in Nat, NEW r
    PROVE  /\ Holds(c, o, 0, r) = {}
           /\ Holds(c, o, p + 1, r) =
                 IF Writes(c, o, p, r) THEN Left(c, p, r) ELSE Holds(c, o, p, r)
<1>3. Holds(c, o, 0, r) = {}
  <2>1. Lasts(c, o, 0, r) = {}
    BY LastsNext
  <2>. QED  BY <2>1 DEF Holds
<1>1. CASE Writes(c, o, p, r)
  <2>1. Lasts(c, o, p + 1, r) = {p}
    BY <1>1, LastsNext
  <2>. QED  BY <1>1, <1>3, <2>1 DEF Holds
<1>2. CASE ~Writes(c, o, p, r)
  <2>1. Lasts(c, o, p + 1, r) = Lasts(c, o, p, r)
    BY <1>2, LastsNext
  <2>. QED  BY <1>2, <1>3, <2>1 DEF Holds
<1>. QED  BY <1>1, <1>2

(* A register holds one node or none.                                      *)
HeldNode(c, p, r, n) ==
    /\ n.kind \in {"result", "callReturn"} /\ n.at \in 0..(p - 1) /\ n.reg = r
    /\ n = NodeAt(c, n.kind, n.at, r)
LEMMA HoldsOne ==
    ASSUME NEW c, NEW o, NEW p \in Nat, NEW r
    PROVE  Holds(c, o, p, r) = {}
              \/ \E n : HeldNode(c, p, r, n) /\ Holds(c, o, p, r) = {n}
<1>1. \A q1, q2 \in Lasts(c, o, p, r) : q1 = q2
  <2>. SUFFICES ASSUME NEW q1 \in Lasts(c, o, p, r), NEW q2 \in Lasts(c, o, p, r), q1 < q2
                PROVE  FALSE
    BY DEF Lasts
  <2>1. q2 \in (q1 + 1)..(p - 1) /\ Writes(c, o, q2, r)
    BY DEF Lasts
  <2>. QED  BY <2>1 DEF Lasts
<1>2. CASE Lasts(c, o, p, r) = {}
  BY <1>2 DEF Holds
<1>3. CASE Lasts(c, o, p, r) # {}
  <2>1. PICK q : q \in Lasts(c, o, p, r)
    BY <1>3
  <2>2. Lasts(c, o, p, r) = {q} /\ q \in 0..(p - 1)
    BY <1>1, <2>1 DEF Lasts
  <2>3. Holds(c, o, p, r) = Left(c, q, r)
    BY <2>2 DEF Holds
  <2>4. \A k \in {"result", "callReturn"} : HeldNode(c, p, r, NodeAt(c, k, q, r))
    BY <2>2 DEF HeldNode, NodeAt
  <2>5. \/ Left(c, q, r) = {} \/ Left(c, q, r) = {NodeAt(c, "callReturn", q, r)}
        \/ Left(c, q, r) = {NodeAt(c, "result", q, r)}
    BY DEF Left
  <2>. QED  BY <2>3, <2>4, <2>5
<1>. QED  BY <1>2, <1>3

LEMMA UseIs ==
    ASSUME NEW c, NEW o, NEW p \in Nat, NEW r
    PROVE  \/ /\ Holds(c, o, p, r) = {}
              /\ UseOf(c, o, p, r) = NodeAt(c, "input", p, r)
           \/ /\ Holds(c, o, p, r) = {UseOf(c, o, p, r)}
              /\ HeldNode(c, p, r, UseOf(c, o, p, r))
<1>1. CASE Holds(c, o, p, r) = {}
  BY <1>1 DEF UseOf
<1>2. CASE \E n : HeldNode(c, p, r, n) /\ Holds(c, o, p, r) = {n}
  <2>1. PICK n : HeldNode(c, p, r, n) /\ Holds(c, o, p, r) = {n}
    BY <1>2
  <2>2. (CHOOSE m \in {n} : TRUE) = n
    OBVIOUS
  <2>3. UseOf(c, o, p, r) = n
    BY <2>1, <2>2 DEF UseOf
  <2>. QED  BY <2>1, <2>3
<1>. QED  BY <1>1, <1>2, HoldsOne

(* The places of the sinks: a new one is put at the end.                   *)
LEMMA NumbersAre == Numbers \in Seq(Nat) /\ Len(Numbers) = Length
                    /\ \A k \in 1..Length : Numbers[k] = k - 1
<1>1. Numbers \in [1..Length -> Nat]
  BY LengthAssumption DEF Numbers
<1>. QED  BY <1>1, LengthAssumption, SeqDef, LenProperties DEF Numbers

LEMMA NumbersAppend ==
    ASSUME NEW p \in Positions, NEW S, S \subseteq 0..(p - 1)
    PROVE  /\ Sublist(Numbers, S) \in Seq(S)
           /\ Sublist(Numbers, S \cup {p}) = Append(Sublist(Numbers, S), p)
<1>1. PICK n, s, T : n = Length /\ s = Numbers /\ T = S \cup {p}
  OBVIOUS
<1>2. n \in Nat /\ s \in Seq(Nat) /\ Len(s) = n /\ p \in 0..(n - 1) /\ p \in Nat
      /\ \A k \in 1..n : s[k] = k - 1
  BY <1>1, NumbersAre, LengthAssumption DEF Positions
<1>3. PICK f, g : f = (CHOOSE h : Picks(s, S, h, n)) /\ g = (CHOOSE h : Picks(s, T, h, n))
  OBVIOUS
<1>4. Picks(s, S, f, n) /\ Picks(s, T, g, n)
  BY <1>2, <1>3, PicksExist
<1>5. Sublist(s, S) = f[n] /\ Sublist(s, T) = g[n]
  BY <1>2, <1>3 DEF Sublist, Picks, Picked
<1>6. \A k \in 0..n : f[k] = Picked(s, S, f, k) /\ g[k] = Picked(s, T, g, k)
  BY <1>4 DEF Picks
<1> DEFINE Good(k) == g[k] = IF k <= p THEN f[k] ELSE Append(f[k], p)
           B == {k \in Nat : k <= n /\ ~Good(k)}
<1>7. B = {}
  <2>. SUFFICES ASSUME B # {} PROVE FALSE
    OBVIOUS
  <2>1. PICK k \in B : \A i \in B : k <= i
    BY LeastExists
  <2>2. k \in 0..n /\ k \in Nat
    BY <1>2, <2>1
  <2>3. CASE k = 0
    BY <1>2, <1>6, <2>1, <2>2, <2>3 DEF Picked
  <2>4. CASE k # 0
    <3>1. k - 1 \in Nat /\ k - 1 <= n /\ ~(k <= k - 1) /\ k \in 1..n
      BY <1>2, <2>2, <2>4
    <3>0. Good(k - 1)
      <4> HIDE DEF Good
      <4>. QED  BY <2>1, <3>1
    <3>2. g[k - 1] = IF k - 1 <= p THEN f[k - 1] ELSE Append(f[k - 1], p)
      BY <3>0
    <3>3. s[k] = k - 1
      BY <1>2, <3>1
    <3>4. f[k] = IF k - 1 \in S THEN Append(f[k - 1], k - 1) ELSE f[k - 1]
      BY <1>6, <2>2, <2>4, <3>3 DEF Picked
    <3>5. g[k] = IF k - 1 \in T THEN Append(g[k - 1], k - 1) ELSE g[k - 1]
      BY <1>6, <2>2, <2>4, <3>3 DEF Picked
    <3>6. (k - 1 \in T <=> k - 1 \in S \/ k - 1 = p) /\ (k - 1 \in S => k - 1 < p)
      BY <1>1, <1>2, <2>2
    <3>7. Good(k)
      <4>1. CASE k - 1 < p
        <5>1. k <= p /\ k - 1 # p /\ k - 1 <= p
          BY <1>2, <2>2, <4>1
        <5>. QED  BY <3>2, <3>4, <3>5, <3>6, <5>1
      <4>2. CASE k - 1 = p
        <5>1. ~(k <= p) /\ k - 1 \notin S /\ k - 1 \in T /\ k - 1 <= p
          BY <1>2, <2>2, <3>6, <4>2
        <5>. QED  BY <3>2, <3>4, <3>5, <4>2, <5>1
      <4>3. CASE k - 1 > p
        <5>1. ~(k <= p) /\ k - 1 \notin S /\ k - 1 \notin T /\ ~(k - 1 <= p)
          BY <1>2, <2>2, <3>6, <4>3
        <5>. QED  BY <3>2, <3>4, <3>5, <5>1
      <4>. QED  BY <1>2, <2>2, <4>1, <4>2, <4>3
    <3>. QED  BY <2>1, <3>7
  <2>. QED  BY <2>3, <2>4
<1>8. Good(n)
  BY <1>2, <1>7
<1>9. ~(n <= p)
  BY <1>2
<1>10. Nat \cap S = S
  <2>1. \A x \in 0..(p - 1) : x \in Nat
    OBVIOUS
  <2>. QED  BY <2>1
<1>. QED  BY <1>1, <1>2, <1>5, <1>8, <1>9, <1>10, SublistHolds

LEMMA NumbersNone == Sublist(Numbers, {}) = <<>>
<1>1. Sublist(Numbers, {}) \in Seq(Nat \cap {})
  BY NumbersAre, SublistHolds
<1>. QED  BY <1>1, ElementOfSeq, LenProperties, EmptySeq

SinkAt(c, o, q) == [kind |-> "sink", at |-> q, inputs |-> UsesOf(c, o, q)]
LEMMA SinksNext ==
    ASSUME NEW c, NEW o, NEW n, NEW p \in Positions
    PROVE  /\ SinksOf(c, o, n, p) = <<>> \/ \E q \in Ends(c, o, n, p) : TRUE
           /\ SinksOf(c, o, n, p + 1) =
                 IF (o[p].store \/ IsBranch(c[p])) /\ Calls(c, p) = n
                 THEN Append(SinksOf(c, o, n, p), SinkAt(c, o, p)) ELSE SinksOf(c, o, n, p)
<1>1. PICK S, P, Q, s : /\ S = Ends(c, o, n, p) /\ P = Sublist(Numbers, S)
                        /\ Q = Sublist(Numbers, S \cup {p}) /\ s = SinksOf(c, o, n, p)
  OBVIOUS
<1>2. S \subseteq 0..(p - 1) /\ p \in Nat
  BY <1>1, LengthAssumption DEF Ends, Positions
<1>3. P \in Seq(S) /\ Q = Append(P, p)
  BY <1>1, <1>2, NumbersAppend
<1>4. PICK m : m = Len(P) /\ m \in Nat /\ DOMAIN P = 1..m /\ DOMAIN Q = 1..(m + 1)
               /\ (\A k \in 1..m : Q[k] = P[k]) /\ Q[m + 1] = p
  <2>1. P \in Seq(S \cup {p})
    BY <1>3, LenProperties, ElementOfSeq, SeqDef
  <2>. QED  BY <1>3, <2>1, AppendProperties, LenProperties
<1>5. s = [k \in 1..m |-> SinkAt(c, o, P[k])]
  BY <1>1, <1>4 DEF SinksOf, SinkAt
<1>6. s = <<>> \/ S # {}
  <2>1. S = {} => m = 0
    BY <1>3, <1>4, ElementOfSeq
  <2>2. m = 0 => s = <<>>
    BY <1>5
  <2>. QED  BY <2>1, <2>2
<1>7. CASE (o[p].store \/ IsBranch(c[p])) /\ Calls(c, p) = n
  <2>1. Ends(c, o, n, p + 1) = S \cup {p}
    BY <1>1, <1>2, <1>7, LengthAssumption DEF Ends, Positions
  <2>2. SinksOf(c, o, n, p + 1) = [k \in 1..(m + 1) |-> SinkAt(c, o, Q[k])]
    BY <1>1, <1>4, <2>1 DEF SinksOf, SinkAt
  <2>0. PICK W : W = {SinkAt(c, o, P[k]) : k \in 1..m} \cup {SinkAt(c, o, p)}
    OBVIOUS
  <2>3. s \in Seq(W) /\ Len(s) = m /\ SinkAt(c, o, p) \in W
    BY <1>4, <1>5, <2>0, SeqDef, LenProperties
  <2>4. PICK t, x : t = Append(s, x) /\ x = SinkAt(c, o, p)
    OBVIOUS
  <2>5. /\ DOMAIN t = 1..(m + 1) /\ t = [k \in 1..(m + 1) |-> t[k]]
        /\ (\A k \in 1..m : t[k] = s[k]) /\ t[m + 1] = x
    <3>1. t \in Seq(W) /\ Len(t) = m + 1
      BY <2>3, <2>4, AppendProperties
    <3>2. t \in [1..(m + 1) -> W]
      BY <3>1, LenProperties
    <3>3. DOMAIN t = 1..(m + 1) /\ t = [k \in 1..(m + 1) |-> t[k]]
      BY <1>4, <3>2
    <3>4. (\A k \in 1..m : t[k] = s[k]) /\ t[m + 1] = x
      BY <2>3, <2>4, AppendProperties
    <3>. QED  BY <3>3, <3>4
  <2>6. \A k \in 1..(m + 1) : t[k] = SinkAt(c, o, Q[k])
    <3>1. \A k \in 1..(m + 1) : k \in 1..m \/ k = m + 1
      BY <1>4
    <3>. QED  BY <1>4, <1>5, <2>4, <2>5, <3>1
  <2>. QED  BY <1>1, <1>6, <1>7, <2>2, <2>4, <2>5, <2>6
<1>8. CASE ~((o[p].store \/ IsBranch(c[p])) /\ Calls(c, p) = n)
  <2>1. Ends(c, o, n, p + 1) = S
    BY <1>1, <1>2, <1>8 DEF Ends, Positions
  <2>2. SinksOf(c, o, n, p + 1) = s
    BY <1>1, <2>1 DEF SinksOf
  <2>. QED  BY <1>1, <1>6, <1>8, <2>2
<1>. QED  BY <1>7, <1>8

(* Every number of a block is an odd one or the next.                      *)
LEMMA Halves == ASSUME NEW x \in Nat \ {0} PROVE \E m \in Nat : x = 2 * m + 1 \/ x = 2 * m + 2
<1>1. (x - 1) \div 2 \in Nat /\ (x = 2 * ((x - 1) \div 2) + 1 \/ x = 2 * ((x - 1) \div 2) + 2)
  OBVIOUS
<1>. QED  BY <1>1

-----------------------------------------------------------------------------
(* The graph under the analysis.                                           *)

LEMMA SuccsPreds ==
    ASSUME GraphInv, NEW b \in DOMAIN blocks, NEW c \in Internal, c \in SuccsOf(b)
    PROVE  b \in Preds(c)
<1>1. psTable[b].succ \in Seq(DOMAIN blocks) /\ psTable[c].pred \in Seq(DOMAIN blocks)
      /\ b \in DOMAIN psTable /\ c \in DOMAIN psTable
  BY GraphFacts, SuccsAre DEF GraphInv
<1>2. PICK m, n : m = Len(psTable[b].succ) /\ n = Len(psTable[c].pred)
  OBVIOUS
<1>3. DOMAIN psTable[b].succ = 1..m /\ DOMAIN psTable[c].pred = 1..n /\ m \in Nat /\ n \in Nat
  BY <1>1, <1>2, LenProperties
<1> DEFINE A == {k \in DOMAIN psTable[b].succ : psTable[b].succ[k] = c}
           B == {k \in DOMAIN psTable[c].pred : psTable[c].pred[k] = b}
<1>4. Cardinality(A) = Cardinality(B)
  BY <1>1 DEF GraphInv, EInv, EdgesMirrored, Occurrences
<1>5. IsFiniteSet(1..m) /\ IsFiniteSet(1..n)
  BY <1>3, FS_Interval
<1>6. A \subseteq 1..m /\ B \subseteq 1..n
  BY <1>3
<1>7. A # {}
  BY DEF SuccsOf
<1>8. B # {} => b \in Preds(c)
  BY DEF Preds
<1> HIDE DEF A, B
<1>9. IsFiniteSet(A) /\ IsFiniteSet(B)
  BY <1>5, <1>6, FS_Subset
<1>. QED  BY <1>4, <1>7, <1>8, <1>9, FS_EmptySet

(* Block 2n + 1 has one predecessor, unless it is the first.               *)
LEMMA LinePreds ==
    ASSUME GraphInv, ChainGraph, NEW n \in 0..Calls(code, Length), NEW b, b = 2 * n + 1
    PROVE  Preds(b) = IF n = 0 THEN {} ELSE {b - 2}
<1>1. PICK K : K = Calls(code, Length)
  OBVIOUS
<1>2. K \in Nat /\ n \in Nat
  BY <1>1, CallsCount, LengthAssumption
<1>3. Len(blocks) = 2 * K + 2 /\ DOMAIN blocks = 1..Len(blocks) /\ \A m \in 0..K : ChainBlock(m)
  BY <1>1, GraphFacts DEF ChainGraph
<1>4. b \in Internal
  BY <1>1, <1>3 DEF ChainBlock
<1>5. ASSUME NEW x \in Preds(b) PROVE n # 0 /\ x = b - 2
  <2>1. x \in DOMAIN blocks
    <3>1. psTable[b].pred \in Seq(DOMAIN blocks)
      BY <1>4, GraphFacts
    <3>. QED  BY <3>1, LenProperties, ElementOfSeq DEF Preds
  <2>2. b \in SuccsOf(x)
    BY <1>4, <2>1, PredsSuccs
  <2>3. PICK m \in Nat : x = 2 * m + 1 \/ x = 2 * m + 2
    <3>1. x \in Nat \ {0}
      BY <1>2, <1>3, <2>1
    <3>. QED  BY <3>1, Halves
  <2>4. m \in 0..K
    BY <1>2, <1>3, <2>1, <2>3
  <2>5. PICK i : i = 2 * m + 1
    OBVIOUS
  <2>6. /\ psTable[i + 1].succ = <<>>
        /\ psTable[i].succ = <<i + 1>> \/ psTable[i].succ = <<i + 1, i + 2>>
    BY <1>1, <1>3, <2>4, <2>5 DEF ChainBlock
  <2>7. x = i \/ x = i + 1
    BY <2>3, <2>5
  <2>8. b = i + 1 \/ b = i + 2
    <3>1. SuccsOf(i + 1) = {}
      BY <2>6 DEF SuccsOf
    <3>2. SuccsOf(i) \subseteq {i + 1, i + 2}
      BY <2>6 DEF SuccsOf
    <3>. QED  BY <2>2, <2>7, <3>1, <3>2
  <2>9. x = i
    <3>1. SuccsOf(i + 1) = {}
      BY <2>6 DEF SuccsOf
    <3>. QED  BY <2>2, <2>7, <3>1
  <2>. QED  BY <1>2, <2>5, <2>8, <2>9
<1>6. ASSUME n # 0 PROVE b - 2 \in Preds(b)
  <2>1. n - 1 \in 0..K /\ n - 1 # K /\ 2 * (n - 1) + 1 = b - 2 /\ b - 2 + 2 = b
    BY <1>1, <1>2, <1>6
  <2>2. PICK i : i = 2 * (n - 1) + 1
    OBVIOUS
  <2>3. psTable[i].succ = <<i + 1, i + 2>> /\ i \in Internal
    BY <1>1, <1>3, <2>1, <2>2 DEF ChainBlock
  <2>4. i + 2 \in SuccsOf(i)
    BY <2>3 DEF SuccsOf
  <2>5. i = b - 2 /\ i + 2 = b /\ i \in DOMAIN blocks
    BY <2>1, <2>2, <2>3 DEF Internal
  <2>. QED  BY <1>4, <2>4, <2>5, SuccsPreds
<1>7. CASE n = 0
  BY <1>5, <1>7
<1>8. CASE n # 0
  BY <1>5, <1>6, <1>8
<1>. QED  BY <1>7, <1>8

(* The branch of a call is the last of its block, and comes with the flag. *)
LEMMA LineCall ==
    ASSUME ChainGraph, NEW n \in 0..Calls(code, Length), NEW b, b = 2 * n + 1,
           NEW p \in Positions, blocks[b].start <= p, p <= blocks[b].end
    PROVE  CallIn(code, p) <=> blocks[b].endsInCall /\ p = blocks[b].end
<1>1. PICK K, e : K = Calls(code, Length) /\ e = blocks[b].end
  OBVIOUS
<1>2. K \in Nat /\ n \in Nat /\ p \in Nat /\ p < Length /\ Length \in Nat
  BY <1>1, CallsCount, LengthAssumption DEF Positions
<1>3. ChainBlock(n) /\ ChainBlock(K)
  BY <1>1, <1>2 DEF ChainGraph
<1>4. /\ blocks[b].start \in Nat /\ e \in Nat /\ e \in Positions
      /\ \A q \in Positions : blocks[b].start <= q /\ q <= e <=> Calls(code, q) = n
      /\ n # K => CallIn(code, e) /\ blocks[b].endsInCall
      /\ n = K => ~blocks[b].endsInCall /\ e + 1 = Length
  BY <1>1, <1>3 DEF ChainBlock
<1>5. Calls(code, p) = n
  BY <1>1, <1>4
<1>6. ASSUME CallIn(code, p) PROVE n # K /\ p = e
  <2>1. Calls(code, p + 1) = n + 1
    BY <1>2, <1>5, <1>6, CallsCount
  <2>2. n # K
    <3>1. Calls(code, p + 1) <= Calls(code, Length)
      BY <1>2, CallsCount
    <3>. QED  BY <1>1, <1>2, <2>1, <3>1
  <2>3. p = e
    <3>. SUFFICES ASSUME p # e PROVE FALSE
      OBVIOUS
    <3>1. p + 1 \in Positions /\ blocks[b].start <= p + 1 /\ p + 1 <= e
      BY <1>1, <1>2, <1>4 DEF Positions
    <3>. QED  BY <1>2, <1>4, <2>1, <3>1
  <2>. QED  BY <2>2, <2>3
<1>. QED  BY <1>1, <1>4, <1>6


-----------------------------------------------------------------------------
(* The analysis of a straight function.                                    *)

(* The order of the worklist is that of the code.                          *)
OrderLined ==
    LET w == Len(worklist)
        v == Len(visit)
        K == Calls(code, Length)
    IN  /\ w \in 1..(K + 1) /\ \A k \in 1..w : worklist[k] = 2 * k - 1
        /\ v <= w /\ \A j \in 1..v : visit[j].block = 2 * j - 1
        /\ v < w => w = K + 1
        /\ \A j \in 1..v : j < w => visit[j].seen = 2
        /\ v = w => visit[w].seen <= 1
        /\ \A b \in DOMAIN sinks : sinks[b] = <<>>

(* The blocks are taken in this order and each of them once: the one under *)
(* analysis, and those that have been analysed.                            *)
LineAt(n) ==
    /\ current.block = 2 * n + 1
    /\ \A r \in Regs : contexts[current.block][r] = Holds(code, ops, current.pc, r)
    /\ sinks[current.block] = SinksOf(code, ops, n, current.pc)
LineDone(n) ==
    LET b == 2 * n + 1
    IN  /\ \A r \in Regs : contexts[b][r] = Holds(code, ops, blocks[b].end + 1, r)
        /\ sinks[b] = SinksAfter(code, ops, n)
BlocksLined ==
    LET K == Calls(code, Length)
    IN  /\ pass \in 0..(K + 1) /\ Len(worklist) = K + 1 - pass
        /\ \A k \in 1..Len(worklist) : worklist[k] = 2 * (pass + k) - 1
        /\ \A n \in 0..K : sinks[2 * n + 2] = <<>>
        /\ dfa = "block" => pass # 0 /\ LineAt(pass - 1)
        /\ \A n \in 0..(pass - 1) : (dfa = "block" => n + 1 # pass) => LineDone(n)

Lined ==
    IsStraight(code) /\ dfa # "idle" =>
        /\ \A m \in DOMAIN inputs : Fits(code, ops, m, inputs[m])
        /\ dfa = "order" => OrderLined /\ pass = 0
        /\ dfa \in {"next", "block", "done", "overflow"} => BlocksLined

LEMMA LineFacts ==
    ASSUME GraphInv, DInv, Chained, IsStraight(code), dfa # "idle",
           NEW K, K = Calls(code, Length)
    PROVE  /\ K \in Nat /\ Length \in Nat /\ Length # 0 /\ Len(blocks) = 2 * K + 2
           /\ status = "done" /\ ChainGraph /\ WellEnded
           /\ DOMAIN contexts = 1..(2 * K + 2) /\ DOMAIN blocks = 1..(2 * K + 2)
           /\ \A n \in 0..K : ChainBlock(n) /\ 2 * n + 1 \in Internal
<1>1. status = "done" /\ DOMAIN contexts = DOMAIN blocks
  BY DEF DInv
<1>2. ChainGraph
  BY <1>1, ChainDone DEF GraphInv
<1>3. K \in Nat
  BY CallsCount, LengthAssumption
<1>4. WellEnded /\ Length # 0
  BY StraightReached DEF IsStraight
<1>. QED  BY <1>1, <1>2, <1>3, <1>4, GraphFacts, LengthAssumption DEF ChainGraph, ChainBlock

LEMMA BeginLined ==
    ASSUME GraphInv, DInv, Chained, IsStraight(code), InitWorklist, UNCHANGED vars
    PROVE  Lined'
<1>1. /\ dfa' = "order" /\ inputs' = <<>> /\ pass' = 0 /\ code' = code
      /\ worklist' = Append(<<>>, 1) /\ visit' = <<[block |-> 1, seen |-> 0]>>
      /\ sinks' = [b \in DOMAIN blocks |-> <<>>]
  BY DEF InitWorklist, VisitBlock, DInv, vars
<1>2. worklist' = <<1>>
  BY <1>1
<1>3. Len(worklist') = 1 /\ worklist'[1] = 1 /\ Len(visit') = 1
      /\ visit'[1].block = 1 /\ visit'[1].seen = 0
  BY <1>1, <1>2
<1>4. PICK K : K = Calls(code, Length) /\ K \in Nat
  BY CallsCount, LengthAssumption
<1>5. OrderLined'
  BY <1>1, <1>3, <1>4 DEF OrderLined
<1>. QED  BY <1>1, <1>5 DEF Lined

LEMMA SuccessorLined ==
    ASSUME GraphInv, DInv, Chained, IsStraight(code), Lined, VisitSuccessor, UNCHANGED vars
    PROVE  Lined'
<1>1. PICK f, v, d : f = Last(visit) /\ v = Len(visit) /\ d = [f EXCEPT !.seen = @ + 1]
  OBVIOUS
<1>2. PICK s, w, u : /\ s = psTable[f.block].succ[f.seen + 1] /\ w = Len(worklist)
                     /\ u = Append(Front(visit), d)
  OBVIOUS
<1>3. PICK K : K = Calls(code, Length)
  OBVIOUS
<1> DEFINE V == [block : Internal, seen : Nat]
<1>4. /\ visit \in Seq(V) /\ visit # <<>> /\ f \in V /\ Front(visit) \in Seq(V)
      /\ v \in DOMAIN visit /\ f = visit[v]
  <2>1. visit \in Seq(V) /\ visit # <<>>
    BY DEF VisitSuccessor, DInv
  <2> HIDE DEF V
  <2>. QED  BY <1>1, <2>1, FrontKeeps DEF Last
<1>5. v \in Nat \ {0} /\ DOMAIN visit = 1..v
  <2> HIDE DEF V
  <2>. QED  BY <1>1, <1>4, LenProperties, EmptySeq
<1>6. d \in V /\ d.block = f.block /\ d.seen = f.seen + 1 /\ f.seen \in Nat
  BY <1>1, <1>4
<1>7. /\ u \in Seq(V) /\ Len(u) = v
      /\ u[v] = d /\ \A k \in 1..(v - 1) : u[k] = visit[k]
  <2> HIDE DEF V
  <2>1. Len(Front(visit)) = v - 1 /\ \A k \in 1..(v - 1) : Front(visit)[k] = visit[k]
    <3>1. v - 1 \in Nat /\ \A k \in 1..(v - 1) : visit[k] \in V
      BY <1>1, <1>4, <1>5, ElementOfSeq
    <3>. QED  BY <1>1, <3>1, SubSeqProperties DEF Front
  <2>2. /\ u \in Seq(V) /\ Len(u) = v - 1 + 1 /\ u[v - 1 + 1] = d
        /\ \A k \in 1..(v - 1) : u[k] = Front(visit)[k]
    BY <1>2, <1>4, <1>6, <2>1, AppendProperties
  <2>3. v - 1 + 1 = v
    BY <1>5
  <2>. QED  BY <2>1, <2>2, <2>3
<1>8. /\ dfa = "order" /\ f.seen < Len(psTable[f.block].succ)
      /\ UNCHANGED <<inputs, sinks, ops, pass, code>>
      /\ \/ /\ blocks[s].type = "INTERNAL" /\ ~Contains(worklist, s)
            /\ worklist' = Append(worklist, s) /\ dfa' = "order"
            /\ visit' = Append(u, [block |-> s, seen |-> 0])
         \/ /\ ~(blocks[s].type = "INTERNAL" /\ ~Contains(worklist, s))
            /\ visit' = u /\ UNCHANGED <<worklist, dfa>>
  BY <1>1, <1>2 DEF VisitSuccessor, VisitBlock, flow, vars
<1>9. /\ K \in Nat /\ Length \in Nat /\ Len(blocks) = 2 * K + 2
      /\ DOMAIN blocks = 1..(2 * K + 2) /\ \A n \in 0..K : ChainBlock(n)
  BY <1>3, <1>8, LineFacts
<1>10. /\ OrderLined /\ pass = 0
       /\ \A m \in DOMAIN inputs : Fits(code, ops, m, inputs[m])
  BY <1>8 DEF Lined
<1>11. /\ w \in 1..(K + 1) /\ \A k \in 1..w : worklist[k] = 2 * k - 1
       /\ v <= w /\ \A j \in 1..v : visit[j].block = 2 * j - 1
       /\ v < w => w = K + 1
       /\ \A j \in 1..v : j < w => visit[j].seen = 2
       /\ v = w => visit[w].seen <= 1
       /\ \A b \in DOMAIN sinks : sinks[b] = <<>>
  BY <1>1, <1>2, <1>3, <1>10 DEF OrderLined
<1>12. PICK i : i = 2 * (v - 1) + 1
  OBVIOUS
<1>13. /\ f.block = i /\ v - 1 \in 0..K /\ i = 2 * v - 1 /\ i + 1 = 2 * v /\ i + 2 = 2 * v + 1
       /\ v \in 1..v /\ i + 1 \in DOMAIN blocks
  <2>1. v \in 1..v /\ v - 1 \in 0..K /\ i = 2 * v - 1 /\ i + 1 = 2 * v /\ i + 2 = 2 * v + 1
        /\ i + 1 \in 1..(2 * K + 2)
    BY <1>5, <1>9, <1>11, <1>12
  <2>2. f.block = 2 * v - 1
    BY <1>4, <1>11, <2>1
  <2>. QED  BY <1>9, <2>1, <2>2
<1>14. /\ i + 1 \notin Internal
       /\ v - 1 = K => psTable[i].succ = <<i + 1>>
       /\ v - 1 # K => psTable[i].succ = <<i + 1, i + 2>> /\ i + 2 \in Internal
  BY <1>3, <1>9, <1>12, <1>13 DEF ChainBlock
<1>15. /\ v - 1 = K => Len(psTable[i].succ) = 1 /\ psTable[i].succ[1] = i + 1
       /\ v - 1 # K => /\ Len(psTable[i].succ) = 2 /\ psTable[i].succ[1] = i + 1
                       /\ psTable[i].succ[2] = i + 2
  BY <1>14
<1>16. v = w /\ f.seen \in {0, 1}
  <2>1. f.seen < 2
    <3>1. Len(psTable[f.block].succ) \in {1, 2}
      BY <1>13, <1>15
    <3>2. f.seen < Len(psTable[f.block].succ) /\ f.seen \in Nat
      BY <1>6, <1>8
    <3>3. PICK m : m = Len(psTable[f.block].succ)
      OBVIOUS
    <3>4. (m = 1 \/ m = 2) /\ f.seen < m /\ f.seen \in Nat
      BY <3>1, <3>2, <3>3
    <3>. QED  BY <3>4
  <2>2. v = w
    BY <1>4, <1>5, <1>11, <2>1
  <2>. QED  BY <1>6, <2>1, <2>2
<1>17. CASE f.seen = 0
  <2>1. s = i + 1
    BY <1>2, <1>13, <1>15, <1>17
  <2>2. blocks[s].type # "INTERNAL"
    BY <1>13, <1>14, <2>1 DEF Internal
  <2>3. visit' = u /\ UNCHANGED <<worklist, dfa>>
    BY <1>8, <2>2
  <2>4. u[v].block = 2 * v - 1 /\ u[v].seen = 1
    BY <1>6, <1>7, <1>13, <1>17
  <2>5. \A j \in 1..v : u[j].block = 2 * j - 1 /\ (j < w => u[j].seen = 2)
    <3>1. \A j \in 1..v : (j \in 1..(v - 1) /\ j < v) \/ (j = v /\ ~(j < v))
      BY <1>5
    <3>2. \A j \in 1..(v - 1) : j \in 1..v
      BY <1>5
    <3>. QED  BY <1>7, <1>11, <1>16, <2>4, <3>1, <3>2
  <2>6. Len(worklist') = w /\ Len(visit') = w
    BY <1>2, <1>7, <1>16, <2>3
  <2>7. OrderLined'
    BY <1>3, <1>8, <1>11, <1>16, <2>3, <2>4, <2>5, <2>6 DEF OrderLined
  <2>. QED  BY <1>8, <1>10, <2>3, <2>7 DEF Lined
<1>18. CASE f.seen = 1
  <2>1. s = i + 2 /\ i + 2 \in Internal /\ v - 1 # K
    <3>1. v - 1 # K
      <4>. SUFFICES ASSUME v - 1 = K PROVE FALSE
        OBVIOUS
      <4>1. Len(psTable[f.block].succ) = 1
        BY <1>13, <1>15
      <4>2. 1 < Len(psTable[f.block].succ)
        BY <1>8, <1>18
      <4>. QED  BY <4>1, <4>2
    <3>. QED  BY <1>2, <1>13, <1>14, <1>15, <1>18, <3>1
  <2>2. worklist \in Seq(Internal) /\ DOMAIN worklist = 1..w
    BY <1>2, LenProperties DEF DInv, Proper
  <2>3. ~Contains(worklist, s)
    <3>1. \A k \in 1..w : worklist[k] # s
      BY <1>5, <1>11, <1>13, <1>16, <2>1
    <3>. QED  BY <1>2, <2>2, <3>1 DEF Contains
  <2>4. /\ worklist' = Append(worklist, s) /\ dfa' = "order"
        /\ visit' = Append(u, [block |-> s, seen |-> 0])
    BY <1>8, <2>1, <2>3 DEF Internal
  <2>5. /\ Len(worklist') = w + 1 /\ worklist'[w + 1] = s
        /\ \A k \in 1..w : worklist'[k] = worklist[k]
    BY <1>2, <2>1, <2>2, <2>4, AppendProperties
  <2>6. PICK g : g = [block |-> s, seen |-> 0]
    OBVIOUS
  <2>7. g \in V /\ g.block = s /\ g.seen = 0
    BY <2>1, <2>6
  <2>8. /\ Len(visit') = v + 1 /\ visit'[v + 1] = g
        /\ \A k \in 1..v : visit'[k] = u[k]
    <3> HIDE DEF V
    <3>. QED  BY <1>7, <2>4, <2>6, <2>7, AppendProperties
  <2>9. u[v].block = 2 * v - 1 /\ u[v].seen = 2
    BY <1>6, <1>7, <1>13, <1>18
  <2>10. \A j \in 1..v : u[j].block = 2 * j - 1 /\ u[j].seen = 2
    <3>1. \A j \in 1..v : (j \in 1..(v - 1) /\ j < v) \/ j = v
      BY <1>5
    <3>2. \A j \in 1..(v - 1) : j \in 1..v
      BY <1>5
    <3>. QED  BY <1>7, <1>11, <1>16, <2>9, <3>1, <3>2
  <2>11. \A j \in 1..(v + 1) : j \in 1..v \/ j = v + 1
    BY <1>5
  <2>12. s = 2 * (v + 1) - 1
    BY <1>5, <1>13, <2>1
  <2>13. ASSUME NEW j \in 1..(v + 1)
         PROVE  visit'[j].block = 2 * j - 1 /\ (j < v + 1 => visit'[j].seen = 2)
    <3>1. CASE j \in 1..v
      BY <2>8, <2>10, <3>1
    <3>2. CASE j = v + 1
      BY <1>5, <2>7, <2>8, <2>12, <3>2
    <3>. QED  BY <2>11, <3>1, <3>2
  <2>14. ASSUME NEW k \in 1..(w + 1) PROVE worklist'[k] = 2 * k - 1
    <3>1. CASE k \in 1..w
      BY <1>11, <2>5, <3>1
    <3>2. CASE k = w + 1
      BY <1>16, <2>5, <2>12, <3>2
    <3>. QED  BY <1>16, <2>11, <3>1, <3>2
  <2>17. w + 1 \in 1..(K + 1)
    BY <1>5, <1>9, <1>11, <1>13, <1>16, <2>1
  <2>15. visit'[v + 1].seen <= 1
    BY <2>7, <2>8
  <2>16. OrderLined'
    BY <1>3, <1>5, <1>8, <1>11, <1>16, <2>5, <2>8, <2>13, <2>14, <2>15, <2>17 DEF OrderLined
  <2>. QED  BY <1>8, <1>10, <2>4, <2>16 DEF Lined
<1>. QED  BY <1>16, <1>17, <1>18

LEMMA ReturnLined ==
    ASSUME GraphInv, DInv, Chained, IsStraight(code), Lined, TInv, VisitReturn, UNCHANGED vars
    PROVE  Lined'
<1>1. PICK f, v, w : f = Last(visit) /\ v = Len(visit) /\ w = Len(worklist)
  OBVIOUS
<1>3. PICK K : K = Calls(code, Length)
  OBVIOUS
<1> DEFINE V == [block : Internal, seen : Nat]
<1>4. /\ visit \in Seq(V) /\ visit # <<>> /\ f \in V /\ Front(visit) \in Seq(V)
      /\ v \in DOMAIN visit /\ f = visit[v]
  <2>1. visit \in Seq(V) /\ visit # <<>>
    BY DEF VisitReturn, DInv
  <2> HIDE DEF V
  <2>. QED  BY <1>1, <2>1, FrontKeeps DEF Last
<1>5. v \in Nat \ {0} /\ DOMAIN visit = 1..v
  <2> HIDE DEF V
  <2>. QED  BY <1>1, <1>4, LenProperties, EmptySeq
<1>6. /\ dfa = "order" /\ f.seen = Len(psTable[f.block].succ) /\ visit' = Front(visit)
      /\ dfa' = (IF visit' = <<>> THEN "next" ELSE "order")
      /\ UNCHANGED <<inputs, sinks, ops, pass, code, worklist>>
  BY <1>1 DEF VisitReturn, flow, vars
<1>7. Len(visit') = v - 1 /\ \A k \in 1..(v - 1) : visit'[k] = visit[k]
  <2> HIDE DEF V
  <2>1. v - 1 \in Nat /\ \A k \in 1..(v - 1) : visit[k] \in V
    BY <1>1, <1>4, <1>5, ElementOfSeq
  <2>. QED  BY <1>1, <1>6, <2>1, SubSeqProperties DEF Front
<1>9. /\ K \in Nat /\ Length \in Nat /\ Len(blocks) = 2 * K + 2
      /\ DOMAIN blocks = 1..(2 * K + 2) /\ \A n \in 0..K : ChainBlock(n)
      /\ DOMAIN contexts = 1..(2 * K + 2)
  BY <1>3, <1>6, LineFacts
<1>10. /\ OrderLined /\ pass = 0
       /\ \A m \in DOMAIN inputs : Fits(code, ops, m, inputs[m])
  BY <1>6 DEF Lined
<1>11. /\ w \in 1..(K + 1) /\ \A k \in 1..w : worklist[k] = 2 * k - 1
       /\ v <= w /\ \A j \in 1..v : visit[j].block = 2 * j - 1
       /\ v < w => w = K + 1
       /\ \A j \in 1..v : j < w => visit[j].seen = 2
       /\ v = w => visit[w].seen <= 1
       /\ \A b \in DOMAIN sinks : sinks[b] = <<>>
  BY <1>1, <1>3, <1>10 DEF OrderLined
<1>12. w = K + 1
  <2>. SUFFICES ASSUME w # K + 1 PROVE FALSE
    OBVIOUS
  <2>1. v = w /\ v - 1 \in 0..K /\ v - 1 # K /\ v \in 1..v
    BY <1>5, <1>9, <1>11
  <2>2. PICK i : i = 2 * (v - 1) + 1
    OBVIOUS
  <2>3. f.block = i /\ f.seen <= 1 /\ f.seen \in Nat
    BY <1>4, <1>5, <1>11, <2>1, <2>2
  <2>4. psTable[i].succ = <<i + 1, i + 2>>
    BY <1>3, <1>9, <2>1, <2>2 DEF ChainBlock
  <2>5. f.seen = 2
    BY <1>6, <2>3, <2>4
  <2>. QED  BY <2>3, <2>5
<1>13. CASE dfa' = "order"
  <2>1. \A j \in 1..(v - 1) : j \in 1..v
    BY <1>5
  <2>2. Len(worklist') = w /\ worklist' = worklist /\ sinks' = sinks /\ code' = code
    BY <1>1, <1>6
  <2>3. v - 1 <= w /\ v - 1 < w /\ v - 1 # w /\ v - 1 \in Nat
    BY <1>5, <1>9, <1>11
  <2>4. \A j \in 1..(v - 1) : /\ visit'[j].block = 2 * j - 1
                             /\ (j < w => visit'[j].seen = 2)
    BY <1>7, <1>11, <2>1
  <2>5. OrderLined'
    BY <1>3, <1>7, <1>11, <1>12, <2>2, <2>3, <2>4 DEF OrderLined
  <2>. QED  BY <1>6, <1>10, <1>13, <2>5 DEF Lined
<1>14. CASE dfa' = "next"
  <2>1. \A n \in 0..K : sinks'[2 * n + 2] = <<>>
    <3>1. DOMAIN sinks = 1..(2 * K + 2) /\ sinks' = sinks
      BY <1>6, <1>9 DEF TInv
    <3>2. \A n \in 0..K : 2 * n + 2 \in 1..(2 * K + 2)
      BY <1>9
    <3>. QED  BY <1>11, <3>1, <3>2
  <2>2. pass' = 0 /\ Len(worklist') = w /\ \A k \in 1..w : worklist'[k] = 2 * k - 1
    BY <1>1, <1>6, <1>10, <1>11
  <2>3. \A n \in 0..(pass' - 1) : FALSE
    BY <2>2
  <2>5. /\ pass' \in 0..(K + 1) /\ Len(worklist') = K + 1 - pass'
        /\ \A k \in 1..Len(worklist') : worklist'[k] = 2 * (pass' + k) - 1
    BY <1>9, <1>12, <2>2
  <2>6. code' = code /\ dfa' # "block"
    BY <1>6, <1>14
  <2>4. BlocksLined'
    BY <1>3, <2>1, <2>3, <2>5, <2>6 DEF BlocksLined
  <2>. QED  BY <1>6, <1>10, <1>14, <2>4 DEF Lined
<1>. QED  BY <1>6, <1>13, <1>14


(* Nothing but the contexts and sinks of one block changes.                *)
LEMMA LineDoneKept ==
    ASSUME NEW n, UNCHANGED vars, UNCHANGED ops, LineDone(n),
           \A r \in Regs : contexts'[2 * n + 1][r] = contexts[2 * n + 1][r],
           sinks'[2 * n + 1] = sinks[2 * n + 1]
    PROVE  LineDone(n)'
BY DEF LineDone, vars

LEMMA TakeLined ==
    ASSUME GraphInv, DInv, Chained, IsStraight(code), Lined, TInv, TakeBlock, UNCHANGED vars
    PROVE  Lined'
<1>1. PICK K, p, b : K = Calls(code, Length) /\ p = pass /\ b = Head(worklist)
  OBVIOUS
<1>2. /\ dfa = "next" /\ dfa' = "block" /\ worklist # <<>> /\ pass' = p + 1
      /\ worklist' = Tail(worklist) /\ sinks' = [sinks EXCEPT ![b] = <<>>]
      /\ UNCHANGED <<ops, inputs, code, blocks>>
  BY <1>1 DEF TakeBlock, PopFront, vars
<1>3. /\ K \in Nat /\ Length \in Nat /\ DOMAIN blocks = 1..(2 * K + 2) /\ ChainGraph
      /\ DOMAIN contexts = 1..(2 * K + 2) /\ \A n \in 0..K : ChainBlock(n)
  BY <1>1, <1>2, LineFacts
<1>4. /\ BlocksLined /\ \A m \in DOMAIN inputs : Fits(code, ops, m, inputs[m])
  BY <1>2 DEF Lined
<1>5. /\ p \in 0..(K + 1) /\ Len(worklist) = K + 1 - p
      /\ \A k \in 1..Len(worklist) : worklist[k] = 2 * (p + k) - 1
      /\ \A n \in 0..K : sinks[2 * n + 2] = <<>>
      /\ \A n \in 0..(p - 1) : LineDone(n)
  BY <1>1, <1>2, <1>4 DEF BlocksLined
<1>6. PICK w, v : w = Len(worklist) /\ v = Tail(worklist)
  OBVIOUS
<1>7. /\ w \in Nat \ {0} /\ b = worklist[1] /\ Len(v) = w - 1
      /\ \A k \in 1..(w - 1) : v[k] = worklist[k + 1]
  <2>1. worklist \in Seq(Internal)
    BY DEF DInv, Proper
  <2>. QED  BY <1>1, <1>2, <1>6, <2>1, LenProperties, EmptySeq, HeadTailProperties
<1>8. p \in 0..K /\ b = 2 * p + 1 /\ p \in Nat /\ w = K + 1 - p
  <2>1. w = K + 1 - p /\ 1 \in 1..w
    BY <1>5, <1>6, <1>7
  <2>2. b = 2 * (p + 1) - 1
    BY <1>5, <1>6, <1>7, <2>1
  <2>. QED  BY <1>3, <1>5, <1>7, <2>1, <2>2
<1>9. /\ b \in DOMAIN contexts /\ current'.block = b /\ current'.pc = blocks[b].start
      /\ \A c \in DOMAIN contexts : c # b => contexts'[c] = contexts[c]
      /\ \A r \in Regs : contexts'[b][r] = UNION {contexts[c][r] : c \in Preds(b)}
  BY <1>1, TakeBlockEffect
<1>10. /\ blocks[b].start \in Nat
       /\ \A q \in Positions : blocks[b].start <= q /\ q <= blocks[b].end <=> Calls(code, q) = p
  BY <1>3, <1>8 DEF ChainBlock
<1>11. \A r \in Regs : contexts'[b][r] = Holds(code, ops, blocks[b].start, r)
  <2>1. CASE p = 0
    <3>1. Preds(b) = {} /\ blocks[b].start = 0
      BY <1>1, <1>3, <1>8, <2>1, LinePreds DEF ChainGraph
    <3>2. \A r : Holds(code, ops, 0, r) = {}
      <4>. TAKE r
      <4>. QED  BY HoldsNext
    <3>3. \A r \in Regs : contexts'[b][r] = UNION {contexts[c][r] : c \in {}}
      BY <1>9, <3>1
    <3>. QED  BY <3>1, <3>2, <3>3
  <2>2. CASE p # 0
    <3>1. Preds(b) = {b - 2}
      BY <1>1, <1>3, <1>8, <2>2, LinePreds
    <3>2. p - 1 \in 0..K /\ p - 1 # K /\ 2 * (p - 1) + 1 = b - 2 /\ p - 1 \in 0..(p - 1)
          /\ b - 2 + 2 = b
      BY <1>3, <1>8, <2>2
    <3>3. LineDone(p - 1) /\ ChainBlock(p - 1)
      BY <1>3, <1>5, <3>2
    <3>4. \A r \in Regs : contexts[b - 2][r] = Holds(code, ops, blocks[b - 2].end + 1, r)
      BY <3>2, <3>3 DEF LineDone
    <3>5. blocks[b].start = blocks[b - 2].end + 1
      BY <1>1, <3>2, <3>3 DEF ChainBlock
    <3>6. \A r \in Regs : contexts'[b][r] = UNION {contexts[c][r] : c \in {b - 2}}
      BY <1>9, <3>1
    <3>. QED  BY <3>4, <3>5, <3>6
  <2>. QED  BY <2>1, <2>2
<1>12. DOMAIN sinks = 1..(2 * K + 2)
  BY <1>3 DEF TInv
<1>13. SinksOf(code, ops, p, blocks[b].start) = <<>>
  <2>1. Ends(code, ops, p, blocks[b].start) = {}
    BY <1>10, LengthAssumption DEF Ends, Positions
  <2>2. Sublist(Numbers, Ends(code, ops, p, blocks[b].start)) = <<>>
    BY <2>1, NumbersNone
  <2>3. DOMAIN <<>> = {} /\ [k \in {} |-> SinkAt(code, ops, k)] = <<>>
    OBVIOUS
  <2>. QED  BY <2>2, <2>3 DEF SinksOf
<1>14. LineAt(p)'
  <2>1. sinks'[b] = <<>>
    BY <1>2, <1>3, <1>9, <1>12
  <2>. QED  BY <1>2, <1>8, <1>9, <1>11, <1>13, <2>1 DEF LineAt
<1>15. \A n \in 0..(p - 1) : LineDone(n)'
  <2>. SUFFICES ASSUME NEW n \in 0..(p - 1) PROVE LineDone(n)'
    OBVIOUS
  <2>1. LineDone(n) /\ 2 * n + 1 # b /\ 2 * n + 1 \in 1..(2 * K + 2)
    BY <1>3, <1>5, <1>8
  <2>. QED  BY <1>2, <1>3, <1>9, <1>12, <2>1, LineDoneKept
<1>16. \A n \in 0..K : sinks'[2 * n + 2] = <<>>
  <2>. SUFFICES ASSUME NEW n \in 0..K PROVE sinks'[2 * n + 2] = <<>>
    OBVIOUS
  <2>1. 2 * n + 2 # b /\ 2 * n + 2 \in 1..(2 * K + 2)
    BY <1>3, <1>8
  <2>. QED  BY <1>2, <1>5, <1>12, <2>1
<1>17. pass' # 0 /\ pass' - 1 = p /\ pass' \in 0..(K + 1)
  BY <1>2, <1>3, <1>8
<1>18. Len(worklist') = K + 1 - pass'
       /\ \A k \in 1..Len(worklist') : worklist'[k] = 2 * (pass' + k) - 1
  <2>1. Len(worklist') = w - 1 /\ w - 1 = K + 1 - pass' /\ w - 1 \in Nat
    BY <1>2, <1>3, <1>6, <1>7, <1>8
  <2>. SUFFICES ASSUME NEW k \in 1..(w - 1) PROVE worklist'[k] = 2 * (pass' + k) - 1
    BY <2>1
  <2>2. k + 1 \in 1..w /\ k \in Nat
    BY <1>7
  <2>3. worklist'[k] = worklist[k + 1]
    BY <1>2, <1>6, <1>7
  <2>4. worklist[k + 1] = 2 * (p + (k + 1)) - 1
    BY <1>5, <1>6, <2>2
  <2>5. p + (k + 1) = (p + 1) + k
    BY <1>8, <2>2
  <2>. QED  BY <1>2, <2>3, <2>4, <2>5
<1>19. \A n \in 0..(pass' - 1) : (n + 1 # pass') => LineDone(n)'
  <2>1. \A n \in 0..p : n + 1 # p + 1 => n \in 0..(p - 1)
    BY <1>8
  <2>. QED  BY <1>2, <1>15, <1>17, <2>1
<1>20. BlocksLined'
  <2>1. K = Calls(code', Length) /\ LineAt(pass - 1)'
    BY <1>1, <1>2, <1>14, <1>17 DEF LineAt
  <2>. QED  BY <1>2, <1>14, <1>16, <1>17, <1>18, <1>19, <2>1 DEF BlocksLined
<1>21. \A m \in DOMAIN inputs' : Fits(code, ops, m, inputs[m])'
  BY <1>2, <1>4
<1>. QED  BY <1>2, <1>20, <1>21 DEF Lined


(* What is used is what is held, when the pass is that of the position.    *)
LEMMA UseLined ==
    ASSUME NEW context, NEW p \in Nat, NEW r, pass = Calls(code, p) + 1,
           context[r] = Holds(code, ops, p, r)
    PROVE  Use(context, r, p) = UseOf(code, ops, p, r)
<1>1. CASE Holds(code, ops, p, r) = {}
  BY <1>1 DEF Use, UseOf, Fresh, NodeAt
<1>2. CASE Holds(code, ops, p, r) # {}
  <2>1. PICK n : n = UseOf(code, ops, p, r)
    OBVIOUS
  <2>2. context[r] = {n}
    BY <1>2, <2>1, UseIs
  <2>3. Cardinality({n}) = 1 /\ (CHOOSE m \in {n} : TRUE) = n
    BY FS_Singleton
  <2>4. Use(context, r, p) = n
    BY <2>2, <2>3 DEF Use
  <2>. QED  BY <2>1, <2>4
<1>. QED  BY <1>1, <1>2

(* The state when an instruction of a block is looked at.                  *)
LEMMA LineBlock ==
    ASSUME GraphInv, DInv, Chained, IsStraight(code), Lined, dfa = "block",
           NEW n, n = pass - 1
    PROVE  /\ n \in 0..Calls(code, Length) /\ n \in Nat /\ pass = n + 1 /\ BlocksLined
           /\ current.block = 2 * n + 1 /\ ChainBlock(n) /\ LineAt(n)
           /\ blocks[current.block].start <= current.pc /\ current.pc \in Nat
           /\ current.pc <= blocks[current.block].end \/ current.pc = blocks[current.block].end + 1
<1>1. PICK K : K = Calls(code, Length)
  OBVIOUS
<1>2. K \in Nat /\ ChainGraph /\ \A m \in 0..K : ChainBlock(m)
  BY <1>1, LineFacts
<1>3. BlocksLined
  BY DEF Lined
<1>4. pass \in 0..(K + 1) /\ pass # 0 /\ LineAt(pass - 1)
  BY <1>1, <1>3 DEF BlocksLined
<1>5. n \in 0..K /\ n \in Nat /\ pass = n + 1
  BY <1>2, <1>4
<1>6. current.block = 2 * n + 1
  BY <1>4 DEF LineAt
<1>7. current.pc \in blocks[current.block].start..(blocks[current.block].end + 1)
      /\ blocks[current.block].start \in Nat /\ blocks[current.block].end \in Nat
  BY <1>2, <1>5, <1>6 DEF DInv, ChainBlock
<1>. QED  BY <1>1, <1>2, <1>3, <1>4, <1>5, <1>6, <1>7

LEMMA InstructionLined ==
    ASSUME GraphInv, DInv, Chained, IsStraight(code), Lined, TInv, AgeInv,
           Instruction, UNCHANGED vars
    PROVE  Lined'
<1>1. PICK K, n, b, pc, o : /\ K = Calls(code, Length) /\ n = pass - 1 /\ b = current.block
                            /\ pc = current.pc /\ o = ops[pc]
  OBVIOUS
<1>2. /\ dfa = "block" /\ dfa' = "block" /\ pc <= blocks[b].end
      /\ UNCHANGED <<ops, code, blocks, worklist, pass>>
      /\ current'.block = b /\ current'.pc = pc + 1
  BY <1>1 DEF Instruction, vars, DInv
<1>3. /\ K \in Nat /\ Length \in Nat /\ DOMAIN blocks = 1..(2 * K + 2) /\ ChainGraph
      /\ DOMAIN contexts = 1..(2 * K + 2) /\ WellEnded /\ DOMAIN sinks = 1..(2 * K + 2)
  BY <1>1, <1>2, LineFacts DEF TInv
<1>4. /\ n \in 0..K /\ n \in Nat /\ pass = n + 1 /\ BlocksLined
      /\ b = 2 * n + 1 /\ ChainBlock(n) /\ LineAt(n)
      /\ blocks[b].start <= pc /\ pc \in Nat
      /\ \A m \in DOMAIN inputs : Fits(code, ops, m, inputs[m])
  BY <1>1, <1>2, LineBlock DEF Lined
<1>5. /\ b \in Internal /\ pc \in Positions /\ pc < Length
      /\ o.uses \subseteq Regs /\ o.defs \subseteq Regs
      /\ (~o.store /\ IsBranch(code[pc]) /\ blocks[b].endsInCall)
            <=> (blocks[b].endsInCall /\ pc = blocks[b].end)
  BY <1>1, <1>2, <1>3, InstructionKnown
<1>6. Calls(code, pc) = n
  BY <1>1, <1>2, <1>4, <1>5 DEF ChainBlock
<1>7. CallIn(code, pc) <=> blocks[b].endsInCall /\ pc = blocks[b].end
  BY <1>1, <1>2, <1>3, <1>4, <1>5, LineCall
<1>8. /\ \A r \in Regs : contexts[b][r] = Holds(code, ops, pc, r)
      /\ sinks[b] = SinksOf(code, ops, n, pc)
  BY <1>1, <1>4 DEF LineAt
<1>9. \A k, r : Fresh(k, r, pc) = NodeAt(code, k, pc, r)
  BY <1>4, <1>6 DEF Fresh, NodeAt
<1>10. \A r \in Regs : Use(contexts[b], r, pc) = UseOf(code, ops, pc, r)
  <2>. TAKE r \in Regs
  <2>1. pass = Calls(code, pc) + 1
    BY <1>4, <1>6
  <2>. QED  BY <1>4, <1>8, <2>1, UseLined
<1>11. PICK used, added, returns, results :
         /\ used = Uses(contexts[b], o.uses, pc) /\ added = UseInputs(contexts[b], o.uses, pc)
         /\ results = Outputs("result", o.defs)
         /\ returns = IF ~o.store /\ IsBranch(code[pc]) /\ blocks[b].endsInCall
                      THEN Outputs("callReturn", DefinedByCall) ELSE {}
  OBVIOUS
<1>12. used = UsesOf(code, ops, pc)
  BY <1>1, <1>5, <1>10, <1>11 DEF Uses, UsesOf
<1>13. /\ inputs' = Over([m \in results \cup returns |-> used], Over(inputs, added))
       /\ sinks' = IF o.store \/ (~o.store /\ IsBranch(code[pc]))
                   THEN AddSink(b, pc, used) ELSE sinks
  BY <1>1, <1>11, Zenon DEF Instruction
<1>14. /\ b \in DOMAIN contexts /\ DOMAIN contexts' = DOMAIN contexts
       /\ \A c \in DOMAIN contexts : c # b => contexts'[c] = contexts[c]
       /\ \A r \in Regs : contexts'[b][r] = After(b, r)
  BY <1>1, <1>3, InstructionEffect
<1>15. \A r \in Regs : contexts'[b][r] = Holds(code, ops, pc + 1, r)
  <2>. TAKE r \in Regs
  <2>1. contexts'[b][r] = After(b, r)
    BY <1>14
  <2>2. Holds(code, ops, pc + 1, r) =
           IF Writes(code, ops, pc, r) THEN Left(code, pc, r) ELSE Holds(code, ops, pc, r)
    BY <1>4, HoldsNext
  <2>3. After(b, r) = IF CallIn(code, pc) /\ r \in DefinedByCall
                      THEN {NodeAt(code, "callReturn", pc, r)}
                      ELSE IF CallIn(code, pc) /\ r \in KilledByCall THEN {}
                      ELSE IF r \in o.defs THEN {NodeAt(code, "result", pc, r)}
                      ELSE contexts[b][r]
    BY <1>1, <1>7, <1>9 DEF After
  <2>. QED  BY <1>1, <1>8, <2>1, <2>2, <2>3 DEF Writes, Left
<1>16. sinks'[b] = SinksOf(code, ops, n, pc + 1) /\ \A c \in DOMAIN sinks : c # b => sinks'[c] = sinks[c]
  <2>1. SinksOf(code, ops, n, pc + 1) =
           IF o.store \/ IsBranch(code[pc])
           THEN Append(SinksOf(code, ops, n, pc), SinkAt(code, ops, pc))
           ELSE SinksOf(code, ops, n, pc)
    BY <1>1, <1>5, <1>6, SinksNext
  <2>2. SinkAt(code, ops, pc) = [kind |-> "sink", at |-> pc, inputs |-> used]
    BY <1>12 DEF SinkAt
  <2>3. b \in DOMAIN sinks
    BY <1>3, <1>14
  <2>. QED  BY <1>8, <1>13, <2>1, <2>2, <2>3 DEF AddSink
<1>17. LineAt(n)'
  BY <1>2, <1>4, <1>15, <1>16 DEF LineAt
<1>18. LineAt(pass - 1)'
  BY <1>1, <1>2, <1>17 DEF LineAt
<1>19. /\ pass \in 0..(K + 1) /\ Len(worklist) = K + 1 - pass
       /\ \A k \in 1..Len(worklist) : worklist[k] = 2 * (pass + k) - 1
       /\ \A m \in 0..K : sinks[2 * m + 2] = <<>>
       /\ \A m \in 0..(pass - 1) : m + 1 # pass => LineDone(m)
  BY <1>1, <1>2, <1>4 DEF BlocksLined
<1>20. \A m \in 0..(pass - 1) : m + 1 # pass => LineDone(m)'
  <2>. SUFFICES ASSUME NEW m \in 0..(pass - 1), m + 1 # pass PROVE LineDone(m)'
    OBVIOUS
  <2>1. LineDone(m)
    BY <1>19
  <2>2. m \in 0..n /\ m # n
    BY <1>4
  <2>3. 2 * m + 1 # b /\ 2 * m + 1 \in 1..(2 * K + 2)
    BY <1>3, <1>4, <2>2
  <2>. QED  BY <1>2, <1>3, <1>14, <1>16, <2>1, <2>3, LineDoneKept
<1>21. \A m \in 0..K : sinks'[2 * m + 2] = <<>>
  <2>. SUFFICES ASSUME NEW m \in 0..K PROVE sinks'[2 * m + 2] = <<>>
    OBVIOUS
  <2>1. 2 * m + 2 # b /\ 2 * m + 2 \in 1..(2 * K + 2)
    BY <1>3, <1>4
  <2>. QED  BY <1>3, <1>16, <1>19, <2>1
<1>22. BlocksLined'
  <2>1. /\ K = Calls(code', Length) /\ pass' = pass /\ pass # 0 /\ Len(worklist') = Len(worklist)
        /\ worklist' = worklist
    BY <1>1, <1>2, <1>4
  <2>2. dfa' = "block"
    BY <1>2
  <2>. QED  BY <1>18, <1>19, <1>20, <1>21, <2>1, <2>2 DEF BlocksLined
<1>23. \A m \in DOMAIN inputs' : Fits(code, ops, m, inputs'[m])
  <2>. SUFFICES ASSUME NEW m \in DOMAIN inputs' PROVE Fits(code, ops, m, inputs'[m])
    OBVIOUS
  <2>0. pc \in 0..Length
    BY <1>3, <1>4, <1>5
  <2>1. CASE m \in results \cup returns
    <3>1. inputs'[m] = used
      BY <1>13, <2>1 DEF Over
    <3>2. \E k \in {"result", "callReturn"}, r \in Regs : m = NodeAt(code, k, pc, r)
      BY <1>1, <1>5, <1>9, <1>11, <2>1, CallAssumption DEF Outputs
    <3>. QED  BY <1>5, <1>12, <2>0, <3>1, <3>2 DEF Fits, NodeAt
  <2>2. CASE m \notin results \cup returns /\ m \in DOMAIN inputs
    <3>1. inputs'[m] = inputs[m]
      BY <1>13, <2>2 DEF Over
    <3>. QED  BY <1>4, <2>2, <3>1
  <2>3. CASE m \notin results \cup returns /\ m \notin DOMAIN inputs
    <3>1. m \in DOMAIN added
      BY <1>13, <2>3 DEF Over
    <3>2. PICK r \in o.uses : m = Use(contexts[b], r, pc)
      BY <1>11, <3>1 DEF UseInputs, Uses
    <3>3. m = UseOf(code, ops, pc, r) /\ r \in Regs
      BY <1>5, <1>10, <3>2
    <3>4. m \notin contexts[b][r]
      BY <1>2, <1>14, <2>3, <3>3 DEF AgeInv, Aged, Made
    <3>5. m = NodeAt(code, "input", pc, r)
      <4>1. m \notin Holds(code, ops, pc, r)
        BY <1>8, <3>3, <3>4
      <4>. QED  BY <1>4, <3>3, <4>1, UseIs
    <3>. QED  BY <2>0, <3>5 DEF Fits, NodeAt
  <2>. QED  BY <2>1, <2>2, <2>3
<1>. QED  BY <1>2, <1>22, <1>23 DEF Lined


(* There is nothing to push when the successors are on the worklist.       *)
LEMMA PushNothing ==
    ASSUME NEW b, NEW n \in Nat, n = Len(psTable[b].succ),
           \A k \in 1..n : blocks[psTable[b].succ[k]].type = "INTERNAL"
                              => Contains(worklist, psTable[b].succ[k])
    PROVE  PushSuccessors(b) = worklist
<1>1. PICK f : f = CHOOSE g : Pushes(b, g, n)
  OBVIOUS
<1>2. Pushes(b, f, n)
  BY <1>1, PushesExist
<1>3. PushSuccessors(b) = f[n]
  BY <1>1 DEF PushSuccessors, Pushes, Pushed
<1> DEFINE T == {k \in Nat : k <= n /\ f[k] # worklist}
<1>4. T = {}
  <2>. SUFFICES ASSUME T # {} PROVE FALSE
    OBVIOUS
  <2>1. PICK k \in T : \A i \in T : k <= i
    BY FirstIsLeast
  <2>2. k \in 0..n /\ f[k] # worklist
    BY <2>1
  <2>3. f[k] = Pushed(b, f, k)
    BY <1>2, <2>2 DEF Pushes
  <2>4. k # 0
    BY <2>2, <2>3 DEF Pushed
  <2>5. k - 1 \in Nat /\ k - 1 <= n /\ ~(k <= k - 1) /\ k \in 1..n
    BY <2>1, <2>4
  <2>6. f[k - 1] = worklist
    BY <2>1, <2>5
  <2>7. Pushed(b, f, k) = worklist
    BY <2>4, <2>5, <2>6 DEF Pushed
  <2>. QED  BY <2>2, <2>3, <2>7
<1>. QED  BY <1>3, <1>4

LEMMA LinePushes ==
    ASSUME GraphInv, DInv, ChainGraph, NEW K, K = Calls(code, Length), NEW n \in 0..K,
           NEW b, b = 2 * n + 1, Len(worklist) = K - n,
           \A k \in 1..Len(worklist) : worklist[k] = 2 * (n + 1 + k) - 1
    PROVE  PushSuccessors(b) = worklist
<1>1. K \in Nat /\ ChainBlock(n) /\ n \in Nat /\ DOMAIN blocks = 1..(2 * K + 2)
  BY CallsCount, LengthAssumption, GraphFacts DEF ChainGraph
<1>2. b + 1 \in DOMAIN blocks /\ blocks[b + 1].type # "INTERNAL"
  BY <1>1 DEF ChainBlock, Internal
<1>3. CASE n = K
  <2>1. psTable[b].succ = <<b + 1>>
    BY <1>1, <1>3 DEF ChainBlock
  <2>2. 1 = Len(psTable[b].succ) /\ psTable[b].succ[1] = b + 1
    BY <2>1
  <2>3. \A k \in 1..1 : blocks[psTable[b].succ[k]].type # "INTERNAL"
    <3>1. \A k \in 1..1 : k = 1
      OBVIOUS
    <3>. QED  BY <1>2, <2>2, <3>1
  <2>. QED  BY <2>2, <2>3, PushNothing
<1>4. CASE n # K
  <2>1. psTable[b].succ = <<b + 1, b + 2>>
    BY <1>1, <1>4 DEF ChainBlock
  <2>2. 2 = Len(psTable[b].succ) /\ psTable[b].succ[1] = b + 1 /\ psTable[b].succ[2] = b + 2
    BY <2>1
  <2>3. 1 \in 1..Len(worklist) /\ b + 2 = 2 * (n + 1 + 1) - 1
    BY <1>1, <1>4
  <2>4. worklist[1] = b + 2
    BY <2>3
  <2>5. DOMAIN worklist = 1..Len(worklist)
    BY LenProperties DEF DInv, Proper
  <2>6. Contains(worklist, b + 2)
    BY <2>3, <2>4, <2>5 DEF Contains
  <2>7. \A k \in 1..2 : k = 1 \/ k = 2
    OBVIOUS
  <2>. QED  BY <1>2, <2>2, <2>6, <2>7, PushNothing
<1>. QED  BY <1>3, <1>4


(* The values that a straight function returns, when its last block ends.  *)
LEMMA FinishReturns ==
    ASSUME GraphInv, DInv, Chained, IsStraight(code), Lined, TInv, FinishBlock, UNCHANGED vars,
           NEW n, n = pass - 1, NEW b, b = current.block
    PROVE  /\ sinks' = [sinks EXCEPT ![b] = SinksAfter(code, ops, n)]
           /\ \A m \in DOMAIN inputs' :
                 \/ m \in DOMAIN inputs /\ inputs'[m] = inputs[m]
                 \/ \E r \in Regs : m = UseOf(code, ops, Length, r) /\ m \notin DOMAIN inputs
                                    /\ contexts[b][r] = Holds(code, ops, Length, r)
<1>1. PICK K, e, context, live, order :
         /\ K = Calls(code, Length) /\ e = blocks[b].end
         /\ context = contexts[b]
         /\ live = (IF blocks[b].isExit THEN {r \in DefinedByCall : context[r] # {}} ELSE {})
         /\ order = Sublist(SetToSeq(DefinedByCall), live)
  OBVIOUS
<1>2. PICK returns : returns = [k \in DOMAIN order |->
                                  [kind |-> "return", at |-> e,
                                   inputs |-> {Use(context, order[k], Length)}]]
  OBVIOUS
<1>3. /\ sinks' = [sinks EXCEPT ![b] = @ \o returns] /\ dfa = "block" /\ current.pc > e
      /\ inputs' = Over(inputs, UseInputs(context, live, Length))
  BY <1>1, <1>2, Zenon DEF FinishBlock
<1>4. /\ n \in 0..K /\ n \in Nat /\ pass = n + 1 /\ b = 2 * n + 1 /\ ChainBlock(n) /\ LineAt(n)
      /\ current.pc = e + 1 /\ e \in Nat /\ e \in Positions
  <2>1. /\ n \in 0..K /\ n \in Nat /\ pass = n + 1 /\ b = 2 * n + 1 /\ ChainBlock(n) /\ LineAt(n)
        /\ current.pc <= e \/ current.pc = e + 1
        /\ current.pc \in Nat
    BY <1>1, <1>3, LineBlock
  <2>2. e \in Nat /\ e \in Positions
    BY <1>1, <2>1 DEF ChainBlock
  <2>. QED  BY <1>3, <2>1, <2>2
<1>5. K \in Nat /\ Length \in Nat /\ DOMAIN contexts = 1..(2 * K + 2) /\ b \in DOMAIN sinks
      /\ sinks[b] \in Seq(Sink)
  <2>1. K \in Nat /\ Length \in Nat /\ DOMAIN contexts = 1..(2 * K + 2)
    BY <1>1, <1>3, LineFacts
  <2>2. b \in DOMAIN contexts
    BY <1>4, <2>1
  <2>. QED  BY <2>1, <2>2 DEF TInv
<1>6. sinks[b] = SinksOf(code, ops, n, Length)
  <2>1. \A q \in Positions : Calls(code, q) = n => q <= e
    BY <1>1, <1>4 DEF ChainBlock
  <2>2. \A q \in Positions : Calls(code, q) = n => (q < e + 1 <=> q < Length)
    BY <1>4, <1>5, <2>1 DEF Positions
  <2>3. Ends(code, ops, n, e + 1) = Ends(code, ops, n, Length)
    BY <2>2 DEF Ends
  <2>4. SinksOf(code, ops, n, e + 1) = SinksOf(code, ops, n, Length)
    BY <2>3 DEF SinksOf
  <2>5. sinks[b] = SinksOf(code, ops, n, e + 1)
    BY <1>4 DEF LineAt
  <2>. QED  BY <2>4, <2>5
<1>7. order \in Seq(DefinedByCall \cap live)
  BY <1>1, ConventionOrder, SublistHolds
<1>8. CASE n = K
  <2>1. e + 1 = Length /\ blocks[b].isExit /\ e = Length - 1
    <3>1. ChainBlock(n) /\ n = Calls(code, Length) /\ 2 * n + 1 = b
      BY <1>1, <1>4, <1>8
    <3>2. blocks[b].end + 1 = Length /\ blocks[b].isExit
      BY <3>1 DEF ChainBlock
    <3>. QED  BY <1>1, <1>4, <1>5, <3>2
  <2>2. \A r \in Regs : context[r] = Holds(code, ops, Length, r)
    BY <1>1, <1>4, <2>1 DEF LineAt
  <2>3. live = {r \in DefinedByCall : Holds(code, ops, Length, r) # {}}
    BY <1>1, <2>1, <2>2, CallAssumption
  <2>4. \A r \in Regs : Use(context, r, Length) = UseOf(code, ops, Length, r)
    <3>. TAKE r \in Regs
    <3>1. pass = Calls(code, Length) + 1 /\ context[r] = Holds(code, ops, Length, r)
      BY <1>1, <1>4, <1>8, <2>2
    <3>. QED  BY <1>5, <3>1, UseLined
  <2>5. \A k \in DOMAIN order : order[k] \in Regs
    BY <1>7, LenProperties, ElementOfSeq, CallAssumption
  <2>6. returns = ReturnsOf(code, ops)
    <3>1. order = Sublist(SetToSeq(DefinedByCall),
                          {r \in DefinedByCall : Holds(code, ops, Length, r) # {}})
      BY <1>1, <2>3
    <3>2. returns = [k \in DOMAIN order |->
                        [kind |-> "return", at |-> Length - 1,
                         inputs |-> {UseOf(code, ops, Length, order[k])}]]
      BY <1>2, <2>1, <2>4, <2>5
    <3>. QED  BY <3>1, <3>2 DEF ReturnsOf
  <2>7. sinks' = [sinks EXCEPT ![b] = SinksAfter(code, ops, n)]
    BY <1>1, <1>3, <1>6, <1>8, <2>6 DEF SinksAfter
  <2>8. ASSUME NEW m \in DOMAIN inputs'
        PROVE  \/ m \in DOMAIN inputs /\ inputs'[m] = inputs[m]
               \/ \E r \in Regs : m = UseOf(code, ops, Length, r) /\ m \notin DOMAIN inputs
                                  /\ contexts[b][r] = Holds(code, ops, Length, r)
    <3>1. CASE m \in DOMAIN inputs
      BY <1>3, <3>1 DEF Over
    <3>2. CASE m \notin DOMAIN inputs
      <4>1. m \in DOMAIN UseInputs(context, live, Length)
        BY <1>3, <3>2 DEF Over
      <4>2. PICK r \in live : m = Use(context, r, Length)
        BY <4>1 DEF UseInputs, Uses
      <4>3. r \in Regs
        BY <2>3, CallAssumption
      <4>. QED  BY <1>1, <2>2, <2>4, <3>2, <4>2, <4>3
    <3>. QED  BY <3>1, <3>2
  <2>. QED  BY <2>7, <2>8
<1>9. CASE n # K
  <2>1. live = {}
    BY <1>1, <1>4, <1>9 DEF ChainBlock
  <2>2. order = <<>>
    <3>1. DefinedByCall \cap live = {}
      BY <2>1
    <3>. QED  BY <1>7, <3>1, ElementOfSeq, LenProperties, EmptySeq
  <2>3. returns = <<>>
    BY <1>2, <2>2
  <2>4. PICK s : s = sinks[b]
    OBVIOUS
  <2>5. s \o <<>> = s
    BY <1>5, <2>4, ConcatEmptySeq
  <2>6. SinksAfter(code, ops, n) = s
    BY <1>1, <1>6, <1>9, <2>4, <2>5 DEF SinksAfter
  <2>7. sinks' = [sinks EXCEPT ![b] = SinksAfter(code, ops, n)]
    BY <1>3, <2>3, <2>4, <2>5, <2>6
  <2>8. DOMAIN UseInputs(context, live, Length) = {}
    BY <2>1 DEF UseInputs, Uses
  <2>9. \A m \in DOMAIN inputs' : m \in DOMAIN inputs /\ inputs'[m] = inputs[m]
    BY <1>3, <2>8 DEF Over
  <2>. QED  BY <2>7, <2>9
<1>. QED  BY <1>8, <1>9

LEMMA FinishLined ==
    ASSUME GraphInv, DInv, Chained, IsStraight(code), Lined, TInv, AgeInv,
           FinishBlock, UNCHANGED vars
    PROVE  Lined'
<1>1. PICK K, n, b : K = Calls(code, Length) /\ n = pass - 1 /\ b = current.block
  OBVIOUS
<1>2. /\ dfa = "block" /\ dfa' = "next" /\ current.pc > blocks[b].end
      /\ UNCHANGED <<ops, code, blocks, contexts, pass>>
      /\ worklist' \in {worklist, PushSuccessors(b)}
  BY <1>1 DEF FinishBlock, vars
<1>3. /\ K \in Nat /\ Length \in Nat /\ DOMAIN blocks = 1..(2 * K + 2) /\ ChainGraph
      /\ DOMAIN contexts = 1..(2 * K + 2) /\ DOMAIN sinks = 1..(2 * K + 2)
  BY <1>1, <1>2, LineFacts DEF TInv
<1>4. /\ n \in 0..K /\ n \in Nat /\ pass = n + 1 /\ BlocksLined
      /\ b = 2 * n + 1 /\ LineAt(n) /\ ChainBlock(n)
      /\ \A m \in DOMAIN inputs : Fits(code, ops, m, inputs[m])
      /\ current.pc = blocks[b].end + 1
  <2>1. /\ n \in 0..K /\ n \in Nat /\ pass = n + 1 /\ BlocksLined
        /\ b = 2 * n + 1 /\ LineAt(n) /\ ChainBlock(n) /\ current.pc \in Nat
        /\ current.pc <= blocks[b].end \/ current.pc = blocks[b].end + 1
    BY <1>1, <1>2, LineBlock
  <2>2. blocks[b].end \in Nat
    BY <2>1 DEF ChainBlock
  <2>. QED  BY <1>2, <2>1, <2>2 DEF Lined
<1>5. /\ Len(worklist) = K + 1 - pass
      /\ \A k \in 1..Len(worklist) : worklist[k] = 2 * (pass + k) - 1
      /\ \A m \in 0..K : sinks[2 * m + 2] = <<>>
      /\ \A m \in 0..(pass - 1) : m + 1 # pass => LineDone(m)
  BY <1>1, <1>2, <1>4 DEF BlocksLined
<1>6. worklist' = worklist
  <2>1. Len(worklist) = K - n
    BY <1>3, <1>4, <1>5
  <2>2. \A k \in 1..Len(worklist) : worklist[k] = 2 * (n + 1 + k) - 1
    BY <1>4, <1>5
  <2>. QED  BY <1>1, <1>2, <1>3, <1>4, <2>1, <2>2, LinePushes
<1>7. /\ sinks' = [sinks EXCEPT ![b] = SinksAfter(code, ops, n)]
      /\ \A m \in DOMAIN inputs' :
            \/ m \in DOMAIN inputs /\ inputs'[m] = inputs[m]
            \/ \E r \in Regs : m = UseOf(code, ops, Length, r) /\ m \notin DOMAIN inputs
                               /\ contexts[b][r] = Holds(code, ops, Length, r)
  BY <1>1, <1>2, FinishReturns
<1>8. b \in 1..(2 * K + 2)
  BY <1>3, <1>4
<1>9. LineDone(n)'
  <2>1. sinks'[b] = SinksAfter(code, ops, n)
    BY <1>3, <1>7, <1>8
  <2>2. \A r \in Regs : contexts[b][r] = Holds(code, ops, blocks[b].end + 1, r)
    BY <1>4 DEF LineAt
  <2>. QED  BY <1>2, <1>4, <2>1, <2>2 DEF LineDone
<1>10. \A m \in 0..(pass - 1) : LineDone(m)'
  <2>. SUFFICES ASSUME NEW m \in 0..(pass - 1), m + 1 # pass PROVE LineDone(m)'
    BY <1>4, <1>9
  <2>1. LineDone(m)
    BY <1>5
  <2>2. m \in 0..n /\ m # n
    BY <1>4
  <2>3. 2 * m + 1 # b /\ 2 * m + 1 \in 1..(2 * K + 2)
    BY <1>3, <1>4, <2>2
  <2>4. sinks'[2 * m + 1] = sinks[2 * m + 1]
    BY <1>3, <1>7, <2>3
  <2>. QED  BY <1>2, <2>1, <2>4, LineDoneKept
<1>11. \A m \in 0..K : sinks'[2 * m + 2] = <<>>
  <2>. SUFFICES ASSUME NEW m \in 0..K PROVE sinks'[2 * m + 2] = <<>>
    OBVIOUS
  <2>1. 2 * m + 2 # b /\ 2 * m + 2 \in 1..(2 * K + 2)
    BY <1>3, <1>4
  <2>. QED  BY <1>3, <1>5, <1>7, <2>1
<1>12. BlocksLined'
  <2>1. /\ K = Calls(code', Length) /\ pass' = pass /\ pass \in 0..(K + 1)
        /\ worklist' = worklist /\ dfa' = "next"
    BY <1>1, <1>2, <1>3, <1>4, <1>6
  <2>. QED  BY <1>5, <1>10, <1>11, <2>1 DEF BlocksLined
<1>13. \A m \in DOMAIN inputs' : Fits(code, ops, m, inputs'[m])
  <2>. SUFFICES ASSUME NEW m \in DOMAIN inputs' PROVE Fits(code, ops, m, inputs'[m])
    OBVIOUS
  <2>1. CASE m \in DOMAIN inputs /\ inputs'[m] = inputs[m]
    BY <1>4, <2>1
  <2>2. CASE ~(m \in DOMAIN inputs /\ inputs'[m] = inputs[m])
    <3>1. PICK r \in Regs : m = UseOf(code, ops, Length, r) /\ m \notin DOMAIN inputs
                            /\ contexts[b][r] = Holds(code, ops, Length, r)
      BY <1>7, <2>2
    <3>2. m \notin contexts[b][r]
      BY <1>2, <1>3, <1>8, <3>1 DEF AgeInv, Aged, Made
    <3>3. m = NodeAt(code, "input", Length, r)
      <4>1. m \notin Holds(code, ops, Length, r)
        BY <3>1, <3>2
      <4>. QED  BY <1>3, <3>1, <4>1, UseIs
    <3>. QED  BY <1>3, <3>3 DEF Fits, NodeAt
  <2>. QED  BY <2>1, <2>2
<1>. QED  BY <1>2, <1>12, <1>13 DEF Lined


LEMMA StepLined ==
    ASSUME GraphInv, DInv, Chained, TInv, AgeInv, IsStraight(code), Lined,
           [FunctionNext]_allVars
    PROVE  Lined'
<1>1. CASE UNCHANGED allVars
  <2>1. /\ code' = code /\ dfa' = dfa /\ ops' = ops /\ inputs' = inputs /\ worklist' = worklist
        /\ visit' = visit /\ pass' = pass /\ contexts' = contexts /\ sinks' = sinks
        /\ current' = current /\ blocks' = blocks
    BY <1>1 DEF allVars, vars, dfaVars, flow
  <2>2. (OrderLined' <=> OrderLined) /\ (BlocksLined' <=> BlocksLined)
    <3>1. \A n : (LineAt(n)' <=> LineAt(n)) /\ (LineDone(n)' <=> LineDone(n))
      BY <2>1 DEF LineAt, LineDone
    <3>2. LineAt(pass - 1)' <=> LineAt(pass - 1)
      BY <2>1 DEF LineAt
    <3>. QED  BY <2>1, <3>1, <3>2 DEF OrderLined, BlocksLined
  <2>. QED  BY <2>1, <2>2 DEF Lined
<1>2. CASE dfa = "idle" /\ UNCHANGED dfaVars /\ [Next]_vars
  BY <1>2 DEF Lined, dfaVars
<1>3. CASE DfaNext /\ UNCHANGED vars /\ status = "done"
  <2>1. CASE InitWorklist
    BY <1>3, <2>1, BeginLined
  <2>2. CASE VisitSuccessor
    BY <1>3, <2>2, SuccessorLined
  <2>3. CASE VisitReturn
    BY <1>3, <2>3, ReturnLined
  <2>4. CASE TakeBlock
    BY <1>3, <2>4, TakeLined
  <2>5. CASE Instruction
    BY <1>3, <2>5, InstructionLined
  <2>6. CASE FinishBlock
    BY <1>3, <2>6, FinishLined
  <2>7. CASE InstructionThrows
    <3>1. dfa' = "threw" /\ UNCHANGED <<ops, inputs, code>>
      BY <1>3, <2>7 DEF InstructionThrows, vars, flow
    <3>2. \A m \in DOMAIN inputs : Fits(code, ops, m, inputs[m])
      BY <2>7 DEF Lined, InstructionThrows
    <3>. QED  BY <3>1, <3>2 DEF Lined
  <2>8. CASE Finish \/ Overflow
    <3>1. /\ dfa = "next" /\ dfa' \in {"done", "overflow"}
          /\ UNCHANGED <<ops, inputs, code, worklist, pass, contexts, sinks, blocks, current>>
      BY <1>3, <2>8 DEF Finish, Overflow, vars, flow
    <3>2. BlocksLined /\ \A m \in DOMAIN inputs : Fits(code, ops, m, inputs[m])
      BY <3>1 DEF Lined
    <3>3. \A n : LineDone(n)' <=> LineDone(n)
      BY <3>1 DEF LineDone
    <3>4. BlocksLined'
      BY <3>1, <3>2, <3>3 DEF BlocksLined
    <3>. QED  BY <3>1, <3>2, <3>4 DEF Lined
  <2>. QED  BY <1>3, <2>1, <2>2, <2>3, <2>4, <2>5, <2>6, <2>7, <2>8 DEF DfaNext
<1>4. dfa # "idle" => status = "done"
  BY DEF DInv
<1>. QED  BY <1>1, <1>2, <1>3, <1>4, StepKinds

-----------------------------------------------------------------------------
(* What both analyses keep together.  These two facts are about states and *)
(* steps, for a module that runs the analyses twice.                       *)
FunctionInv ==
    /\ GraphInv /\ DInv /\ FlowInv /\ Rooted /\ (WellEnded => SupportInv)
    /\ Chained /\ (IsStraight(code) => Lined)

LEMMA FunctionInvInit == AnalysisInit => FunctionInv
<1>1. AnalysisInit => Init
  BY DEF AnalysisInit
<1>2. Init => GraphInv
  BY InitIInv, InitCInv, InitEInv, InitGInv DEF GraphInv
<1>3. AnalysisInit => SupportInv
  BY DEF AnalysisInit, DfaInit, SupportInv
<1>4. Init => Chained
  BY InitChained
<1>5. AnalysisInit => Lined
  BY DEF AnalysisInit, DfaInit, Lined
<1>. QED  BY <1>1, <1>2, <1>3, <1>4, <1>5, InitDInv, InitFlow DEF FunctionInv

(* No step changes the function, and none follows the last.               *)
LEMMA CodeFixed == [FunctionNext]_allVars => code' = code /\ ops' = ops
BY DEF FunctionNext, Stopped, allVars, dfaVars, vars, Next, ScanPlain, RunOffEnd, HandleBranch,
       RuntimeBranch, AfterBranch, EndCall, EndBlock, Terminated, Stop, DfaNext, InitWorklist,
       VisitSuccessor, VisitReturn, TakeBlock, Instruction, InstructionThrows, FinishBlock,
       Finish, Overflow

LEMMA FunctionInvStep == FunctionInv /\ [FunctionNext]_allVars => FunctionInv'
<1>. SUFFICES ASSUME FunctionInv, [FunctionNext]_allVars PROVE FunctionInv'
  OBVIOUS
<1>1. GraphInv' /\ DInv'
  BY GraphStep, StepIInv, StepCInv, StepEInv, StepGInv, StepDInv DEF GraphInv, FunctionInv
<1>2. FlowInv' /\ Rooted'
  BY <1>1, StepFlow DEF FunctionInv
<1>3. (WellEnded => SupportInv)'
  BY StepSupports DEF FunctionInv
<1>4. Chained'
  BY <1>1, GraphStep, StepChained DEF FunctionInv, GraphInv
<1>5. (IsStraight(code) => Lined)'
  <2>. SUFFICES ASSUME IsStraight(code) PROVE Lined'
    BY CodeFixed DEF IsStraight
  <2>1. WellEnded
    BY StraightReached DEF IsStraight
  <2>. QED  BY <2>1, StepLined DEF FunctionInv, FlowInv
<1>. QED  BY <1>1, <1>2, <1>3, <1>4, <1>5 DEF FunctionInv

LEMMA DoneStays == [FunctionNext]_allVars /\ dfa = "done" => dfa' = "done"
BY DEF FunctionNext, Stopped, allVars, dfaVars, DfaNext, InitWorklist, VisitSuccessor,
       VisitReturn, TakeBlock, Instruction, InstructionThrows, FinishBlock, Finish, Overflow

LEMMA DoneFixed == FunctionInv /\ [FunctionNext]_allVars /\ dfa = "done" => UNCHANGED allVars
<1>. SUFFICES ASSUME FunctionInv, [FunctionNext]_allVars, dfa = "done" PROVE UNCHANGED allVars
  OBVIOUS
<1>1. dfa # "idle" => status = "done"
  BY DEF FunctionInv, DInv
<1>2. ~DfaNext
  BY DEF DfaNext, InitWorklist, VisitSuccessor, VisitReturn, TakeBlock, Instruction,
         InstructionThrows, FinishBlock, Finish, Overflow
<1>. QED  BY <1>1, <1>2, StepKinds

(* When the analyses of a function that ends well are done, control reaches *)
(* only instructions that are supported, and branches whose targets are    *)
(* known.                                                                  *)
AllAnalysed ==
    dfa = "done" /\ WellEnded =>
        \A p \in Closure \cap Positions :
            ops[p].supported /\ (HasTarget(code[p]) => code[p].target # Unresolved)

LEMMA DoneAnalysed == FunctionInv => AllAnalysed
<1>. SUFFICES ASSUME FunctionInv, dfa = "done", WellEnded, NEW p \in Closure \cap Positions
              PROVE  ops[p].supported /\ (HasTarget(code[p]) => code[p].target # Unresolved)
  BY DEF AllAnalysed
<1>1. status = "done" /\ IInv /\ CInv /\ GInv /\ SupportInv /\ FreshInv
  BY DEF FunctionInv, GraphInv, DInv, FlowInv
<1>2. Listed = {} /\ \A b : ~Under(b)
  BY <1>1 DEF FreshInv, Listed, Under
<1>3. PICK i \in Internal : p \in blocks[i].start..blocks[i].end
  BY <1>1, ExactHere DEF GraphExact
<1>4. ops[p].supported
  BY <1>1, <1>2, <1>3 DEF SupportInv, AllSupported
<1>. QED  BY <1>1, <1>4, ReachedResolved

THEOREM ReachedAnalysed == FunctionSpec => []AllAnalysed
BY FunctionsAnalysable, FunctionInvInit, FunctionInvStep, DoneAnalysed, PTL DEF FunctionSpec

(* What a comparison needs of the graph of a function: the inputs of a node *)
(* are other nodes, which are older, and can be listed.                    *)
Older(m, n) ==
    \/ m.pass < n.pass
    \/ m.pass = n.pass /\ m.at < n.at
    \/ m.pass = n.pass /\ m.at = n.at /\ IsOperand(m) /\ ~IsOperand(n)
Walkable(nodes, ends, succ) ==
    /\ \A n \in DOMAIN nodes :
          /\ n \in Node /\ IsFiniteSet(nodes[n]) /\ nodes[n] \subseteq DOMAIN nodes
          /\ ~IsOperand(n) => n.at \in Positions
          /\ \A m \in nodes[n] : Older(m, n)
    /\ ends \in Seq(Seq(Sink))
    /\ \A b \in DOMAIN ends : \A k \in DOMAIN ends[b] : SinkListed(ends[b][k], DOMAIN nodes)
    /\ succ \in Seq(Seq(DOMAIN ends)) /\ Len(succ) = Len(ends)

LEMMA DoneWalkable ==
    ASSUME FunctionInv, WellEnded, dfa = "done"
    PROVE  Walkable(inputs, sinks, [b \in DOMAIN blocks |-> psTable[b].succ])
<1>1. GraphInv /\ DInv /\ AgeInv /\ TInv /\ ListInv
  BY DEF FunctionInv, FlowInv
<1>2. DOMAIN sinks = DOMAIN blocks
  BY <1>1 DEF DInv, TInv
<1>3. PICK n : n = Len(blocks)
  OBVIOUS
<1>4. n \in Nat /\ DOMAIN blocks = 1..n /\ DOMAIN blocks \subseteq DOMAIN psTable
  BY <1>1, <1>3, GraphFacts
<1>5. sinks \in Seq(Seq(Sink)) /\ Len(sinks) = n
  <2>1. \A b \in 1..n : sinks[b] \in Seq(Sink)
    BY <1>1, <1>2, <1>4 DEF TInv
  <2>2. sinks = [b \in 1..n |-> sinks[b]]
    BY <1>1, <1>2, <1>4 DEF ListInv
  <2> HIDE DEF Sink
  <2>3. sinks \in [1..n -> Seq(Sink)]
    BY <2>1, <2>2
  <2>. QED  BY <1>4, <2>3, SeqDef, LenProperties
<1>6. PICK succ : succ = [b \in DOMAIN blocks |-> psTable[b].succ]
  OBVIOUS
<1>7. succ \in Seq(Seq(DOMAIN sinks)) /\ Len(succ) = n
  <2>1. \A b \in 1..n : psTable[b].succ \in Seq(DOMAIN sinks)
    BY <1>1, <1>2, <1>4 DEF GraphInv, EInv, RowsInGraph
  <2>2. succ \in [1..n -> Seq(DOMAIN sinks)]
    BY <1>4, <1>6, <2>1
  <2>. QED  BY <1>4, <2>2, SeqDef, LenProperties
<1>8. ASSUME NEW m \in DOMAIN inputs
      PROVE  /\ m \in Node /\ IsFiniteSet(inputs[m]) /\ inputs[m] \subseteq DOMAIN inputs
             /\ ~IsOperand(m) => m.at \in Positions
             /\ \A k \in inputs[m] : Older(k, m)
  BY <1>1 DEF TInv, ListInv, AgeInv, InputsOlder, Older
<1>9. \A b \in DOMAIN sinks : \A k \in DOMAIN sinks[b] : SinkListed(sinks[b][k], DOMAIN inputs)
  BY <1>1 DEF ListInv, SinkListed
<1>. QED  BY <1>5, <1>6, <1>7, <1>8, <1>9 DEF Walkable

-----------------------------------------------------------------------------
(* What has been found when the analysis of a straight function is done:   *)
(* no more variables than its instructions tell, its sinks in their order, *)
(* and one block for each call.  As the parameters of Walkable, these are  *)
(* what a comparison reads; blockOf is findBlockByInsnIdx.                 *)
StraightFlow(c, o, blockOf, nodes, ends, succ) ==
    LET K == Calls(c, Length)
    IN  /\ \A m \in DOMAIN nodes : Fits(c, o, m, nodes[m])
        /\ Len(succ) = 2 * K + 2
        /\ \A n \in 0..K : /\ ends[2 * n + 1] = SinksAfter(c, o, n) /\ ends[2 * n + 2] = <<>>
                           /\ succ[2 * n + 2] = <<>>
                           /\ succ[2 * n + 1] =
                                 IF n = K THEN <<2 * n + 2>> ELSE <<2 * n + 2, 2 * n + 3>>
        /\ \A p \in Positions : blockOf[p] = 2 * Calls(c, p) + 1

StraightDone ==
    dfa = "done" /\ IsStraight(code) =>
        /\ WellEnded
        /\ StraightFlow(code, ops, [p \in Positions |-> findBlockByInsnIdx(p)], inputs, sinks,
                        [b \in DOMAIN blocks |-> psTable[b].succ])

LEMMA DoneStraight == FunctionInv => StraightDone
<1>. SUFFICES ASSUME FunctionInv, IsStraight(code), dfa = "done"
              PROVE  /\ WellEnded
                     /\ StraightFlow(code, ops, [p \in Positions |-> findBlockByInsnIdx(p)],
                                     inputs, sinks, [b \in DOMAIN blocks |-> psTable[b].succ])
  BY DEF StraightDone
<1>0. WellEnded
  BY StraightReached DEF IsStraight
<1>. USE <1>0 DEF FunctionInv, FlowInv
<1>1. PICK K, succ, blockOf :
         /\ K = Calls(code, Length) /\ succ = [b \in DOMAIN blocks |-> psTable[b].succ]
         /\ blockOf = [p \in Positions |-> findBlockByInsnIdx(p)]
  OBVIOUS
<1>2. /\ K \in Nat /\ Len(blocks) = 2 * K + 2 /\ \A n \in 0..K : ChainBlock(n)
  BY <1>1, LineFacts
<1>3. BlocksLined /\ \A m \in DOMAIN inputs : Fits(code, ops, m, inputs[m])
  BY DEF Lined
<1>4. worklist = <<>>
  BY DEF FreshInv
<1>5. pass = K + 1
  <2>1. Len(worklist) = 0 /\ Len(worklist) = K + 1 - pass /\ pass \in 0..(K + 1)
    BY <1>1, <1>3, <1>4 DEF BlocksLined
  <2>. QED  BY <1>2, <2>1
<1>6. DOMAIN blocks = 1..(2 * K + 2) /\ DOMAIN succ = 1..(2 * K + 2) /\ Len(succ) = 2 * K + 2
  <2>1. DOMAIN blocks = 1..(2 * K + 2)
    BY <1>2, LenProperties DEF GraphInv, IInv, TypeOK
  <2>2. 2 * K + 2 \in Nat
    BY <1>2
  <2>3. succ \in Seq({psTable[b].succ : b \in DOMAIN blocks})
    BY <1>1, <2>1, <2>2, SeqDef
  <2>. QED  BY <1>1, <2>1, <2>2, <2>3, LenProperties
<1>7. ASSUME NEW n \in 0..K
      PROVE  /\ sinks[2 * n + 1] = SinksAfter(code, ops, n) /\ sinks[2 * n + 2] = <<>>
             /\ succ[2 * n + 2] = <<>>
             /\ succ[2 * n + 1] = IF n = K THEN <<2 * n + 2>> ELSE <<2 * n + 2, 2 * n + 3>>
  <2>1. n \in 0..(pass - 1) /\ n \in Nat
    BY <1>2, <1>5
  <2>2. LineDone(n) /\ sinks[2 * n + 2] = <<>>
    BY <1>1, <1>3, <2>1 DEF BlocksLined
  <2>3. 2 * n + 1 + 1 = 2 * n + 2 /\ 2 * n + 1 + 2 = 2 * n + 3
        /\ 2 * n + 1 \in 1..(2 * K + 2) /\ 2 * n + 2 \in 1..(2 * K + 2)
    BY <1>2, <2>1
  <2>4. /\ psTable[2 * n + 1 + 1].succ = <<>>
        /\ n = K => psTable[2 * n + 1].succ = <<2 * n + 1 + 1>>
        /\ n # K => psTable[2 * n + 1].succ = <<2 * n + 1 + 1, 2 * n + 1 + 2>>
    BY <1>1, <1>2 DEF ChainBlock
  <2>5. sinks[2 * n + 1] = SinksAfter(code, ops, n)
    BY <2>2 DEF LineDone
  <2>6. succ[2 * n + 1] = psTable[2 * n + 1].succ /\ succ[2 * n + 2] = psTable[2 * n + 2].succ
    BY <1>1, <1>6, <2>3
  <2>. QED  BY <2>2, <2>3, <2>4, <2>5, <2>6
<1>8. \A p \in Positions : blockOf[p] = 2 * Calls(code, p) + 1
  <2>1. status = "done"
    BY DEF DInv
  <2>2. ChainGraph
    BY <2>1, ChainDone DEF GraphInv
  <2>. QED  BY <1>1, <2>2 DEF ChainGraph
<1>9. StraightFlow(code, ops, blockOf, inputs, sinks, succ)
  BY <1>1, <1>3, <1>6, <1>7, <1>8 DEF StraightFlow
<1>. QED  BY <1>0, <1>1, <1>9

=============================================================================
