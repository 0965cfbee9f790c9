----------------------------- MODULE CheckProofs -----------------------------
(***************************************************************************)
(* Theorems about CheckFlow: the two analyses see the same branches, and   *)
(* functions that are called equal have been analysed to the end.  The     *)
(* theorems about the analyses are used for both functions.                *)
(***************************************************************************)
EXTENDS CheckFlow, DataFlowProofs

-----------------------------------------------------------------------------
(* What the analyses see of the instructions of a pair.                    *)

DecodedFrom(insns, from) ==
    /\ DOMAIN from = Positions /\ \A q \in Positions : IsInstruction(from[q])
    /\ CodeOf(from) \in [Positions -> Insns]
    /\ insns = Decoded(from)

LEMMA PairDecoded ==
    ASSUME NEW p \in Pairs, NEW v \in {1, 2}
    PROVE  DecodedFrom(Decoded(p[v]), p[v])
BY PairsAssumption, InsnsOfPairs DEF DecodedFrom

(* Decoding an instruction adds what it uses and defines.                  *)
LEMMA DecodedFields ==
    ASSUME NEW insns, NEW from, DecodedFrom(insns, from), NEW q \in Positions
    PROVE  /\ insns[q].ud = UDOf(from, q)
           /\ insns[q].kind = from[q].kind /\ insns[q].link = from[q].link
           /\ insns[q].target = from[q].target /\ insns[q].bo = from[q].bo
           /\ insns[q].class = from[q].class
<1>1. insns[q] = Over([ud |-> UDOf(from, q)], from[q])
  BY DEF DecodedFrom, Decoded
<1>2. Fields \subseteq DOMAIN from[q]
  BY DEF DecodedFrom, IsInstruction
<1>. QED  BY <1>1, <1>2 DEF Over, Fields

LEMMA CodeKept ==
    ASSUME NEW insns, NEW from, DecodedFrom(insns, from)
    PROVE  CodeOf(insns) = CodeOf(from) /\ CodeOf(insns) \in [Positions -> Insns]
<1>1. \A q \in Positions :
         /\ insns[q].kind = from[q].kind /\ insns[q].link = from[q].link
         /\ insns[q].target = from[q].target /\ insns[q].bo = from[q].bo
  BY DecodedFields
<1>2. CodeOf(insns) = CodeOf(from)
  BY <1>1 DEF CodeOf
<1>. QED  BY <1>2 DEF DecodedFrom

LEMMA OpsAnalysable ==
    ASSUME NEW insns, NEW from, DecodedFrom(insns, from)
    PROVE  Analysable(CodeOf(insns), OpsOf(insns))
<1>1. ASSUME NEW q \in Positions
      PROVE  /\ OpsOf(insns)[q] \in Operand
             /\ OpsOf(insns)[q].store => ~IsBranch(CodeOf(insns)[q])
  <2>1. OpsOf(insns)[q] = [uses |-> ToSet(insns[q].ud.inputs) \cap Regs,
                          defs |-> insns[q].ud.outputs \cap Regs,
                          store |-> insns[q].class = "store",
                          supported |-> Supported(insns[q])]
    BY DEF OpsOf
  <2>2. Supported(insns[q]) \in BOOLEAN
    BY DEF Supported
  <2>3. OpsOf(insns)[q] \in Operand
    BY <2>1, <2>2 DEF Operand
  <2>4. insns[q].class = "store" => insns[q].kind = "plain"
    <3>1. from[q].class = "store" => from[q].kind = "plain"
      BY DEF DecodedFrom, IsInstruction
    <3>. QED  BY <3>1, DecodedFields
  <2>5. OpsOf(insns)[q].store = (insns[q].class = "store")
    BY <2>1
  <2>6. CodeOf(insns)[q].kind = insns[q].kind
    BY DEF CodeOf
  <2>. QED  BY <2>3, <2>4, <2>5, <2>6 DEF IsBranch, HasTarget, AtRuntime
<1>. QED  BY <1>1 DEF Analysable, OpsOf

-----------------------------------------------------------------------------
(* The two decodings of a branch.                                          *)

ReadsCR(s) == \E k \in DOMAIN s : s[k][1] = "CR_BIT"

LEMMA AppendReads ==
    ASSUME NEW V, NEW s \in Seq(V), NEW x \in V
    PROVE  ReadsCR(Append(s, x)) <=> ReadsCR(s) \/ x[1] = "CR_BIT"
<1>1. /\ Len(s) \in Nat /\ DOMAIN s = 1..Len(s)
      /\ DOMAIN Append(s, x) = 1..(Len(s) + 1)
      /\ \A k \in 1..Len(s) : Append(s, x)[k] = s[k]
      /\ Append(s, x)[Len(s) + 1] = x
  BY AppendProperties, LenProperties
<1>. QED  BY <1>1 DEF ReadsCR

(* What a conditional branch reads before its target.                      *)
Tested(i) ==
    (IF i.kind # "b" /\ DecrementsCTR(i.bo) THEN <<CTR>> ELSE <<>>)
        \o (IF TestsCR(i.bo) THEN <<<<"CR_BIT", i.bi>>>> ELSE <<>>)

BranchInputs(i) == {CTR, LR, <<"CR_BIT", i.bi>>}

LEMMA TestedReads ==
    ASSUME NEW i
    PROVE  /\ Tested(i) \in Seq(BranchInputs(i))
           /\ ReadsCR(Tested(i)) <=> TestsCR(i.bo)
<1> DEFINE cr == <<"CR_BIT", i.bi>>
           before == IF i.kind # "b" /\ DecrementsCTR(i.bo) THEN <<CTR>> ELSE <<>>
<1>1. before \in Seq(BranchInputs(i)) /\ ~ReadsCR(before)
  BY DEF ReadsCR, CTR, BranchInputs
<1>2. CASE TestsCR(i.bo)
  <2>1. Tested(i) = Append(before, cr) /\ cr \in BranchInputs(i)
    BY <1>1, <1>2 DEF Tested, BranchInputs
  <2>2. Append(before, cr) \in Seq(BranchInputs(i))
    BY <1>1, <2>1
  <2>3. ReadsCR(Append(before, cr))
    BY <1>1, <2>1, AppendReads
  <2>. QED  BY <1>2, <2>1, <2>2, <2>3
<1>3. CASE ~TestsCR(i.bo)
  <2>1. Tested(i) = before
    BY <1>1, <1>3 DEF Tested
  <2>. QED  BY <1>1, <1>3, <2>1
<1>. QED  BY <1>2, <1>3

LEMMA BranchOperands ==
    ASSUME NEW i, NEW q, i.kind \in {"b", "bc", "bclr", "bcctr"}, ~i.link
    PROVE  Conditional(handleBranchUD(i, q))
              <=> i.kind # "b" /\ (DecrementsCTR(i.bo) \/ TestsCR(i.bo))
<1> DEFINE ud == handleBranchUD(i, q)
<1>1. CTR \in ud.outputs <=> i.kind # "b" /\ DecrementsCTR(i.bo)
  BY DEF handleBranchUD, UD
<1>2. ud.inputs = CASE i.kind = "b"    -> <<>>
                    [] i.kind = "bc"   -> Tested(i)
                    [] i.kind = "bclr" -> Append(Tested(i), LR)
                    [] OTHER           -> Append(Tested(i), CTR)
  BY DEF handleBranchUD, UD, Tested
<1>3. ReadsCR(ud.inputs) <=> i.kind # "b" /\ TestsCR(i.bo)
  <2>1. /\ Tested(i) \in Seq(BranchInputs(i))
        /\ CTR \in BranchInputs(i) /\ LR \in BranchInputs(i)
        /\ ReadsCR(Tested(i)) <=> TestsCR(i.bo)
    BY TestedReads DEF BranchInputs
  <2>2. /\ ReadsCR(Append(Tested(i), LR)) <=> TestsCR(i.bo)
        /\ ReadsCR(Append(Tested(i), CTR)) <=> TestsCR(i.bo)
    BY <2>1, AppendReads DEF LR, CTR
  <2>3. ~ReadsCR(<<>>)
    BY DEF ReadsCR
  <2>. QED  BY <1>2, <2>1, <2>2, <2>3
<1>. QED  BY <1>1, <1>3 DEF Conditional, ReadsCR

(* Every value of the BO field is always taken, or neither tests the       *)
(* condition nor counts.                                                   *)
LEMMA BOAgrees ==
    ASSUME NEW bo \in 0..31
    PROVE  ~isBranchConditionUnconditional(bo) <=> DecrementsCTR(bo) \/ TestsCR(bo)
<1>1. bo < 16 \/ bo \div 16 = 1
  OBVIOUS
<1>2. bo < 16 => bo \div 16 = 0
  OBVIOUS
<1>3. (bo \div 4) % 2 \in {0, 1}
  OBVIOUS
<1>. QED  BY <1>1, <1>2, <1>3 DEF isBranchConditionUnconditional, DecrementsCTR, TestsCR

LEMMA ViewsAgree ==
    ASSUME NEW insns, NEW from, DecodedFrom(insns, from), NEW q \in Positions,
           NEW c, c = CodeOf(insns), IsBranch(c[q]), ~c[q].link
    PROVE  q + 1 \in FlowSuccs(c, q) \ {c[q].target}
              <=> Conditional(insns[q].ud) /\ c[q].target # q + 1
<1> DEFINE i == from[q]
<1>1. /\ c[q].kind = i.kind /\ c[q].link = i.link /\ c[q].target = i.target
      /\ c[q].always = isBranchConditionUnconditional(i.bo)
  <2>1. c = CodeOf(from)
    BY CodeKept
  <2>2. c[q] = [kind |-> i.kind, link |-> i.link, target |-> i.target,
                always |-> isBranchConditionUnconditional(i.bo)]
    BY <2>1 DEF CodeOf
  <2>. QED  BY <2>2
<1>2. IsInstruction(i)
  BY DEF DecodedFrom
<1>3. i.kind \in {"b", "bc", "bclr", "bcctr"} /\ i.class = "branch" /\ ~i.link
  BY <1>1, <1>2 DEF IsBranch, HasTarget, AtRuntime, IsInstruction
<1>4. PICK x : /\ insns[q].ud = handleBranchUD(x, q)
               /\ x.kind = i.kind /\ x.bo = i.bo /\ x.link = i.link
  <2>1. PICK called : called <=> i.kind = "b" /\ i.target = External /\ i.reloc = NoReloc
    OBVIOUS
  <2>2. PICK x : x = IF called THEN [i EXCEPT !.reloc = i.callee] ELSE i
    OBVIOUS
  <2>3. insns[q].ud = instructionUD(x, q)
    BY <2>1, <2>2, DecodedFields DEF UDOf
  <2>4. /\ x.kind = i.kind /\ x.bo = i.bo /\ x.link = i.link /\ x.class = i.class
    BY <1>2, <2>2 DEF IsInstruction, Fields
  <2>. QED  BY <1>3, <2>3, <2>4 DEF instructionUD
<1>5. ComesBack(c[q]) <=> i.kind # "b" /\ (DecrementsCTR(i.bo) \/ TestsCR(i.bo))
  BY <1>1, <1>2, <1>3, BOAgrees DEF ComesBack, IsInstruction
<1>6. q + 1 \in FlowSuccs(c, q) \ {c[q].target} <=> ComesBack(c[q]) /\ c[q].target # q + 1
  BY DEF FlowSuccs, BranchSuccs
<1>. QED  BY <1>3, <1>4, <1>5, <1>6, BranchOperands

-----------------------------------------------------------------------------
(* What an instruction reads, as sequences.                                *)

HasLists(ud) == IsList(ud.refs) /\ IsList(ud.imms) /\ IsSequence(ud.inputs)

LEMMA OperandsAppended ==
    ASSUME NEW kind, NEW value
    PROVE  IsSequence(appendOperands(kind, value))
<1>1. PICK f : f = appendOperands(kind, value)
  OBVIOUS
<1>2. CASE kind = "CR_REG"
  <2>1. f = [k \in 1..4 |-> <<"CR_BIT", 4 * value + k - 1>>]
    BY <1>1, <1>2 DEF appendOperands, appendCRRegister
  <2>2. DOMAIN f = 1..4 /\ f = [k \in 1..4 |-> f[k]]
    BY <2>1
  <2>. QED  BY <1>1, <2>2, FunctionIsSequence
<1>3. CASE kind # "CR_REG"
  <2>1. PICK x : f = <<x>>
    BY <1>1, <1>3 DEF appendOperands
  <2>2. <<x>> \in Seq({x})
    OBVIOUS
  <2>. QED  BY <1>1, <2>1, <2>2, SequenceIs
<1>. QED  BY <1>2, <1>3

LEMMA PlacesListed ==
    ASSUME NEW i, IsInstruction(i), NEW K
    PROVE  InOrder(i, K) \in Seq(DOMAIN i.kinds \cap K)
<1> DEFINE n == Len(i.kinds)
           all == [k \in DOMAIN i.kinds |-> k]
<1>1. n \in Nat /\ DOMAIN i.kinds = 1..n
  BY LenProperties DEF IsInstruction
<1>2. all \in [1..n -> DOMAIN i.kinds]
  BY <1>1
<1>3. all \in Seq(DOMAIN i.kinds)
  BY <1>1, <1>2, SeqDef
<1>. QED  BY <1>3, SublistHolds DEF InOrder

LEMMA OthersListed ==
    ASSUME NEW i, IsInstruction(i), NEW q, i.class # "branch"
    PROVE  HasLists(instructionUD(i, q))
<1>1. PICK places : places = InOrder(i, Immediates(i))
  OBVIOUS
<1>2. PICK constants : constants = [n \in DOMAIN places |-> i.values[places[n]]]
  OBVIOUS
<1>3. PICK refs : refs = [n \in DOMAIN constants |-> i.reloc]
  OBVIOUS
<1>4. IsList(places)
  BY <1>1, PlacesListed, SeqIsList
<1>5. IsList(constants)
  <2>1. constants = [n \in DOMAIN places |-> constants[n]]
    BY <1>2
  <2>. QED  BY <1>4, <2>1, ListMapped, SequenceIsList
<1>6. IsList(refs)
  <2>1. refs = [n \in DOMAIN constants |-> refs[n]]
    BY <1>3
  <2>. QED  BY <1>5, <2>1, ListMapped, SequenceIsList
<1>7. IsSequence(InputsOf(i))
  <2>1. PICK k : k = InOrder(i, Registers(i) \ Defined(i))
    OBVIOUS
  <2>2. IsList(k)
    BY <2>1, PlacesListed, SeqIsList
  <2>3. PICK l : l = [n \in DOMAIN k |-> appendOperands(i.kinds[k[n]], i.values[k[n]])]
    OBVIOUS
  <2> DEFINE V == UNION {Elements(l[n]) : n \in DOMAIN k}
  <2>4. ASSUME NEW n \in DOMAIN k PROVE l[n] \in Seq(V)
    <3>1. IsSequence(l[n])
      BY <2>3, OperandsAppended
    <3>2. l[n] \in Seq(Elements(l[n])) /\ Elements(l[n]) \subseteq V
      BY <3>1 DEF IsSequence
    <3>. QED  BY <3>2, SeqGrows
  <2>5. l \in Seq(Seq(V))
    <3>1. DOMAIN k = 1..Len(k) /\ Len(k) \in Nat
      BY <2>2 DEF IsList
    <3>2. l \in [1..Len(k) -> Seq(V)]
      BY <2>3, <2>4, <3>1
    <3>. QED  BY <3>1, <3>2, SeqDef
  <2>6. FlattenSeq(l) \in Seq(V)
    BY <2>5, FlattenKeeps
  <2>7. InputsOf(i) = FlattenSeq(l)
    BY <2>1, <2>3 DEF InputsOf
  <2>. QED  BY <2>6, <2>7, SequenceIs
<1>8. IsList(<<>>)
  BY EmptySeq DEF IsList
<1>9. instructionUD(i, q) =
         UD(IF i.relocatable /\ i.reloc # NoReloc THEN refs ELSE <<>>,
            IF i.relocatable /\ i.reloc # NoReloc THEN <<>> ELSE constants,
            InputsOf(i), OutputsOf(i))
  BY <1>1, <1>2, <1>3 DEF instructionUD
<1>. QED  BY <1>5, <1>6, <1>7, <1>8, <1>9 DEF HasLists, UD

LEMMA BranchListed ==
    ASSUME NEW i, NEW q
    PROVE  HasLists(handleBranchUD(i, q))
<1> DEFINE ud == handleBranchUD(i, q)
           d == Destination(i, q)
<1>1. IsList(<<>>) /\ IsList(<<i.reloc>>) /\ IsList(<<i.bo>>)
      /\ IsList(<<4 * (i.target - q), 0>>) /\ IsList(<<i.bo>> \o <<4 * (i.target - q), 0>>)
      /\ IsList(<<i.bo>> \o <<>>)
  BY DEF IsList
<1>2. /\ d.refs = IF i.reloc # NoReloc THEN <<i.reloc>> ELSE <<>>
      /\ d.imms = IF i.reloc # NoReloc THEN <<>> ELSE <<4 * (i.target - q), 0>>
  BY DEF Destination, UD
<1>3. IsList(d.refs) /\ IsList(d.imms) /\ IsList(<<i.bo>> \o d.imms)
  BY <1>1, <1>2
<1>4. /\ IsSequence(Tested(i))
      /\ IsSequence(Append(Tested(i), LR)) /\ IsSequence(Append(Tested(i), CTR))
  <2>1. /\ Tested(i) \in Seq(BranchInputs(i))
        /\ LR \in BranchInputs(i) /\ CTR \in BranchInputs(i)
    BY TestedReads DEF BranchInputs
  <2>2. /\ Append(Tested(i), LR) \in Seq(BranchInputs(i))
        /\ Append(Tested(i), CTR) \in Seq(BranchInputs(i))
    BY <2>1
  <2>. QED  BY <2>1, <2>2, SequenceIs
<1>5. ud.refs = (IF i.kind \in {"b", "bc"} THEN d.refs ELSE <<>>)
  BY DEF handleBranchUD, UD
<1>6. ud.imms = CASE i.kind = "b"  -> d.imms
                  [] i.kind = "bc" -> <<i.bo>> \o d.imms
                  [] OTHER         -> <<i.bo>>
  BY DEF handleBranchUD, UD
<1>7. ud.inputs = CASE i.kind = "b"    -> <<>>
                    [] i.kind = "bc"   -> Tested(i)
                    [] i.kind = "bclr" -> Append(Tested(i), LR)
                    [] OTHER           -> Append(Tested(i), CTR)
  BY DEF handleBranchUD, UD, Tested
<1> HIDE DEF ud, d
<1>8. IsList(ud.refs) /\ IsList(ud.imms)
  BY <1>1, <1>3, <1>5, <1>6
<1>9. IsSequence(ud.inputs)
  <2>1. <<>> \in Seq({})
    OBVIOUS
  <2>. QED  BY <1>4, <1>7, <2>1, SequenceIs
<1>. QED  BY <1>8, <1>9 DEF HasLists, ud

LEMMA UDListed ==
    ASSUME NEW insns, NEW from, DecodedFrom(insns, from), NEW q \in Positions
    PROVE  HasLists(insns[q].ud)
<1> DEFINE i == from[q]
<1>1. IsInstruction(i)
  BY DEF DecodedFrom
<1>2. PICK x : /\ insns[q].ud = instructionUD(x, q)
               /\ x.class = i.class /\ (i.class # "branch" => x = i)
  <2>1. PICK called : called <=> i.kind = "b" /\ i.target = External /\ i.reloc = NoReloc
    OBVIOUS
  <2>2. PICK x : x = IF called THEN [i EXCEPT !.reloc = i.callee] ELSE i
    OBVIOUS
  <2>3. insns[q].ud = instructionUD(x, q)
    BY <2>1, <2>2, DecodedFields DEF UDOf
  <2>4. x.class = i.class
    BY <1>1, <2>2 DEF IsInstruction, Fields
  <2>5. i.class # "branch" => x = i
    BY <1>1, <2>1, <2>2 DEF IsInstruction
  <2>. QED  BY <2>3, <2>4, <2>5
<1>3. CASE i.class = "branch"
  BY <1>2, <1>3, BranchListed DEF instructionUD
<1>4. CASE i.class # "branch"
  BY <1>1, <1>2, <1>4, OthersListed
<1>. QED  BY <1>3, <1>4

-----------------------------------------------------------------------------
(* The graph that is compared.                                             *)

LEMMA ConstantsListed ==
    ASSUME NEW ud, HasLists(ud)
    PROVE  IsSequence(Constants(ud))
<1>1. PICK r : r = [k \in DOMAIN ud.refs |-> <<"reference", ud.refs[k]>>]
  OBVIOUS
<1>2. PICK c : c = [k \in DOMAIN ud.imms |-> <<"immediate", ud.imms[k]>>]
  OBVIOUS
<1>3. IsSequence(r)
  <2>1. r = [k \in DOMAIN ud.refs |-> r[k]]
    BY <1>1
  <2>. QED  BY <2>1, ListMapped DEF HasLists
<1>4. IsSequence(c)
  <2>1. c = [k \in DOMAIN ud.imms |-> c[k]]
    BY <1>2
  <2>. QED  BY <2>1, ListMapped DEF HasLists
<1>5. Constants(ud) = r \o c
  BY <1>1, <1>2 DEF Constants
<1>6. PICK o : o = r \o c
  OBVIOUS
<1>7. IsSequence(o)
  BY <1>3, <1>4, <1>6, JoinedSequences
<1>. QED  BY <1>5, <1>6, <1>7

LeavesIn(ud) == {Leaf(c) : c \in ToSet(Constants(ud))}

LEMMA OperandsListed ==
    ASSUME NEW ud, HasLists(ud), NEW used, IsFiniteSet(used)
    PROVE  OperandsOf(ud, used) \in Seq(LeavesIn(ud) \cup used)
<1>1. PICK c : c = Constants(ud)
  OBVIOUS
<1>2. PICK d : d = [k \in DOMAIN c |-> Leaf(c[k])]
  OBVIOUS
<1>3. PICK l : l = [k \in DOMAIN ud.inputs |-> SetToSeq({n \in used : n.reg = ud.inputs[k]})]
  OBVIOUS
<1>4. IsSequence(d) /\ Elements(d) = LeavesIn(ud)
  <2>1. d = [k \in DOMAIN c |-> d[k]]
    BY <1>2
  <2>2. IsList(c)
    BY <1>1, ConstantsListed, SequenceIsList
  <2>3. IsSequence(d) /\ DOMAIN d = DOMAIN c
    BY <2>1, <2>2, ListMapped
  <2>. QED  BY <1>1, <1>2, <2>3 DEF Elements, LeavesIn, ToSet
<1>5. FlattenSeq(l) \in Seq(used)
  <2>1. DOMAIN ud.inputs = 1..Len(ud.inputs) /\ Len(ud.inputs) \in Nat
    BY SequenceIsList DEF HasLists, IsList
  <2>2. ASSUME NEW k \in DOMAIN ud.inputs PROVE l[k] \in Seq(used)
    <3>1. PICK S : S = {n \in used : n.reg = ud.inputs[k]}
      OBVIOUS
    <3>2. S \subseteq used /\ IsFiniteSet(S)
      BY <3>1, FS_Subset
    <3>3. SetToSeq(S) \in Seq(S)
      BY <3>2, SetListed
    <3>4. l[k] \in Seq(S)
      BY <1>3, <3>1, <3>3
    <3>. QED  BY <3>2, <3>4, SeqGrows
  <2>3. l \in [1..Len(ud.inputs) -> Seq(used)]
    BY <1>3, <2>1, <2>2
  <2>4. l \in Seq(Seq(used))
    BY <2>1, <2>3, SeqDef
  <2>. QED  BY <2>4, FlattenKeeps
<1>6. PICK u : u = FlattenSeq(l)
  OBVIOUS
<1>7. IsSequence(u) /\ Elements(u) \subseteq used
  BY <1>5, <1>6, SequenceIs
<1>8. OperandsOf(ud, used) = d \o u
  BY <1>1, <1>2, <1>3, <1>6 DEF OperandsOf
<1>9. PICK o : o = d \o u
  OBVIOUS
<1>10. IsSequence(o) /\ Elements(o) \subseteq LeavesIn(ud) \cup used
  BY <1>4, <1>7, <1>9, JoinedSequences
<1>11. o \in Seq(LeavesIn(ud) \cup used)
  BY <1>10, SeqGrows DEF IsSequence
<1>. QED  BY <1>8, <1>9, <1>11

(* The leaves of a function.                                               *)
LeavesOf(insns) == {Leaf(c) : c \in UNION {ToSet(Constants(insns[q].ud)) : q \in Positions}}

LEMMA LeavesAreLeaves ==
    ASSUME NEW insns, NEW id \in LeavesOf(insns)
    PROVE  IsLeaf(id) /\ ~IsSink(id)
BY DEF LeavesOf, Leaf, IsLeaf, IsSink

-----------------------------------------------------------------------------
(* The nodes of a graph, which a comparison knows by their names.           *)

SinkIds(ends) == UNION {{SinkId(b, k) : k \in DOMAIN ends[b]} : b \in DOMAIN ends}
Names(insns, nodes, ends) == LeavesOf(insns) \cup SinkIds(ends) \cup DOMAIN nodes

(* The three sorts of names.                                               *)
LEMMA NamesApart ==
    ASSUME NEW insns, NEW nodes, NEW ends, NEW succ, Walkable(nodes, ends, succ)
    PROVE  /\ \A id \in SinkIds(ends) : ~IsLeaf(id) /\ IsSink(id)
           /\ \A id \in DOMAIN nodes : id \in Node /\ ~IsLeaf(id) /\ ~IsSink(id)
<1>1. ASSUME NEW id \in SinkIds(ends) PROVE ~IsLeaf(id) /\ IsSink(id)
  <2>1. PICK b, k : id = SinkId(b, k)
    BY DEF SinkIds
  <2>. QED  BY <2>1 DEF SinkId, IsLeaf, IsSink
<1>2. ASSUME NEW id \in DOMAIN nodes PROVE id \in Node /\ ~IsLeaf(id) /\ ~IsSink(id)
  <2>1. id \in Node
    BY DEF Walkable
  <2>2. DOMAIN id = {"kind", "at", "reg", "pass"}
    BY <2>1 DEF Node
  <2>. QED  BY <2>1, <2>2 DEF IsLeaf, IsSink
<1>. QED  BY <1>1, <1>2

(* The inputs of a leaf, of a sink and of a variable node.                 *)
LEMMA InputsFound ==
    ASSUME NEW insns, NEW from, DecodedFrom(insns, from),
           NEW nodes, NEW ends, NEW succ, Walkable(nodes, ends, succ),
           NEW order \in Orders(nodes)
    PROVE  /\ \A id \in LeavesOf(insns) : InputsIn(insns, nodes, ends, order, id) = <<>>
           /\ \A id \in SinkIds(ends) :
                 InputsIn(insns, nodes, ends, order, id) \in Seq(LeavesOf(insns) \cup DOMAIN nodes)
           /\ \A id \in DOMAIN nodes :
                 InputsIn(insns, nodes, ends, order, id) \in Seq(LeavesOf(insns) \cup nodes[id])
<1> DEFINE In(id) == InputsIn(insns, nodes, ends, order, id)
<1>1. ASSUME NEW id \in LeavesOf(insns) PROVE In(id) = <<>>
  BY LeavesAreLeaves DEF InputsIn
<1>2. ASSUME NEW q \in Positions, NEW used, IsFiniteSet(used)
      PROVE  OperandsOf(insns[q].ud, used) \in Seq(LeavesOf(insns) \cup used)
  <2>1. PICK L : L = LeavesIn(insns[q].ud)
    OBVIOUS
  <2>2. OperandsOf(insns[q].ud, used) \in Seq(L \cup used)
    BY <1>2, <2>1, UDListed, OperandsListed
  <2>3. L \cup used \subseteq LeavesOf(insns) \cup used
    BY <2>1 DEF LeavesOf, LeavesIn
  <2>. QED  BY <2>2, <2>3, SeqGrows
<1>3. ASSUME NEW id \in SinkIds(ends)
      PROVE  In(id) \in Seq(LeavesOf(insns) \cup DOMAIN nodes)
  <2>1. PICK b \in DOMAIN ends : \E k \in DOMAIN ends[b] : id = SinkId(b, k)
    BY DEF SinkIds
  <2>9. PICK k \in DOMAIN ends[b] : id = SinkId(b, k)
    BY <2>1
  <2>2. id.sink = b /\ id.n = k
    BY <2>9 DEF SinkId
  <2>3. PICK s : s = ends[b][k]
    OBVIOUS
  <2>4. s \in Sink /\ SinkListed(s, DOMAIN nodes)
    <3>1. ends \in Seq(Seq(Sink))
      BY DEF Walkable
    <3>2. ends[b] \in Seq(Sink)
      BY <3>1, SeqIsList
    <3>3. s \in Sink
      BY <2>3, <3>2, SeqIsList
    <3>. QED  BY <2>3, <3>3 DEF Walkable
  <2>5. IsFiniteSet(s.inputs) /\ s.inputs \subseteq DOMAIN nodes
        /\ (s.kind = "return" \/ s.at \in Positions)
    BY <2>4 DEF SinkListed, Sink
  <2>6. In(id) = IF s.kind = "return" THEN SetToSeq(s.inputs)
                 ELSE OperandsOf(insns[s.at].ud, s.inputs)
    BY <2>2, <2>3, NamesApart DEF InputsIn
  <2>7. CASE s.kind = "return"
    <3>1. SetToSeq(s.inputs) \in Seq(s.inputs)
      BY <2>5, SetListed
    <3>2. s.inputs \subseteq LeavesOf(insns) \cup DOMAIN nodes
      BY <2>5
    <3>. QED  BY <2>6, <2>7, <3>1, <3>2, SeqGrows
  <2>8. CASE s.kind # "return"
    <3>1. OperandsOf(insns[s.at].ud, s.inputs) \in Seq(LeavesOf(insns) \cup s.inputs)
      BY <1>2, <2>5, <2>8
    <3>2. LeavesOf(insns) \cup s.inputs \subseteq LeavesOf(insns) \cup DOMAIN nodes
      BY <2>5
    <3>. QED  BY <2>6, <2>8, <3>1, <3>2, SeqGrows
  <2>. QED  BY <2>7, <2>8
<1>4. ASSUME NEW id \in DOMAIN nodes PROVE In(id) \in Seq(LeavesOf(insns) \cup nodes[id])
  <2>1. /\ IsFiniteSet(nodes[id]) /\ id \in Node
        /\ ~IsOperand(id) => id.at \in Positions
    BY DEF Walkable
  <2>2. In(id) = CASE id.kind = "input" -> <<>>
                   [] id.kind = "phi"   -> order[id]
                   [] OTHER             -> OperandsOf(insns[id.at].ud, nodes[id])
    BY NamesApart DEF InputsIn
  <2>3. CASE id.kind = "input"
    <3>1. In(id) = <<>>
      BY <2>2, <2>3
    <3>. QED  BY <3>1, EmptySeq
  <2>4. CASE id.kind = "phi"
    <3>1. order[id] \in SetToSeqs(nodes[id])
      BY <2>4 DEF Orders, Phis
    <3>2. order[id] \in Seq(nodes[id])
      BY <2>1, <3>1, SetOrdered
    <3>3. nodes[id] \subseteq LeavesOf(insns) \cup nodes[id]
      OBVIOUS
    <3>4. In(id) = order[id]
      BY <2>2, <2>4
    <3>. QED  BY <3>2, <3>3, <3>4, SeqGrows
  <2>5. CASE id.kind \notin {"input", "phi"}
    <3>1. id.at \in Positions
      BY <2>1, <2>5 DEF IsOperand
    <3>2. In(id) = OperandsOf(insns[id.at].ud, nodes[id])
      BY <2>2, <2>5
    <3>. QED  BY <1>2, <2>1, <3>1, <3>2
  <2>. QED  BY <2>3, <2>4, <2>5
<1>. QED  BY <1>1, <1>3, <1>4

(* Of the variable nodes in a set, one was made before the others.         *)
LEMMA OldestExists ==
    ASSUME NEW S, S # {}, S \subseteq Node
    PROVE  \E n \in S : \A m \in S : ~Older(m, n)
<1> DEFINE Passes == {n.pass : n \in S}
<1>1. \A n \in S : n.pass \in Nat /\ n.at \in Nat
  BY DEF Node
<1>2. PICK x \in Passes : \A y \in Passes : x <= y
  BY <1>1, LeastExists
<1> DEFINE T == {n \in S : n.pass = x}
           Ats == {n.at : n \in T}
<1>3. T # {}
  BY <1>2
<1>4. Ats \subseteq Nat /\ Ats # {}
  BY <1>1, <1>3
<1>5. PICK p \in Ats : \A y \in Ats : p <= y
  BY <1>4, LeastExists
<1>6. \A n \in S : ~(n.pass < x) /\ (n.pass = x => ~(n.at < p))
  <2>1. ASSUME NEW n \in S PROVE ~(n.pass < x) /\ (n.pass = x => ~(n.at < p))
    <3>1. x <= n.pass /\ x \in Nat /\ n.pass \in Nat
      BY <1>1, <1>2
    <3>2. n.pass = x => p <= n.at /\ p \in Nat /\ n.at \in Nat
      BY <1>1, <1>4, <1>5
    <3>. QED  BY <3>1, <3>2
  <2>. QED  BY <2>1
<1> DEFINE U == {n \in T : n.at = p}
<1>7. U # {}
  BY <1>5
<1>8. PICK n \in U : IsOperand(n) \/ \A m \in U : ~IsOperand(m)
  BY <1>7
<1>9. n \in S /\ n.pass = x /\ n.at = p
  BY <1>8
<1>10. ASSUME NEW m \in S, Older(m, n) PROVE FALSE
  <2>1. m.pass = x /\ m.at = p /\ IsOperand(m) /\ ~IsOperand(n)
    BY <1>6, <1>9, <1>10 DEF Older
  <2>2. m \in U
    BY <2>1
  <2>. QED  BY <1>8, <2>1, <2>2
<1>. QED  BY <1>9, <1>10

(* The graph of a function that has been analysed to the end is one that   *)
(* can be compared.                                                        *)
LEMMA FlowGraph ==
    ASSUME NEW insns, NEW from, DecodedFrom(insns, from),
           NEW nodes, NEW ends, NEW succ, Walkable(nodes, ends, succ),
           NEW blockOf, NEW order \in Orders(nodes)
    PROVE  Comparator!IsGraph(FlowOf(insns, nodes, ends, blockOf, succ, order))
<1>1. PICK N : N = Names(insns, nodes, ends)
  OBVIOUS
<1>2. PICK G : G = [id \in N |-> FlowNode(insns, nodes, ends, blockOf, order, id)]
  OBVIOUS
<1>3. PICK T : T = [b \in DOMAIN ends |-> [k \in DOMAIN ends[b] |-> SinkId(b, k)]]
  OBVIOUS
<1>4. FlowOf(insns, nodes, ends, blockOf, succ, order) = [nodes |-> G, sinks |-> T, succ |-> succ]
  <2>1. N = {Leaf(c) : c \in UNION {ToSet(Constants(insns[p].ud)) : p \in Positions}}
               \cup (UNION {{SinkId(b, k) : k \in DOMAIN ends[b]} : b \in DOMAIN ends})
               \cup DOMAIN nodes
    BY <1>1 DEF Names, LeavesOf, SinkIds
  <2>. QED  BY <1>2, <1>3, <2>1 DEF FlowOf
<1>5. PICK In : In = [id \in N |-> InputsIn(insns, nodes, ends, order, id)]
  OBVIOUS
<1>6. DOMAIN G = N /\ \A id \in N : G[id].inputs = In[id]
  <2>1. ASSUME NEW id \in N
        PROVE  FlowNode(insns, nodes, ends, blockOf, order, id).inputs
                  = InputsIn(insns, nodes, ends, order, id)
    <3>1. PICK i : i = InputsIn(insns, nodes, ends, order, id)
      OBVIOUS
    <3>. QED  BY <3>1 DEF FlowNode
  <2>. QED  BY <1>2, <1>5, <2>1
<1>7. /\ N = LeavesOf(insns) \cup SinkIds(ends) \cup DOMAIN nodes
      /\ \A id \in LeavesOf(insns) : In[id] = <<>>
      /\ \A id \in SinkIds(ends) : In[id] \in Seq(LeavesOf(insns) \cup DOMAIN nodes)
      /\ \A id \in DOMAIN nodes : In[id] \in Seq(LeavesOf(insns) \cup nodes[id])
  BY <1>1, <1>5, InputsFound DEF Names
<1>8. \A id \in DOMAIN nodes :
         nodes[id] \subseteq DOMAIN nodes /\ \A m \in nodes[id] : Older(m, id)
  BY DEF Walkable
<1>9. ASSUME NEW id \in N PROVE In[id] \in Seq(N)
  <2>1. CASE id \in LeavesOf(insns)
    BY <1>7, <2>1, EmptySeq
  <2>2. CASE id \in SinkIds(ends)
    <3>1. LeavesOf(insns) \cup DOMAIN nodes \subseteq N
      BY <1>7
    <3>. QED  BY <1>7, <2>2, <3>1, SeqGrows
  <2>3. CASE id \in DOMAIN nodes
    <3>1. LeavesOf(insns) \cup nodes[id] \subseteq N
      BY <1>7, <1>8, <2>3
    <3>. QED  BY <1>7, <2>3, <3>1, SeqGrows
  <2>. QED  BY <1>7, <2>1, <2>2, <2>3
<1>10. ASSUME NEW S \in (SUBSET N) \ {{}}
       PROVE  \E n \in S : \A i \in DOMAIN In[n] : In[n][i] \notin S
  <2>1. CASE S \cap LeavesOf(insns) # {}
    BY <1>7, <2>1
  <2>2. CASE S \cap LeavesOf(insns) = {} /\ S \cap DOMAIN nodes # {}
    <3>1. PICK V : V = S \cap DOMAIN nodes
      OBVIOUS
    <3>2. V # {} /\ V \subseteq Node
      BY <2>2, <3>1 DEF Walkable
    <3>3. PICK n \in V : \A m \in V : ~Older(m, n)
      BY <3>2, OldestExists
    <3>4. ASSUME NEW i \in DOMAIN In[n], In[n][i] \in S PROVE FALSE
      <4>1. In[n][i] \in LeavesOf(insns) \cup nodes[n]
        BY <1>7, <3>1, <3>3, SeqIsList
      <4>2. In[n][i] \in nodes[n]
        BY <2>2, <3>4, <4>1
      <4>3. In[n][i] \in V /\ Older(In[n][i], n)
        BY <1>8, <3>1, <3>3, <3>4, <4>2
      <4>. QED  BY <3>3, <4>3
    <3>. QED  BY <3>1, <3>3, <3>4
  <2>3. CASE S \cap LeavesOf(insns) = {} /\ S \cap DOMAIN nodes = {}
    <3>1. PICK n \in S : TRUE
      OBVIOUS
    <3>2. n \in SinkIds(ends)
      BY <1>7, <2>3
    <3>3. \A i \in DOMAIN In[n] : In[n][i] \in LeavesOf(insns) \cup DOMAIN nodes
      BY <1>7, <3>2, SeqIsList
    <3>. QED  BY <2>3, <3>3
  <2>. QED  BY <2>1, <2>2, <2>3
<1>11. T \in Seq(Seq(N)) /\ DOMAIN T = DOMAIN ends /\ Len(T) = Len(ends)
  <2>1. ends \in Seq(Seq(Sink))
    BY DEF Walkable
  <2>2. DOMAIN ends = 1..Len(ends) /\ Len(ends) \in Nat
    BY <2>1, LenProperties
  <2>3. ASSUME NEW b \in DOMAIN ends PROVE T[b] \in Seq(N)
    <3>1. ends[b] \in Seq(Sink)
      BY <2>1, SeqIsList
    <3>2. DOMAIN ends[b] = 1..Len(ends[b]) /\ Len(ends[b]) \in Nat
      BY <3>1, LenProperties
    <3>3. \A k \in DOMAIN ends[b] : SinkId(b, k) \in N
      BY <1>7 DEF SinkIds
    <3>4. T[b] \in [1..Len(ends[b]) -> N]
      BY <1>3, <3>2, <3>3
    <3>. QED  BY <3>2, <3>4, SeqDef
  <2>4. T \in [1..Len(ends) -> Seq(N)]
    BY <1>3, <2>2, <2>3
  <2>. QED  BY <2>2, <2>4, ListIs
<1>12. succ \in Seq(Seq(DOMAIN T)) /\ Len(T) = Len(succ)
  BY <1>11 DEF Walkable
<1>13. PICK f : f = [nodes |-> G, sinks |-> T, succ |-> succ]
  OBVIOUS
<1>14. f.nodes = G /\ f.sinks = T /\ f.succ = succ
  BY <1>13
<1>15. Comparator!Grounded(f)
  BY <1>6, <1>10, <1>14 DEF Comparator!Grounded
<1>16. \A n \in DOMAIN f.nodes : f.nodes[n].inputs \in Seq(DOMAIN f.nodes)
  BY <1>6, <1>9, <1>14
<1>17. Comparator!IsGraph(f)
  BY <1>6, <1>11, <1>12, <1>14, <1>15, <1>16 DEF Comparator!IsGraph
<1>. QED  BY <1>4, <1>13, <1>17

-----------------------------------------------------------------------------
(* What is computed from the instructions of a straight function alone.    *)

(* ValuesOf is defined by recursion.                                       *)
Valued(insns, f, p) ==
    IF p = 0 THEN [r \in Regs |-> Unknown(r)]
    ELSE [r \in Regs |-> ValueAfter(insns, p - 1, f[p - 1], r)]
Values(insns, f, n) == f = [p \in 0..n |-> Valued(insns, f, p)]

LEMMA ValuesExist ==
    ASSUME NEW insns, NEW n \in Nat
    PROVE  \E f : Values(insns, f, n)
<1> DEFINE T == {m \in Nat : ~ \E f : Values(insns, f, m)}
<1>. SUFFICES ASSUME T # {} PROVE FALSE
  OBVIOUS
<1>1. PICK m \in T : \A i \in T : m <= i
  BY LeastExists
<1>2. m # 0
  <2> DEFINE f == [p \in 0..0 |-> [r \in Regs |-> Unknown(r)]]
  <2>1. f = [p \in 0..0 |-> Valued(insns, f, p)]
    BY DEF Valued
  <2>2. Values(insns, f, 0)
    BY <2>1 DEF Values
  <2>. QED  BY <2>2
<1>3. m - 1 \in Nat /\ m - 1 \notin T
  BY <1>1, <1>2
<1>4. PICK f : Values(insns, f, m - 1)
  BY <1>3
<1> DEFINE g == [p \in 0..m |-> Valued(insns, f, p)]
<1>5. \A p \in 0..(m - 1) : g[p] = f[p]
  BY <1>3, <1>4 DEF Values
<1>6. ASSUME NEW p \in 0..m PROVE Valued(insns, f, p) = Valued(insns, g, p)
  <2>1. CASE p = 0
    BY <2>1 DEF Valued
  <2>2. CASE p # 0
    <3>1. p - 1 \in 0..(m - 1)
      BY <2>2
    <3>2. g[p - 1] = f[p - 1]
      BY <1>5, <3>1
    <3> HIDE DEF g
    <3>. QED  BY <3>2 DEF Valued
  <2>. QED  BY <2>1, <2>2
<1>7. Values(insns, g, m)
  <2>1. g = [p \in 0..m |-> Valued(insns, g, p)]
    BY <1>6
  <2>. QED  BY <2>1 DEF Values
<1>. QED  BY <1>1, <1>7

LEMMA ValuesAre ==
    ASSUME NEW insns
    PROVE  /\ \A r \in Regs : ValuesOf(insns)[0][r] = Unknown(r)
           /\ \A p \in Positions, r \in Regs :
                 ValuesOf(insns)[p + 1][r] = ValueAfter(insns, p, ValuesOf(insns)[p], r)
<1>1. PICK V : V = ValuesOf(insns)
  OBVIOUS
<1>2. V = CHOOSE f : Values(insns, f, Length)
  BY <1>1 DEF ValuesOf, Values, Valued
<1>3. Values(insns, V, Length)
  BY <1>2, LengthAssumption, ValuesExist
<1>4. \A p \in 0..Length : V[p] = Valued(insns, V, p)
  BY <1>3 DEF Values
<1>5. V[0] = [r \in Regs |-> Unknown(r)]
  <2>1. V[0] = Valued(insns, V, 0)
    BY <1>4, LengthAssumption
  <2>. QED  BY <2>1 DEF Valued
<1>6. ASSUME NEW p \in Positions
      PROVE  V[p + 1] = [r \in Regs |-> ValueAfter(insns, p, V[p], r)]
  <2>1. p + 1 \in 0..Length /\ p + 1 # 0 /\ (p + 1) - 1 = p
    BY LengthAssumption DEF Positions
  <2>. QED  BY <1>4, <2>1 DEF Valued
<1>. QED  BY <1>1, <1>5, <1>6

(* The analyses see the same instructions.                                 *)
LEMMA StraightSeen ==
    ASSUME NEW insns, NEW from, DecodedFrom(insns, from),
           NEW c, c = CodeOf(insns), NEW o, o = OpsOf(insns)
    PROVE  /\ \A p \in Positions : /\ CallIn(c, p) <=> IsCall(insns[p])
                                   /\ IsBranch(c[p]) <=> insns[p].class = "branch"
                                   /\ o[p].store <=> insns[p].class = "store"
                                   /\ o[p].uses = ToSet(insns[p].ud.inputs) \cap Regs
                                   /\ o[p].defs = insns[p].ud.outputs \cap Regs
           /\ \A p \in 0..Length : Calls(c, p) = CallsBefore(insns, p)
           /\ Straight(insns) => IsStraight(c)
<1>1. ASSUME NEW p \in Positions
      PROVE  /\ c[p].kind = insns[p].kind /\ c[p].link = insns[p].link
             /\ c[p].target = insns[p].target
             /\ c[p].always = isBranchConditionUnconditional(insns[p].bo)
             /\ c[p].kind = "plain" <=> insns[p].class # "branch"
             /\ c[p].kind \in Kinds
  <2>1. insns[p].class = "branch" <=> insns[p].kind # "plain"
    <3>1. from[p].class = "branch" <=> from[p].kind # "plain"
      BY DEF DecodedFrom, IsInstruction
    <3>. QED  BY <3>1, DecodedFields
  <2>2. c[p] \in Insn
    BY CodeKept, InsnsAssumption
  <2>. QED  BY <2>1, <2>2 DEF CodeOf, Insn
<1>2. \A p \in Positions : CallIn(c, p) <=> IsCall(insns[p])
  BY <1>1 DEF CallIn, IsCall
<1>3. \A p \in Positions : IsBranch(c[p]) <=> insns[p].class = "branch"
  BY <1>1 DEF IsBranch, HasTarget, AtRuntime, Kinds
<1>4. \A p \in Positions : /\ o[p].store <=> insns[p].class = "store"
                           /\ o[p].uses = ToSet(insns[p].ud.inputs) \cap Regs
                           /\ o[p].defs = insns[p].ud.outputs \cap Regs
  BY DEF OpsOf
<1>5. ASSUME NEW p \in 0..Length PROVE Calls(c, p) = CallsBefore(insns, p)
  <2>1. \A q \in 0..(p - 1) : q \in Positions
    BY LengthAssumption DEF Positions
  <2>2. CallsUpTo(c, p) = {q \in 0..(p - 1) : IsCall(insns[q])}
    BY <1>2, <2>1 DEF CallsUpTo
  <2>. QED  BY <2>2 DEF Calls, CallsBefore
<1>6. ASSUME Straight(insns) PROVE IsStraight(c)
  <2>1. Length # 0 /\ IsReturn(insns[Length - 1]) /\ Length - 1 \in Positions
        /\ \A p \in 0..(Length - 2) :
              p \in Positions /\ (insns[p].class # "branch" \/ IsCall(insns[p]))
    BY <1>6, LengthAssumption DEF Straight, Positions
  <2>2. c[Length - 1].kind = "bclr" /\ ~c[Length - 1].link /\ c[Length - 1].always
    BY <1>1, <2>1 DEF IsReturn
  <2>3. \A p \in 0..(Length - 2) : c[p].kind = "plain" \/ CallIn(c, p)
    BY <1>1, <1>2, <2>1
  <2>4. c \in [Positions -> Insn]
    BY CodeKept, InsnsAssumption
  <2>. QED  BY <2>1, <2>2, <2>3, <2>4 DEF IsStraight
<1>. QED  BY <1>2, <1>3, <1>4, <1>5, <1>6

(* The term of a variable node.  Nothing is told of what a call returns.   *)
Blank == ""
OperandsAt(insns, V, p) == OperandTerms(insns[p].ud, V[p])
NodeTerm(insns, V, n) ==
    IF n.kind = "input" THEN Unknown(n.reg)
    ELSE IF n.kind = "callReturn" THEN <<"callreturn", Blank, OperandsAt(insns, V, n.at)>>
    ELSE Placed(insns, n.at, "result", OperandsAt(insns, V, n.at))

LEMMA TermOfNode ==
    ASSUME NEW insns, NEW V, NEW n
    PROVE  /\ n.kind = "input" => NodeTerm(insns, V, n) = Unknown(n.reg)
           /\ n.kind = "callReturn" =>
                 NodeTerm(insns, V, n) = <<"callreturn", Blank, OperandsAt(insns, V, n.at)>>
           /\ n.kind = "result" =>
                 NodeTerm(insns, V, n) = Placed(insns, n.at, "result", OperandsAt(insns, V, n.at))
BY DEF NodeTerm

(* The node that the data-flow analysis finds for a register has the value *)
(* of the register as its term.                                            *)
LEMMA HeldValue ==
    ASSUME NEW insns, NEW from, DecodedFrom(insns, from),
           NEW c, c = CodeOf(insns), NEW o, o = OpsOf(insns),
           NEW V, V = ValuesOf(insns), NEW p \in 0..Length, NEW r \in Regs
    PROVE  V[p][r] = NodeTerm(insns, V, UseOf(c, o, p, r))
<1> DEFINE T == {q \in Nat : q <= Length /\ V[q][r] # NodeTerm(insns, V, UseOf(c, o, q, r))}
<1>. SUFFICES ASSUME T # {} PROVE FALSE
  BY LengthAssumption
<1>1. PICK m \in T : \A i \in T : m <= i
  BY LeastExists
<1>2. ASSUME NEW q \in Nat, Holds(c, o, q, r) = {}
      PROVE  NodeTerm(insns, V, UseOf(c, o, q, r)) = Unknown(r)
  <2>1. UseOf(c, o, q, r) = NodeAt(c, "input", q, r)
    BY <1>2, UseIs
  <2>2. UseOf(c, o, q, r).kind = "input" /\ UseOf(c, o, q, r).reg = r
    BY <2>1 DEF NodeAt
  <2>. QED  BY <2>2, TermOfNode
<1>3. ASSUME NEW q \in Nat, NEW n, Holds(c, o, q, r) = {n} PROVE UseOf(c, o, q, r) = n
  BY <1>3, UseIs
<1>4. CASE m = 0
  <2>1. Holds(c, o, 0, r) = {}
    BY HoldsNext
  <2>2. V[0][r] = Unknown(r)
    BY ValuesAre
  <2>. QED  BY <1>1, <1>2, <1>4, <2>1, <2>2
<1>5. CASE m # 0
  <2>1. PICK q : q = m - 1
    OBVIOUS
  <2>2. q \in Nat /\ q \in Positions /\ q + 1 = m /\ q <= Length /\ ~(m <= q) /\ q \in 0..Length
    BY <1>1, <1>5, <2>1, LengthAssumption DEF Positions
  <2>3. V[q][r] = NodeTerm(insns, V, UseOf(c, o, q, r))
    BY <1>1, <2>2
  <2>4. PICK a : a = OperandsAt(insns, V, q)
    OBVIOUS
  <2>5. V[m][r] = IF IsCall(insns[q]) /\ r \in DefinedByCall THEN <<"callreturn", Blank, a>>
                  ELSE IF IsCall(insns[q]) /\ r \in KilledByCall THEN Unknown(r)
                  ELSE IF r \in insns[q].ud.outputs THEN Placed(insns, q, "result", a)
                  ELSE V[q][r]
    <3>1. V[q + 1][r] = ValueAfter(insns, q, V[q], r)
      BY <2>2, ValuesAre
    <3>2. ValueAfter(insns, q, V[q], r)
            = IF IsCall(insns[q]) /\ r \in DefinedByCall THEN <<"callreturn", Blank, a>>
              ELSE IF IsCall(insns[q]) /\ r \in KilledByCall THEN Unknown(r)
              ELSE IF r \in insns[q].ud.outputs THEN Placed(insns, q, "result", a)
              ELSE V[q][r]
      BY <2>4 DEF ValueAfter, OperandsAt, Blank
    <3>. QED  BY <2>2, <3>1, <3>2
  <2>6. /\ CallIn(c, q) <=> IsCall(insns[q])
        /\ r \in o[q].defs <=> r \in insns[q].ud.outputs
    BY <2>2, StraightSeen
  <2>7. /\ Writes(c, o, q, r) => Holds(c, o, m, r) = Left(c, q, r)
        /\ ~Writes(c, o, q, r) => Holds(c, o, m, r) = Holds(c, o, q, r)
    BY <2>2, HoldsNext
  <2>8. CASE IsCall(insns[q]) /\ r \in DefinedByCall
    <3>0. UseOf(c, o, m, r) = NodeAt(c, "callReturn", q, r)
      BY <1>1, <1>3, <2>6, <2>7, <2>8 DEF Writes, Left
    <3>1. UseOf(c, o, m, r).kind = "callReturn" /\ UseOf(c, o, m, r).at = q
      BY <3>0 DEF NodeAt
    <3>2. NodeTerm(insns, V, UseOf(c, o, m, r)) = <<"callreturn", Blank, a>>
      BY <2>4, <3>1, TermOfNode
    <3>. QED  BY <1>1, <2>5, <2>8, <3>2
  <2>9. CASE IsCall(insns[q]) /\ r \notin DefinedByCall /\ r \in KilledByCall
    <3>1. Holds(c, o, m, r) = {}
      BY <2>6, <2>7, <2>9 DEF Writes, Left
    <3>. QED  BY <1>1, <1>2, <2>5, <2>9, <3>1
  <2>10. CASE /\ ~(IsCall(insns[q]) /\ r \in DefinedByCall \cup KilledByCall)
              /\ r \in insns[q].ud.outputs
    <3>0. UseOf(c, o, m, r) = NodeAt(c, "result", q, r)
      BY <1>1, <1>3, <2>6, <2>7, <2>10 DEF Writes, Left
    <3>1. UseOf(c, o, m, r).kind = "result" /\ UseOf(c, o, m, r).at = q
      BY <3>0 DEF NodeAt
    <3>2. NodeTerm(insns, V, UseOf(c, o, m, r)) = Placed(insns, q, "result", a)
      BY <2>4, <3>1, TermOfNode
    <3>. QED  BY <1>1, <2>5, <2>10, <3>2
  <2>11. CASE /\ ~(IsCall(insns[q]) /\ r \in DefinedByCall \cup KilledByCall)
              /\ r \notin insns[q].ud.outputs
    <3>1. Holds(c, o, m, r) = Holds(c, o, q, r)
      BY <2>6, <2>7, <2>11 DEF Writes
    <3>2. NodeTerm(insns, V, UseOf(c, o, m, r)) = NodeTerm(insns, V, UseOf(c, o, q, r))
      BY <1>1, <1>2, <1>3, <2>2, <3>1, UseIs
    <3>. QED  BY <1>1, <2>3, <2>5, <2>11, <3>2
  <2>. QED  BY <2>8, <2>9, <2>10, <2>11
<1>. QED  BY <1>4, <1>5

-----------------------------------------------------------------------------
(* The operands of an instruction, as nodes and as terms.                  *)

(* W names the nodes of the registers that are read, which have the terms  *)
(* that are expected of them.                                              *)
Finds(ud, T, W, values, used) ==
    /\ HasLists(ud)
    /\ \A c \in ToSet(Constants(ud)) : T[Leaf(c)] = Given(c)
    /\ \A r \in Regs : W[r].reg = r
    /\ \A r \in ToSet(ud.inputs) \cap Regs : T[W[r]] = values[r]
    /\ used = {W[r] : r \in ToSet(ud.inputs) \cap Regs}

LEMMA OperandsRead ==
    ASSUME NEW ud, NEW T, NEW W, NEW values, NEW used, Finds(ud, T, W, values, used)
    PROVE  Translate(T, OperandsOf(ud, used)) = OperandTerms(ud, values)
<1>0. /\ HasLists(ud)
      /\ \A c \in ToSet(Constants(ud)) : T[Leaf(c)] = Given(c)
      /\ \A r \in Regs : W[r].reg = r
      /\ \A r \in ToSet(ud.inputs) \cap Regs : T[W[r]] = values[r]
      /\ used = {W[r] : r \in ToSet(ud.inputs) \cap Regs}
  BY DEF Finds
<1>1. PICK c, read : c = Constants(ud) /\ read = Sublist(ud.inputs, Regs)
  OBVIOUS
<1>2. PICK d, u : d = [k \in DOMAIN c |-> Leaf(c[k])] /\ u = Translate(W, read)
  OBVIOUS
<1>3. OperandsOf(ud, used) = d \o u
  <2>1. PICK w : w = FlattenSeq([k \in DOMAIN ud.inputs |->
                                    SetToSeq({n \in used : n.reg = ud.inputs[k]})])
    OBVIOUS
  <2>2. PICK s : s = ud.inputs
    OBVIOUS
  <2>3. IsSequence(s) /\ used = {W[r] : r \in ToSet(s) \cap Regs} /\ \A r \in Regs : W[r].reg = r
    BY <1>0, <2>2 DEF HasLists
  <2>4. FlattenSeq([k \in DOMAIN s |-> SetToSeq({n \in used : n.reg = s[k]})])
           = Translate(W, Sublist(s, Regs))
    BY <2>3, FlattenReads
  <2>5. w = u
    BY <1>1, <1>2, <2>1, <2>2, <2>4
  <2>6. OperandsOf(ud, used) = d \o w
    BY <1>1, <1>2, <2>1 DEF OperandsOf
  <2>. QED  BY <2>5, <2>6
<1>4. IsList(c)
  BY <1>0, <1>1, ConstantsListed, SequenceIsList
<1>5. IsSequence(d)
  <2>1. d = [k \in DOMAIN c |-> d[k]]
    BY <1>2
  <2>. QED  BY <1>4, <2>1, ListMapped
<1>6. IsList(read) /\ \A k \in DOMAIN read : read[k] \in ToSet(ud.inputs) \cap Regs
  <2>1. ud.inputs \in Seq(Elements(ud.inputs))
    BY <1>0 DEF IsSequence, HasLists
  <2>2. read \in Seq(Elements(ud.inputs) \cap Regs)
    BY <1>1, <2>1, SublistHolds
  <2>3. Elements(ud.inputs) = ToSet(ud.inputs)
    BY DEF Elements, ToSet
  <2>. QED  BY <2>2, <2>3, SeqIsList
<1>7. IsSequence(u) /\ DOMAIN u = DOMAIN read
  <2>1. u = [k \in DOMAIN read |-> u[k]]
    BY <1>2 DEF Translate
  <2>. QED  BY <1>6, <2>1, ListMapped
<1>8. Translate(T, d) = [k \in DOMAIN c |-> Given(c[k])]
  <2>1. \A k \in DOMAIN c : c[k] \in ToSet(c)
    BY DEF ToSet
  <2>. QED  BY <1>0, <1>1, <1>2, <2>1 DEF Translate
<1>9. Translate(T, u) = [k \in DOMAIN read |-> values[read[k]]]
  BY <1>0, <1>2, <1>6, <1>7 DEF Translate
<1>10. Translate(T, d \o u) = Translate(T, d) \o Translate(T, u)
  BY <1>5, <1>7, TranslateJoined
<1>. QED  BY <1>1, <1>3, <1>8, <1>9, <1>10 DEF OperandTerms

-----------------------------------------------------------------------------
(* The terms of the nodes in the graph of a straight function.             *)

SinkTerm(insns, V, s) ==
    IF s.kind = "return"
    THEN Placed(insns, s.at, "return",
                [k \in DOMAIN SetToSeq(s.inputs) |-> NodeTerm(insns, V, SetToSeq(s.inputs)[k])])
    ELSE Placed(insns, s.at, "sink", OperandsAt(insns, V, s.at))
TermOf(insns, V, ends, id) ==
    IF IsLeaf(id) THEN Given(id.leaf)
    ELSE IF IsSink(id) THEN SinkTerm(insns, V, ends[id.sink][id.n])
    ELSE NodeTerm(insns, V, id)
TermsOf(insns, nodes, ends) ==
    [id \in Names(insns, nodes, ends) |-> TermOf(insns, ValuesOf(insns), ends, id)]

(* The graph of a straight function that has been analysed to the end.     *)
StraightGraph(insns, blockOf, nodes, ends, succ, order) ==
    /\ \E from : DecodedFrom(insns, from)
    /\ Straight(insns)
    /\ Walkable(nodes, ends, succ)
    /\ StraightFlow(CodeOf(insns), OpsOf(insns), blockOf, nodes, ends, succ)
    /\ order \in Orders(nodes)

LEMMA NamedTerms ==
    ASSUME NEW insns, NEW nodes, NEW ends, NEW succ, Walkable(nodes, ends, succ),
           NEW V, V = ValuesOf(insns), NEW T, T = TermsOf(insns, nodes, ends)
    PROVE  /\ \A id \in LeavesOf(insns) : T[id] = Given(id.leaf)
           /\ \A b \in DOMAIN ends : \A k \in DOMAIN ends[b] :
                 T[SinkId(b, k)] = SinkTerm(insns, V, ends[b][k])
           /\ \A id \in DOMAIN nodes : T[id] = NodeTerm(insns, V, id)
<1>1. \A id \in Names(insns, nodes, ends) : T[id] = TermOf(insns, V, ends, id)
  BY DEF TermsOf
<1>2. ASSUME NEW id \in LeavesOf(insns) PROVE T[id] = Given(id.leaf)
  BY <1>1, LeavesAreLeaves DEF Names, TermOf
<1>3. ASSUME NEW b \in DOMAIN ends, NEW k \in DOMAIN ends[b]
      PROVE  T[SinkId(b, k)] = SinkTerm(insns, V, ends[b][k])
  <2>1. PICK id : id = SinkId(b, k)
    OBVIOUS
  <2>2. id \in SinkIds(ends) /\ id.sink = b /\ id.n = k
    <3>1. id \in SinkIds(ends)
      BY <2>1 DEF SinkIds
    <3>. QED  BY <2>1, <3>1 DEF SinkId
  <2>3. T[id] = TermOf(insns, V, ends, id)
    BY <1>1, <2>2 DEF Names
  <2>4. ~IsLeaf(id) /\ IsSink(id)
    BY <2>2, NamesApart
  <2>. QED  BY <2>1, <2>2, <2>3, <2>4 DEF TermOf
<1>4. ASSUME NEW id \in DOMAIN nodes PROVE T[id] = NodeTerm(insns, V, id)
  BY <1>1, NamesApart DEF Names, TermOf
<1>. QED  BY <1>2, <1>3, <1>4

(* What a comparison reads of a graph.                                     *)
LEMMA FlowFields ==
    ASSUME NEW insns, NEW nodes, NEW ends, NEW succ, NEW blockOf, NEW order,
           NEW f, f = FlowOf(insns, nodes, ends, blockOf, succ, order)
    PROVE  /\ DOMAIN f.nodes = Names(insns, nodes, ends)
           /\ \A id \in DOMAIN f.nodes :
                 f.nodes[id] = FlowNode(insns, nodes, ends, blockOf, order, id)
           /\ DOMAIN f.sinks = DOMAIN ends
           /\ \A b \in DOMAIN ends : f.sinks[b] = [k \in DOMAIN ends[b] |-> SinkId(b, k)]
           /\ f.succ = succ
<1>1. PICK N : N = Names(insns, nodes, ends)
  OBVIOUS
<1>2. PICK G : G = [id \in N |-> FlowNode(insns, nodes, ends, blockOf, order, id)]
  OBVIOUS
<1>3. PICK S : S = [b \in DOMAIN ends |-> [k \in DOMAIN ends[b] |-> SinkId(b, k)]]
  OBVIOUS
<1>4. f = [nodes |-> G, sinks |-> S, succ |-> succ]
  <2>1. N = {Leaf(c) : c \in UNION {ToSet(Constants(insns[p].ud)) : p \in Positions}}
               \cup (UNION {{SinkId(b, k) : k \in DOMAIN ends[b]} : b \in DOMAIN ends})
               \cup DOMAIN nodes
    BY <1>1 DEF Names, LeavesOf, SinkIds
  <2>. QED  BY <1>2, <1>3, <2>1 DEF FlowOf
<1>5. f.nodes = G /\ f.sinks = S /\ f.succ = succ
  BY <1>4
<1>. QED  BY <1>1, <1>2, <1>3, <1>5

FieldsFit(insns, blockOf, nodes, ends, order, id, m) ==
    /\ m.inputs = InputsIn(insns, nodes, ends, order, id)
    /\ id \in LeavesOf(insns) => m.type = id.leaf[1] /\ m.detail = id.leaf[2]
    /\ \A b \in DOMAIN ends : \A k \in DOMAIN ends[b] : id = SinkId(b, k) =>
          /\ m.type = ends[b][k].kind
          /\ m.detail = <<insns[ends[b][k].at].name, blockOf[ends[b][k].at]>>
    /\ id \in DOMAIN nodes =>
          /\ id.kind = "input" => m.type = "input" /\ m.detail = id.reg
          /\ id.kind = "callReturn" => m.type = "callreturn" /\ m.detail = Blank
          /\ id.kind = "result" =>
                m.type = "result" /\ m.detail = <<insns[id.at].name, blockOf[id.at]>>

LEMMA NodeFields ==
    ASSUME NEW insns, NEW nodes, NEW ends, NEW succ, Walkable(nodes, ends, succ),
           NEW blockOf, NEW order, NEW id, NEW m,
           m = FlowNode(insns, nodes, ends, blockOf, order, id)
    PROVE  FieldsFit(insns, blockOf, nodes, ends, order, id, m)
<1>1. PICK i : i = InputsIn(insns, nodes, ends, order, id)
  OBVIOUS
<1>2. m.inputs = i
  BY <1>1 DEF FlowNode
<1>3. ASSUME id \in LeavesOf(insns) PROVE m.type = id.leaf[1] /\ m.detail = id.leaf[2]
  <2>1. IsLeaf(id) /\ ~IsSink(id)
    BY <1>3, LeavesAreLeaves
  <2>2. m = [type |-> id.leaf[1], detail |-> id.leaf[2], inputs |-> i]
    BY <1>1, <2>1 DEF FlowNode
  <2>. QED  BY <2>2
<1>4. ASSUME NEW b \in DOMAIN ends, NEW k \in DOMAIN ends[b], id = SinkId(b, k)
      PROVE  /\ m.type = ends[b][k].kind
             /\ m.detail = <<insns[ends[b][k].at].name, blockOf[ends[b][k].at]>>
  <2>1. id \in SinkIds(ends) /\ id.sink = b /\ id.n = k
    <3>1. id \in SinkIds(ends)
      BY <1>4 DEF SinkIds
    <3>. QED  BY <1>4, <3>1 DEF SinkId
  <2>2. ~IsLeaf(id) /\ IsSink(id)
    BY <2>1, NamesApart
  <2>3. PICK s : s = ends[b][k]
    OBVIOUS
  <2>4. m = [type |-> s.kind, detail |-> <<insns[s.at].name, blockOf[s.at]>>, inputs |-> i]
    BY <1>1, <2>1, <2>2, <2>3 DEF FlowNode
  <2>. QED  BY <2>3, <2>4
<1>5. ASSUME id \in DOMAIN nodes
      PROVE  /\ id.kind = "input" => m.type = "input" /\ m.detail = id.reg
             /\ id.kind = "callReturn" => m.type = "callreturn" /\ m.detail = Blank
             /\ id.kind = "result" =>
                   m.type = "result" /\ m.detail = <<insns[id.at].name, blockOf[id.at]>>
  <2>1. ~IsLeaf(id) /\ ~IsSink(id)
    BY <1>5, NamesApart
  <2>2. CASE id.kind = "input"
    <3>1. m = [type |-> "input", detail |-> id.reg, inputs |-> i]
      BY <1>1, <2>1, <2>2 DEF FlowNode
    <3>. QED  BY <2>2, <3>1
  <2>3. CASE id.kind = "callReturn"
    <3>1. m = [type |-> "callreturn", detail |-> Blank, inputs |-> i]
      BY <1>1, <2>1, <2>3 DEF FlowNode, Blank
    <3>2. m.type = "callreturn" /\ m.detail = Blank
      BY <3>1
    <3>3. id.kind # "input" /\ id.kind # "result"
      BY <2>3
    <3>. QED  BY <3>2, <3>3
  <2>4. CASE id.kind = "result"
    <3>1. m = [type |-> "result", detail |-> <<insns[id.at].name, blockOf[id.at]>>, inputs |-> i]
      BY <1>1, <2>1, <2>4 DEF FlowNode
    <3>. QED  BY <2>4, <3>1
  <2>. QED  BY <2>2, <2>3, <2>4
<1>. QED  BY <1>1, <1>2, <1>3, <1>4, <1>5 DEF FieldsFit

(* The sinks between two calls, and the values returned, as sequences.     *)
LEMMA SinkParts ==
    ASSUME NEW c, NEW o, NEW n
    PROVE  /\ IsSequence(SinksOf(c, o, n, Length)) /\ IsSequence(ReturnsOf(c, o))
           /\ \A s \in Elements(SinksOf(c, o, n, Length)) :
                 /\ s.kind = "sink" /\ s.at \in Ends(c, o, n, Length)
                 /\ s.inputs = UsesOf(c, o, s.at)
           /\ \A s \in Elements(ReturnsOf(c, o)) : s.kind = "return" /\ s.at = Length - 1
<1>1. PICK E, places : E = Ends(c, o, n, Length) /\ places = Sublist(Numbers, E)
  OBVIOUS
<1>2. PICK D, regs : /\ D = {r \in DefinedByCall : Holds(c, o, Length, r) # {}}
                     /\ regs = Sublist(SetToSeq(DefinedByCall), D)
  OBVIOUS
<1>3. IsList(places) /\ \A k \in DOMAIN places : places[k] \in E
  <2>1. places \in Seq(Nat \cap E)
    BY <1>1, NumbersAre, SublistHolds
  <2>. QED  BY <2>1, SeqIsList
<1>4. IsList(regs)
  <2>1. IsFiniteSet(DefinedByCall)
    BY CallAssumption, FS_Subset
  <2>2. SetToSeq(DefinedByCall) \in Seq(DefinedByCall)
    BY <2>1, SetListed
  <2>3. regs \in Seq(DefinedByCall \cap D)
    BY <1>2, <2>2, SublistHolds
  <2>. QED  BY <2>3, SeqIsList
<1>5. PICK x : x = [k \in DOMAIN places |->
                      [kind |-> "sink", at |-> places[k], inputs |-> UsesOf(c, o, places[k])]]
  OBVIOUS
<1>6. PICK y : y = [k \in DOMAIN regs |-> [kind |-> "return", at |-> Length - 1,
                                          inputs |-> {UseOf(c, o, Length, regs[k])}]]
  OBVIOUS
<1>7. SinksOf(c, o, n, Length) = x /\ ReturnsOf(c, o) = y
  BY <1>1, <1>2, <1>5, <1>6 DEF SinksOf, ReturnsOf
<1>8. IsSequence(x) /\ IsSequence(y) /\ DOMAIN x = DOMAIN places /\ DOMAIN y = DOMAIN regs
  <2>1. x = [k \in DOMAIN places |-> x[k]] /\ y = [k \in DOMAIN regs |-> y[k]]
    BY <1>5, <1>6
  <2>. QED  BY <1>3, <1>4, <2>1, ListMapped
<1>9. ASSUME NEW s \in Elements(x)
      PROVE  s.kind = "sink" /\ s.at \in E /\ s.inputs = UsesOf(c, o, s.at)
  <2>1. PICK k \in DOMAIN places : s = x[k]
    BY <1>8 DEF Elements
  <2>2. PICK p : p = places[k]
    OBVIOUS
  <2>3. s = [kind |-> "sink", at |-> p, inputs |-> UsesOf(c, o, p)]
    BY <1>5, <2>1, <2>2
  <2>4. s.kind = "sink" /\ s.at = p /\ s.inputs = UsesOf(c, o, p)
    BY <2>3
  <2>. QED  BY <1>3, <2>1, <2>2, <2>4
<1>10. ASSUME NEW s \in Elements(y) PROVE s.kind = "return" /\ s.at = Length - 1
  <2>1. PICK k \in DOMAIN regs : s = y[k]
    BY <1>8 DEF Elements
  <2>2. s = [kind |-> "return", at |-> Length - 1, inputs |-> {UseOf(c, o, Length, regs[k])}]
    BY <1>6, <2>1
  <2>. QED  BY <2>2
<1>. QED  BY <1>1, <1>7, <1>8, <1>9, <1>10

(* The sinks of a straight function are its stores, its branches and the   *)
(* values it returns.                                                      *)
LEMMA SinksFit ==
    ASSUME NEW insns, NEW nodes, NEW ends, NEW succ, NEW blockOf, NEW order,
           StraightGraph(insns, blockOf, nodes, ends, succ, order),
           NEW c, c = CodeOf(insns), NEW o, o = OpsOf(insns),
           NEW b \in DOMAIN ends, NEW k \in DOMAIN ends[b], NEW s, s = ends[b][k]
    PROVE  /\ s.at \in Positions /\ s.inputs \subseteq DOMAIN nodes /\ IsFiniteSet(s.inputs)
           /\ s.kind \in {"sink", "return"}
           /\ s.kind = "sink" => s.inputs = UsesOf(c, o, s.at)
<1>1. PICK K : K = Calls(c, Length)
  OBVIOUS
<1>2. PICK from : DecodedFrom(insns, from)
  BY DEF StraightGraph
<1>3. /\ Straight(insns) /\ Walkable(nodes, ends, succ)
      /\ StraightFlow(c, o, blockOf, nodes, ends, succ)
  BY DEF StraightGraph
<1>4. s \in Sink /\ SinkListed(s, DOMAIN nodes)
  <2>1. ends \in Seq(Seq(Sink))
    BY <1>3 DEF Walkable
  <2>2. ends[b] \in Seq(Sink)
    BY <2>1, SeqIsList
  <2>3. s \in Sink
    BY <2>2, SeqIsList
  <2>. QED  BY <1>3, <2>3 DEF Walkable
<1>5. s.kind \in {"sink", "return"} /\ s.inputs \subseteq DOMAIN nodes /\ IsFiniteSet(s.inputs)
  BY <1>4 DEF Sink, SinkListed
<1>6. K \in Nat
  BY <1>1, CallsCount, LengthAssumption
<1>7. PICK n \in 0..K : b = 2 * n + 1 \/ b = 2 * n + 2
  <2>1. Len(ends) = 2 * K + 2 /\ DOMAIN ends = 1..Len(ends)
    <3>1. Len(succ) = 2 * K + 2
      BY <1>1, <1>3 DEF StraightFlow
    <3>2. ends \in Seq(Seq(Sink)) /\ Len(succ) = Len(ends)
      BY <1>3 DEF Walkable
    <3>. QED  BY <3>1, <3>2, LenProperties
  <2>2. b \in 1..(2 * K + 2)
    BY <2>1
  <2>3. (b - 1) \div 2 \in 0..K /\ (b = 2 * ((b - 1) \div 2) + 1 \/ b = 2 * ((b - 1) \div 2) + 2)
    BY <1>6, <2>2
  <2>. QED  BY <2>3
<1>8. ends[2 * n + 1] = SinksAfter(c, o, n) /\ ends[2 * n + 2] = <<>>
  BY <1>1, <1>3, <1>7 DEF StraightFlow
<1>9. b = 2 * n + 1 /\ ends[b] = SinksAfter(c, o, n)
  <2>1. b # 2 * n + 2
    <3>. SUFFICES ASSUME b = 2 * n + 2 PROVE FALSE
      OBVIOUS
    <3>1. ends[b] = <<>>
      BY <1>8
    <3>. QED  BY <3>1
  <2>. QED  BY <1>7, <1>8, <2>1
<1>10. PICK x, y : x = SinksOf(c, o, n, Length) /\ y = ReturnsOf(c, o)
  OBVIOUS
<1>11. PICK z : z = (IF n = K THEN y ELSE <<>>)
  OBVIOUS
<1>12. IsSequence(x) /\ IsSequence(z) /\ Elements(z) \subseteq Elements(y)
  <2>1. PICK e, V : e = <<>> /\ V = {}
    OBVIOUS
  <2>2. e \in Seq(V)
    BY <2>1
  <2>3. IsSequence(e) /\ Elements(e) \subseteq V
    BY <2>2, SequenceIs
  <2>4. IsSequence(x) /\ IsSequence(y)
    BY <1>10, SinkParts
  <2>5. z = y \/ z = e
    BY <1>11, <2>1
  <2>. QED  BY <2>1, <2>3, <2>4, <2>5
<1>13. ends[b] = x \o z
  BY <1>1, <1>9, <1>10, <1>11 DEF SinksAfter
<1>14. s \in Elements(x) \/ s \in Elements(y)
  <2>1. Elements(x \o z) = Elements(x) \cup Elements(z)
    BY <1>12, JoinedSequences
  <2>2. s \in Elements(ends[b])
    BY DEF Elements
  <2>. QED  BY <1>12, <1>13, <2>1, <2>2
<1>15. Length - 1 \in Positions
  BY <1>3, LengthAssumption DEF Straight, Positions
<1>16. CASE s \in Elements(x)
  <2>1. s.kind = "sink" /\ s.at \in Ends(c, o, n, Length) /\ s.inputs = UsesOf(c, o, s.at)
    BY <1>10, <1>16, SinkParts
  <2>2. s.at \in Positions
    BY <2>1 DEF Ends
  <2>. QED  BY <1>5, <2>1, <2>2
<1>17. CASE s \in Elements(y)
  <2>1. s.kind = "return" /\ s.at = Length - 1
    BY <1>10, <1>17, SinkParts
  <2>. QED  BY <1>5, <1>15, <2>1
<1>. QED  BY <1>14, <1>16, <1>17

(* The operands of an instruction have the terms of what it reads.         *)
LEMMA OperandsHaveTerms ==
    ASSUME NEW insns, NEW nodes, NEW ends, NEW succ, NEW blockOf, NEW order,
           StraightGraph(insns, blockOf, nodes, ends, succ, order),
           NEW c, c = CodeOf(insns), NEW o, o = OpsOf(insns), NEW V, V = ValuesOf(insns),
           NEW T, T = TermsOf(insns, nodes, ends),
           NEW p \in Positions, NEW used, used = UsesOf(c, o, p), used \subseteq DOMAIN nodes
    PROVE  Translate(T, OperandsOf(insns[p].ud, used)) = OperandsAt(insns, V, p)
<1>1. PICK from : DecodedFrom(insns, from)
  BY DEF StraightGraph
<1>2. PICK ud, values, W : /\ ud = insns[p].ud /\ values = V[p]
                           /\ W = [r \in Regs |-> UseOf(c, o, p, r)]
  OBVIOUS
<1>3. HasLists(ud)
  BY <1>1, <1>2, UDListed
<1>4. Walkable(nodes, ends, succ)
  BY DEF StraightGraph
<1>5. \A x \in ToSet(Constants(ud)) : T[Leaf(x)] = Given(x)
  <2>. SUFFICES ASSUME NEW x \in ToSet(Constants(ud)) PROVE T[Leaf(x)] = Given(x)
    OBVIOUS
  <2>1. Leaf(x) \in LeavesOf(insns)
    BY <1>2 DEF LeavesOf
  <2>2. Leaf(x).leaf = x
    BY DEF Leaf
  <2>. QED  BY <1>4, <2>1, <2>2, NamedTerms
<1>6. \A r \in Regs : W[r].reg = r
  <2>. SUFFICES ASSUME NEW r \in Regs PROVE W[r].reg = r
    OBVIOUS
  <2>1. p \in Nat
    BY LengthAssumption DEF Positions
  <2>2. UseOf(c, o, p, r) = NodeAt(c, "input", p, r) \/ HeldNode(c, p, r, UseOf(c, o, p, r))
    BY <2>1, UseIs
  <2>3. UseOf(c, o, p, r).reg = r
    BY <2>2 DEF NodeAt, HeldNode
  <2>. QED  BY <1>2, <2>3
<1>7. o[p].uses = ToSet(ud.inputs) \cap Regs
  BY <1>1, <1>2, StraightSeen
<1>8. used = {W[r] : r \in ToSet(ud.inputs) \cap Regs}
  <2>1. used = {UseOf(c, o, p, r) : r \in ToSet(ud.inputs) \cap Regs}
    BY <1>7 DEF UsesOf
  <2>. QED  BY <1>2, <2>1
<1>9. \A r \in ToSet(ud.inputs) \cap Regs : T[W[r]] = values[r]
  <2>. SUFFICES ASSUME NEW r \in ToSet(ud.inputs) \cap Regs PROVE T[W[r]] = values[r]
    OBVIOUS
  <2>1. W[r] \in DOMAIN nodes /\ W[r] = UseOf(c, o, p, r)
    BY <1>2, <1>8
  <2>2. T[W[r]] = NodeTerm(insns, V, W[r])
    BY <1>4, <2>1, NamedTerms
  <2>3. p \in 0..Length /\ r \in Regs
    BY LengthAssumption DEF Positions
  <2>4. V[p][r] = NodeTerm(insns, V, UseOf(c, o, p, r))
    BY <1>1, <2>3, HeldValue
  <2>. QED  BY <1>2, <2>1, <2>2, <2>4
<1>10. Translate(T, OperandsOf(ud, used)) = OperandTerms(ud, values)
  <2>1. Finds(ud, T, W, values, used)
    BY <1>3, <1>5, <1>6, <1>8, <1>9 DEF Finds
  <2>. QED  BY <2>1, OperandsRead
<1>. QED  BY <1>2, <1>10 DEF OperandsAt

(* The inputs of a leaf, a sink and a variable node that is no phi.        *)
InputsFit(insns, nodes, ends, id, in) ==
    /\ id \in LeavesOf(insns) => in = <<>>
    /\ \A b \in DOMAIN ends : \A k \in DOMAIN ends[b] : id = SinkId(b, k) =>
          /\ ends[b][k].kind = "return" => in = SetToSeq(ends[b][k].inputs)
          /\ ends[b][k].kind # "return" =>
                in = OperandsOf(insns[ends[b][k].at].ud, ends[b][k].inputs)
    /\ id \in DOMAIN nodes =>
          /\ id.kind = "input" => in = <<>>
          /\ id.kind \notin {"input", "phi"} => in = OperandsOf(insns[id.at].ud, nodes[id])

LEMMA InputsAre ==
    ASSUME NEW insns, NEW nodes, NEW ends, NEW succ, Walkable(nodes, ends, succ), NEW order,
           NEW id, NEW in, in = InputsIn(insns, nodes, ends, order, id)
    PROVE  InputsFit(insns, nodes, ends, id, in)
<1>1. ASSUME id \in LeavesOf(insns) PROVE in = <<>>
  BY <1>1, LeavesAreLeaves DEF InputsIn
<1>2. ASSUME NEW b \in DOMAIN ends, NEW k \in DOMAIN ends[b], id = SinkId(b, k)
      PROVE  /\ ends[b][k].kind = "return" => in = SetToSeq(ends[b][k].inputs)
             /\ ends[b][k].kind # "return" =>
                   in = OperandsOf(insns[ends[b][k].at].ud, ends[b][k].inputs)
  <2>1. id \in SinkIds(ends) /\ id.sink = b /\ id.n = k
    <3>1. id \in SinkIds(ends)
      BY <1>2 DEF SinkIds
    <3>. QED  BY <1>2, <3>1 DEF SinkId
  <2>2. ~IsLeaf(id) /\ IsSink(id)
    BY <2>1, NamesApart
  <2>3. PICK s : s = ends[b][k]
    OBVIOUS
  <2>4. in = IF s.kind = "return" THEN SetToSeq(s.inputs) ELSE OperandsOf(insns[s.at].ud, s.inputs)
    BY <2>1, <2>2, <2>3 DEF InputsIn
  <2>. QED  BY <2>3, <2>4
<1>3. ASSUME id \in DOMAIN nodes
      PROVE  /\ id.kind = "input" => in = <<>>
             /\ id.kind \notin {"input", "phi"} => in = OperandsOf(insns[id.at].ud, nodes[id])
  <2>1. in = CASE id.kind = "input" -> <<>>
               [] id.kind = "phi"   -> order[id]
               [] OTHER             -> OperandsOf(insns[id.at].ud, nodes[id])
    BY <1>3, NamesApart DEF InputsIn
  <2>. QED  BY <2>1
<1>. QED  BY <1>1, <1>2, <1>3 DEF InputsFit

LEMMA ConstantKinds ==
    ASSUME NEW ud, HasLists(ud), NEW x \in ToSet(Constants(ud))
    PROVE  x[1] \in {"reference", "immediate"}
<1>1. PICK r, m : /\ r = [k \in DOMAIN ud.refs |-> <<"reference", ud.refs[k]>>]
                  /\ m = [k \in DOMAIN ud.imms |-> <<"immediate", ud.imms[k]>>]
  OBVIOUS
<1>2. IsSequence(r) /\ IsSequence(m) /\ DOMAIN r = DOMAIN ud.refs /\ DOMAIN m = DOMAIN ud.imms
  <2>1. r = [k \in DOMAIN ud.refs |-> r[k]] /\ m = [k \in DOMAIN ud.imms |-> m[k]]
    BY <1>1
  <2>. QED  BY <2>1, ListMapped DEF HasLists
<1>3. x \in Elements(r) \cup Elements(m)
  <2>1. Constants(ud) = r \o m
    BY <1>1 DEF Constants
  <2>2. Elements(r \o m) = Elements(r) \cup Elements(m)
    BY <1>2, JoinedSequences
  <2>3. x \in Elements(Constants(ud))
    BY DEF Elements, ToSet
  <2>. QED  BY <2>1, <2>2, <2>3
<1>4. CASE x \in Elements(r)
  <2>1. PICK k \in DOMAIN ud.refs : x = r[k]
    BY <1>2, <1>4 DEF Elements
  <2>2. x = <<"reference", ud.refs[k]>>
    BY <1>1, <2>1
  <2>. QED  BY <2>2
<1>5. CASE x \in Elements(m)
  <2>1. PICK k \in DOMAIN ud.imms : x = m[k]
    BY <1>2, <1>5 DEF Elements
  <2>2. x = <<"immediate", ud.imms[k]>>
    BY <1>1, <2>1
  <2>. QED  BY <2>2
<1>. QED  BY <1>3, <1>4, <1>5

(* The node m has the term t: what a comparison asks of a node is what the *)
(* term tells, but for the number of its block.                            *)
InPlace == {"sink", "return", "result"}
HasTerm(m, t, operands) ==
    /\ t = <<m.type, t[2], operands>>
    /\ m.type \in InPlace =>
          \E name : \E n \in Nat : m.detail = <<name, 2 * n + 1>> /\ t[2] = <<name, n>>
    /\ m.type \notin InPlace => m.type # "phi" /\ t[2] = m.detail
    /\ m.type = "callreturn" => m.detail = Blank

LEMMA PlacedTerm ==
    ASSUME NEW insns, NEW p, NEW type \in InPlace, NEW operands, CallsBefore(insns, p) \in Nat,
           NEW blockOf, blockOf[p] = 2 * CallsBefore(insns, p) + 1,
           NEW m, m.type = type, m.detail = <<insns[p].name, blockOf[p]>>
    PROVE  HasTerm(m, Placed(insns, p, type, operands), operands)
<1>1. PICK t, name, n : /\ t = Placed(insns, p, type, operands)
                        /\ name = insns[p].name /\ n = CallsBefore(insns, p)
  OBVIOUS
<1>2. t = <<type, <<name, n>>, operands>>
  BY <1>1 DEF Placed
<1>3. t[2] = <<name, n>>
  BY <1>2
<1>4. m.detail = <<name, 2 * n + 1>> /\ n \in Nat
  BY <1>1
<1>5. type # "callreturn"
  BY DEF InPlace
<1>6. t = <<m.type, t[2], operands>>
  BY <1>2, <1>3
<1>. QED  BY <1>1, <1>3, <1>4, <1>5, <1>6 DEF HasTerm

LEMMA PlainTerm ==
    ASSUME NEW type, NEW detail, type \notin InPlace, type # "phi",
           type = "callreturn" => detail = Blank,
           NEW operands, NEW m, m.type = type, m.detail = detail
    PROVE  HasTerm(m, <<type, detail, operands>>, operands)
<1>1. PICK t : t = <<type, detail, operands>>
  OBVIOUS
<1>2. t[2] = detail
  BY <1>1
<1>3. t = <<m.type, t[2], operands>>
  BY <1>1, <1>2
<1>. QED  BY <1>1, <1>2, <1>3 DEF HasTerm

(* Every node of the graph of a straight function has its term.            *)
LEMMA NodesHaveTerms ==
    ASSUME NEW insns, NEW nodes, NEW ends, NEW succ, NEW blockOf, NEW order,
           StraightGraph(insns, blockOf, nodes, ends, succ, order),
           NEW T, T = TermsOf(insns, nodes, ends),
           NEW id \in Names(insns, nodes, ends),
           NEW m, m = FlowNode(insns, nodes, ends, blockOf, order, id)
    PROVE  HasTerm(m, T[id], Translate(T, m.inputs))
<1>1. PICK c, o, V : c = CodeOf(insns) /\ o = OpsOf(insns) /\ V = ValuesOf(insns)
  OBVIOUS
<1>2. PICK from : DecodedFrom(insns, from)
  BY DEF StraightGraph
<1>3. /\ Walkable(nodes, ends, succ) /\ StraightFlow(c, o, blockOf, nodes, ends, succ)
  BY <1>1 DEF StraightGraph
<1>10. FieldsFit(insns, blockOf, nodes, ends, order, id, m)
  <2>1. Walkable(nodes, ends, succ)
    BY <1>3
  <2>. QED  BY <2>1, NodeFields
<1>11. InputsFit(insns, nodes, ends, id, m.inputs)
  <2>1. Walkable(nodes, ends, succ)
    BY <1>3
  <2>2. m.inputs = InputsIn(insns, nodes, ends, order, id)
    BY <1>10 DEF FieldsFit
  <2>3. PICK in : in = m.inputs
    OBVIOUS
  <2>4. in = InputsIn(insns, nodes, ends, order, id)
    BY <2>2, <2>3
  <2>5. InputsFit(insns, nodes, ends, id, in)
    BY <2>1, <2>4, InputsAre
  <2>. QED  BY <2>3, <2>5
<1>4. PICK a : a = Translate(T, m.inputs)
  OBVIOUS
<1>5. Translate(T, <<>>) = <<>>
  BY DEF Translate
<1>6. ASSUME NEW p \in Positions
      PROVE  /\ CallsBefore(insns, p) \in Nat
             /\ blockOf[p] = 2 * CallsBefore(insns, p) + 1
  <2>1. p \in Nat /\ p \in 0..Length
    BY LengthAssumption DEF Positions
  <2>2. Calls(c, p) = CallsBefore(insns, p)
    BY <1>1, <1>2, <2>1, StraightSeen
  <2>3. Calls(c, p) \in Nat
    BY <2>1, CallsCount
  <2>4. blockOf[p] = 2 * Calls(c, p) + 1
    BY <1>3 DEF StraightFlow
  <2>. QED  BY <2>2, <2>3, <2>4
<1>7. CASE id \in LeavesOf(insns)
  <2>1. T[id] = Given(id.leaf)
    BY <1>1, <1>3, <1>7, NamedTerms
  <2>2. PICK x, y : x = id.leaf[1] /\ y = id.leaf[2]
    OBVIOUS
  <2>3. x \in {"reference", "immediate"}
    <3>0. PICK q \in Positions : \E u \in ToSet(Constants(insns[q].ud)) : id = Leaf(u)
      BY <1>7 DEF LeavesOf
    <3>1. PICK u \in ToSet(Constants(insns[q].ud)) : id = Leaf(u)
      BY <3>0
    <3>2. id.leaf = u
      BY <3>1 DEF Leaf
    <3>3. HasLists(insns[q].ud)
      BY <1>2, UDListed
    <3>. QED  BY <2>2, <3>1, <3>2, <3>3, ConstantKinds
  <2>4. a = <<>> /\ m.type = x /\ m.detail = y
    <3>2. m.inputs = <<>>
      BY <1>7, <1>11 DEF InputsFit
    <3>3. m.type = x /\ m.detail = y
      BY <1>10, <1>7, <2>2 DEF FieldsFit
    <3>. QED  BY <1>4, <1>5, <3>2, <3>3
  <2>5. T[id] = <<x, y, a>>
    BY <2>1, <2>2, <2>4 DEF Given
  <2>6. x \notin InPlace /\ x # "phi" /\ x # "callreturn"
    BY <2>3 DEF InPlace
  <2>. QED  BY <1>4, <2>4, <2>5, <2>6, PlainTerm
<1>8. CASE id \in SinkIds(ends)
  <2>1. PICK b \in DOMAIN ends : \E k \in DOMAIN ends[b] : id = SinkId(b, k)
    BY <1>8 DEF SinkIds
  <2>2. PICK k \in DOMAIN ends[b] : id = SinkId(b, k)
    BY <2>1
  <2>3. PICK s : s = ends[b][k]
    OBVIOUS
  <2>4. T[id] = SinkTerm(insns, V, s)
    BY <1>1, <1>3, <2>2, <2>3, NamedTerms
  <2>5. m.type = s.kind /\ m.detail = <<insns[s.at].name, blockOf[s.at]>>
    BY <1>10, <2>2, <2>3 DEF FieldsFit
  <2>6. /\ s.kind = "return" => m.inputs = SetToSeq(s.inputs)
        /\ s.kind # "return" => m.inputs = OperandsOf(insns[s.at].ud, s.inputs)
    BY <1>11, <2>2, <2>3 DEF InputsFit
  <2>7. /\ s.at \in Positions /\ s.inputs \subseteq DOMAIN nodes /\ IsFiniteSet(s.inputs)
        /\ s.kind \in {"sink", "return"}
        /\ s.kind = "sink" => s.inputs = UsesOf(c, o, s.at)
    BY <1>1, <2>3, SinksFit
  <2>8. CASE s.kind = "return"
    <3>1. PICK q : q = SetToSeq(s.inputs)
      OBVIOUS
    <3>2. \A i \in DOMAIN q : q[i] \in DOMAIN nodes
      <4>1. q \in Seq(s.inputs)
        BY <2>7, <3>1, SetListed
      <4>. QED  BY <2>7, <4>1, SeqIsList
    <3>3. m.inputs = q
      BY <2>6, <2>8, <3>1
    <3>4. a = [i \in DOMAIN q |-> NodeTerm(insns, V, q[i])]
      <4>1. \A i \in DOMAIN q : T[q[i]] = NodeTerm(insns, V, q[i])
        BY <1>1, <1>3, <3>2, NamedTerms
      <4>. QED  BY <1>4, <3>3, <4>1 DEF Translate
    <3>5. T[id] = Placed(insns, s.at, "return", a)
      BY <2>4, <2>8, <3>1, <3>4 DEF SinkTerm
    <3>6. m.type = "return" /\ "return" \in InPlace
      BY <2>5, <2>8 DEF InPlace
    <3>. QED  BY <1>4, <1>6, <2>5, <2>7, <3>5, <3>6, PlacedTerm
  <2>9. CASE s.kind = "sink"
    <3>1. m.inputs = OperandsOf(insns[s.at].ud, s.inputs)
      BY <2>6, <2>9
    <3>2. a = OperandsAt(insns, V, s.at)
      <4>1. PICK p, used : p = s.at /\ used = s.inputs
        OBVIOUS
      <4>2. p \in Positions /\ used = UsesOf(c, o, p) /\ used \subseteq DOMAIN nodes
        BY <2>7, <2>9, <4>1
      <4>3. Translate(T, OperandsOf(insns[p].ud, used)) = OperandsAt(insns, V, p)
        BY <1>1, <4>2, OperandsHaveTerms
      <4>. QED  BY <1>4, <3>1, <4>1, <4>3
    <3>3. T[id] = Placed(insns, s.at, "sink", a)
      BY <2>4, <2>9, <3>2 DEF SinkTerm
    <3>4. m.type = "sink" /\ "sink" \in InPlace
      BY <2>5, <2>9 DEF InPlace
    <3>. QED  BY <1>4, <1>6, <2>5, <2>7, <3>3, <3>4, PlacedTerm
  <2>. QED  BY <2>7, <2>8, <2>9
<1>9. CASE id \in DOMAIN nodes
  <2>1. T[id] = NodeTerm(insns, V, id)
    BY <1>1, <1>3, <1>9, NamedTerms
  <2>2. id \in Node /\ nodes[id] \subseteq DOMAIN nodes /\ Fits(c, o, id, nodes[id])
    BY <1>3, <1>9 DEF Walkable, StraightFlow
  <2>3. id.kind \in {"input", "callReturn", "result"}
        /\ (id.kind # "input" => id.at \in Positions /\ nodes[id] = UsesOf(c, o, id.at))
    BY <2>2 DEF Node, Fits
  <2>5. CASE id.kind = "input"
    <3>1. m.inputs = <<>>
      BY <1>9, <1>11, <2>5 DEF InputsFit
    <3>2. PICK x, y : x = "input" /\ y = id.reg
      OBVIOUS
    <3>3. m.type = x /\ m.detail = y
      BY <1>10, <1>9, <2>5, <3>2 DEF FieldsFit
    <3>4. T[id] = <<x, y, a>>
      BY <1>4, <1>5, <2>1, <2>5, <3>1, <3>2, TermOfNode DEF Unknown
    <3>5. x \notin InPlace /\ x # "phi" /\ x # "callreturn"
      BY <3>2 DEF InPlace
    <3>. QED  BY <1>4, <3>3, <3>4, <3>5, PlainTerm
  <2>6. CASE id.kind # "input"
    <3>1. m.inputs = OperandsOf(insns[id.at].ud, nodes[id])
      BY <1>9, <1>11, <2>3, <2>6 DEF InputsFit
    <3>2. a = OperandsAt(insns, V, id.at)
      <4>1. PICK p, used : p = id.at /\ used = nodes[id]
        OBVIOUS
      <4>2. p \in Positions /\ used = UsesOf(c, o, p) /\ used \subseteq DOMAIN nodes
        BY <2>2, <2>3, <2>6, <4>1
      <4>3. Translate(T, OperandsOf(insns[p].ud, used)) = OperandsAt(insns, V, p)
        BY <1>1, <4>2, OperandsHaveTerms
      <4>. QED  BY <1>4, <3>1, <4>1, <4>3
    <3>3. CASE id.kind = "callReturn"
      <4>1. PICK x, y : x = "callreturn" /\ y = Blank
        OBVIOUS
      <4>2. m.type = x /\ m.detail = y
        BY <1>10, <1>9, <3>3, <4>1 DEF FieldsFit
      <4>3. T[id] = <<x, y, a>>
        BY <2>1, <3>2, <3>3, <4>1, TermOfNode
      <4>4. x \notin InPlace /\ x # "phi" /\ (x = "callreturn" => y = Blank)
        BY <4>1 DEF InPlace
      <4>. QED  BY <1>4, <4>2, <4>3, <4>4, PlainTerm
    <3>4. CASE id.kind = "result"
      <4>1. T[id] = Placed(insns, id.at, "result", a)
        BY <2>1, <3>2, <3>4, TermOfNode
      <4>2. m.type = "result" /\ "result" \in InPlace
            /\ m.detail = <<insns[id.at].name, blockOf[id.at]>>
        BY <1>10, <1>9, <3>4 DEF FieldsFit, InPlace
      <4>3. id.at \in Positions
        BY <2>3, <2>6
      <4>. QED  BY <1>4, <1>6, <4>1, <4>2, <4>3, PlacedTerm
    <3>. QED  BY <2>3, <2>6, <3>3, <3>4
  <2>. QED  BY <2>5, <2>6
<1>. QED  BY <1>7, <1>8, <1>9 DEF Names

(* The terms of the sinks of a straight function are its effect.           *)
Told(insns, V, s) == [k \in DOMAIN s |-> SinkTerm(insns, V, s[k])]

LEMMA SinksTold ==
    ASSUME NEW insns, NEW from, DecodedFrom(insns, from),
           NEW c, c = CodeOf(insns), NEW o, o = OpsOf(insns), NEW V, NEW n
    PROVE  Told(insns, V, SinksOf(c, o, n, Length)) = SinkTerms(insns, V, n)
<1>1. PICK E, F : /\ E = Ends(c, o, n, Length)
                  /\ F = {p \in Positions : /\ insns[p].class \in {"store", "branch"}
                                            /\ CallsBefore(insns, p) = n}
  OBVIOUS
<1>2. E = F
  <2>1. ASSUME NEW p \in Positions
        PROVE  /\ (o[p].store \/ IsBranch(c[p])) <=> insns[p].class \in {"store", "branch"}
               /\ p < Length /\ Calls(c, p) = CallsBefore(insns, p)
    <3>1. p < Length /\ p \in 0..Length
      BY LengthAssumption DEF Positions
    <3>. QED  BY <3>1, StraightSeen
  <2>. QED  BY <1>1, <2>1 DEF Ends
<1>3. PICK places : places = Sublist(Numbers, E)
  OBVIOUS
<1>4. PICK x : x = [k \in DOMAIN places |->
                      [kind |-> "sink", at |-> places[k], inputs |-> UsesOf(c, o, places[k])]]
  OBVIOUS
<1>5. SinksOf(c, o, n, Length) = x
  BY <1>1, <1>3, <1>4 DEF SinksOf
<1>6. ASSUME NEW k \in DOMAIN places
      PROVE  SinkTerm(insns, V, x[k])
               = Placed(insns, places[k], "sink", OperandsAt(insns, V, places[k]))
  <2>1. PICK s, p, u : s = x[k] /\ p = places[k] /\ u = UsesOf(c, o, p)
    OBVIOUS
  <2>2. s = [kind |-> "sink", at |-> p, inputs |-> u]
    BY <1>4, <2>1
  <2>3. s.kind = "sink" /\ s.at = p
    BY <2>2
  <2>4. s.kind # "return"
    BY <2>3
  <2>5. SinkTerm(insns, V, s) = Placed(insns, s.at, "sink", OperandsAt(insns, V, s.at))
    BY <2>4 DEF SinkTerm
  <2>. QED  BY <2>1, <2>3, <2>5
<1>7. DOMAIN x = DOMAIN places
  BY <1>4
<1>8. Told(insns, V, x)
        = [k \in DOMAIN places |->
              Placed(insns, places[k], "sink", OperandsAt(insns, V, places[k]))]
  BY <1>6, <1>7 DEF Told
<1>9. places = Sublist([k \in 1..Length |-> k - 1], F)
  BY <1>2, <1>3 DEF Numbers
<1>10. SinkTerms(insns, V, n)
         = [k \in DOMAIN places |->
               Placed(insns, places[k], "sink", OperandsAt(insns, V, places[k]))]
  BY <1>1, <1>9 DEF SinkTerms, OperandsAt
<1>. QED  BY <1>5, <1>8, <1>10

(* A register holds a value of the function when it no longer has its own. *)
LEMMA HoldsTold ==
    ASSUME NEW insns, NEW from, DecodedFrom(insns, from),
           NEW c, c = CodeOf(insns), NEW o, o = OpsOf(insns),
           NEW V, V = ValuesOf(insns), NEW r \in Regs
    PROVE  Holds(c, o, Length, r) # {} <=> V[Length][r] # Unknown(r)
<1>1. Length \in Nat /\ Length \in 0..Length
  BY LengthAssumption
<1>2. PICK n : n = UseOf(c, o, Length, r)
  OBVIOUS
<1>3. V[Length][r] = NodeTerm(insns, V, n)
  BY <1>1, <1>2, HeldValue
<1>4. CASE Holds(c, o, Length, r) = {}
  <2>1. n = NodeAt(c, "input", Length, r)
    BY <1>1, <1>2, <1>4, UseIs
  <2>2. n.kind = "input" /\ n.reg = r
    BY <2>1 DEF NodeAt
  <2>. QED  BY <1>3, <1>4, <2>2, TermOfNode
<1>5. CASE Holds(c, o, Length, r) # {}
  <2>1. n.kind \in {"result", "callReturn"}
    BY <1>1, <1>2, <1>5, UseIs DEF HeldNode
  <2>2. PICK t, x, a : /\ t = NodeTerm(insns, V, n)
                       /\ x = <<insns[n.at].name, CallsBefore(insns, n.at)>>
                       /\ a = OperandsAt(insns, V, n.at)
    OBVIOUS
  <2>3. t = <<"callreturn", Blank, a>> \/ t = <<"result", x, a>>
    BY <2>1, <2>2, TermOfNode DEF Placed
  <2>4. t[1] = "callreturn" \/ t[1] = "result"
    BY <2>3
  <2>5. PICK u, e : u = Unknown(r) /\ e = <<>>
    OBVIOUS
  <2>6. u = <<"input", r, e>>
    BY <2>5 DEF Unknown
  <2>7. u[1] = "input"
    BY <2>6
  <2>8. t # u
    BY <2>4, <2>7
  <2>. QED  BY <1>3, <1>5, <2>2, <2>5, <2>8
<1>. QED  BY <1>4, <1>5

LEMMA ReturnsTold ==
    ASSUME NEW insns, NEW from, DecodedFrom(insns, from),
           NEW c, c = CodeOf(insns), NEW o, o = OpsOf(insns),
           NEW V, V = ValuesOf(insns)
    PROVE  Told(insns, V, ReturnsOf(c, o)) = ReturnTerms(insns, V)
<1>1. PICK D, F : /\ D = {r \in DefinedByCall : Holds(c, o, Length, r) # {}}
                  /\ F = {r \in DefinedByCall : V[Length][r] # Unknown(r)}
  OBVIOUS
<1>2. DefinedByCall \subseteq Regs /\ IsFiniteSet(DefinedByCall)
  BY CallAssumption, FS_Subset
<1>3. D = F
  <2>1. \A r \in DefinedByCall : Holds(c, o, Length, r) # {} <=> V[Length][r] # Unknown(r)
    BY <1>2, HoldsTold
  <2>. QED  BY <1>1, <2>1
<1>4. PICK regs : regs = Sublist(SetToSeq(DefinedByCall), D)
  OBVIOUS
<1>5. IsList(regs) /\ \A k \in DOMAIN regs : regs[k] \in Regs
  <2>1. SetToSeq(DefinedByCall) \in Seq(DefinedByCall)
    BY <1>2, SetListed
  <2>2. regs \in Seq(DefinedByCall \cap D)
    BY <1>4, <2>1, SublistHolds
  <2>. QED  BY <1>2, <2>2, SeqIsList
<1>6. PICK y : y = [k \in DOMAIN regs |-> [kind |-> "return", at |-> Length - 1,
                                          inputs |-> {UseOf(c, o, Length, regs[k])}]]
  OBVIOUS
<1>7. ReturnsOf(c, o) = y
  BY <1>1, <1>4, <1>6 DEF ReturnsOf
<1>8. ASSUME NEW k \in DOMAIN regs
      PROVE  SinkTerm(insns, V, y[k])
               = Placed(insns, Length - 1, "return", <<V[Length][regs[k]]>>)
  <2>1. PICK s, r, u, at : /\ s = y[k] /\ r = regs[k] /\ u = UseOf(c, o, Length, r)
                           /\ at = Length - 1
    OBVIOUS
  <2>2. s = [kind |-> "return", at |-> at, inputs |-> {u}]
    BY <1>6, <2>1
  <2>3. s.kind = "return" /\ s.at = at /\ s.inputs = {u}
    BY <2>2
  <2>4. PICK q : q = <<u>>
    OBVIOUS
  <2>5. SetToSeq(s.inputs) = q
    BY <2>3, <2>4, OneListed
  <2>6. PICK v : v = V[Length][r]
    OBVIOUS
  <2>7. v = NodeTerm(insns, V, u)
    <3>1. r \in Regs /\ Length \in 0..Length
      BY <1>5, <2>1, LengthAssumption
    <3>. QED  BY <2>1, <2>6, <3>1, HeldValue
  <2>8. [i \in DOMAIN q |-> NodeTerm(insns, V, q[i])] = <<v>>
    <3>1. DOMAIN q = 1..1 /\ q[1] = u
      BY <2>4
    <3>2. PICK W : W = [i \in DOMAIN q |-> NodeTerm(insns, V, q[i])]
      OBVIOUS
    <3>3. W = [i \in 1..1 |-> v]
      BY <2>7, <3>1, <3>2
    <3>4. W = <<v>>
      BY <3>3
    <3>. QED  BY <3>2, <3>4
  <2>9. SinkTerm(insns, V, s) = Placed(insns, s.at, "return", <<v>>)
    BY <2>3, <2>5, <2>8 DEF SinkTerm
  <2>. QED  BY <2>1, <2>3, <2>6, <2>9
<1>9. DOMAIN y = DOMAIN regs
  BY <1>6
<1>10. Told(insns, V, y)
         = [k \in DOMAIN regs |-> Placed(insns, Length - 1, "return", <<V[Length][regs[k]]>>)]
  BY <1>8, <1>9 DEF Told
<1>11. regs = Sublist(SetToSeq(DefinedByCall), F)
  BY <1>3, <1>4
<1>12. ReturnTerms(insns, V)
         = [k \in DOMAIN regs |-> Placed(insns, Length - 1, "return", <<V[Length][regs[k]]>>)]
  BY <1>1, <1>11 DEF ReturnTerms
<1>. QED  BY <1>7, <1>10, <1>12

LEMMA ToldJoined ==
    ASSUME NEW insns, NEW V, NEW a, NEW b, IsSequence(a), IsSequence(b)
    PROVE  Told(insns, V, a \o b) = Told(insns, V, a) \o Told(insns, V, b)
<1>1. PICK X : X = Elements(a) \cup Elements(b)
  OBVIOUS
<1>2. PICK S : S = [s \in X |-> SinkTerm(insns, V, s)]
  OBVIOUS
<1>3. ASSUME NEW s, Elements(s) \subseteq X PROVE Told(insns, V, s) = Translate(S, s)
  <2>1. \A k \in DOMAIN s : s[k] \in X
    BY <1>3 DEF Elements
  <2>2. \A k \in DOMAIN s : SinkTerm(insns, V, s[k]) = S[s[k]]
    BY <1>2, <2>1
  <2>. QED  BY <2>2 DEF Told, Translate
<1>4. Elements(a \o b) = X
  BY <1>1, JoinedSequences
<1>5. /\ Told(insns, V, a \o b) = Translate(S, a \o b)
      /\ Told(insns, V, a) = Translate(S, a) /\ Told(insns, V, b) = Translate(S, b)
  <2>1. Elements(a) \subseteq X /\ Elements(b) \subseteq X /\ Elements(a \o b) \subseteq X
    BY <1>1, <1>4
  <2>. QED  BY <1>3, <2>1
<1>. QED  BY <1>5, TranslateJoined

(* The graph f, read as the terms T, tells the effect of insns: the sinks  *)
(* after n calls are those of block 2 * n + 1.                             *)
EffectRead(insns, f, T) ==
    LET K == CallsBefore(insns, Length)
    IN  /\ K \in Nat /\ DOMAIN f.sinks = 1..(2 * K + 2)
        /\ DOMAIN Effect(insns) = 0..K /\ Effect(insns) = [n \in 0..K |-> Effect(insns)[n]]
        /\ \A n \in 0..K :
              /\ Translate(T, f.sinks[2 * n + 1]) = Effect(insns)[n]
              /\ Translate(T, f.sinks[2 * n + 2]) = <<>>
              /\ f.succ[2 * n + 2] = <<>>
              /\ f.succ[2 * n + 1] = IF n = K THEN <<2 * n + 2>> ELSE <<2 * n + 2, 2 * n + 3>>

LEMMA GraphsReadEffects ==
    ASSUME NEW insns, NEW nodes, NEW ends, NEW succ, NEW blockOf, NEW order,
           StraightGraph(insns, blockOf, nodes, ends, succ, order),
           NEW T, T = TermsOf(insns, nodes, ends),
           NEW f, f = FlowOf(insns, nodes, ends, blockOf, succ, order)
    PROVE  EffectRead(insns, f, T)
<1>1. PICK c, o, V, K : /\ c = CodeOf(insns) /\ o = OpsOf(insns) /\ V = ValuesOf(insns)
                        /\ K = CallsBefore(insns, Length)
  OBVIOUS
<1>2. PICK from : DecodedFrom(insns, from)
  BY DEF StraightGraph
<1>3. Walkable(nodes, ends, succ)
  BY DEF StraightGraph
<1>4. StraightFlow(c, o, blockOf, nodes, ends, succ)
  BY <1>1 DEF StraightGraph
<1>5. K = Calls(c, Length) /\ K \in Nat
  <2>1. Length \in 0..Length
    BY LengthAssumption
  <2>2. Calls(c, Length) = CallsBefore(insns, Length)
    BY <1>1, <1>2, <2>1, StraightSeen
  <2>. QED  BY <1>1, <2>2, CallsCount, LengthAssumption
<1>6. /\ f.succ = succ /\ DOMAIN f.sinks = DOMAIN ends
      /\ \A b \in DOMAIN ends : f.sinks[b] = [k \in DOMAIN ends[b] |-> SinkId(b, k)]
  BY FlowFields
<1>7. DOMAIN ends = 1..(2 * K + 2)
  <2>1. Len(succ) = 2 * K + 2
    BY <1>4, <1>5 DEF StraightFlow
  <2>2. ends \in Seq(Seq(Sink)) /\ Len(succ) = Len(ends)
    BY <1>3 DEF Walkable
  <2>. QED  BY <2>1, <2>2, LenProperties
<1>8. ASSUME NEW b \in DOMAIN ends PROVE Translate(T, f.sinks[b]) = Told(insns, V, ends[b])
  <2>1. PICK e, g : e = ends[b] /\ g = f.sinks[b]
    OBVIOUS
  <2>2. g = [k \in DOMAIN e |-> SinkId(b, k)]
    BY <1>6, <2>1
  <2>3. \A k \in DOMAIN e : T[SinkId(b, k)] = SinkTerm(insns, V, e[k])
    BY <1>1, <1>3, <2>1, NamedTerms
  <2>4. DOMAIN g = DOMAIN e /\ \A k \in DOMAIN e : T[g[k]] = SinkTerm(insns, V, e[k])
    BY <2>2, <2>3
  <2>5. Translate(T, f.sinks[b]) = [k \in DOMAIN g |-> T[g[k]]]
    BY <2>1 DEF Translate
  <2>. QED  BY <2>1, <2>4, <2>5 DEF Told
<1>9. ASSUME NEW n \in 0..K
      PROVE  /\ 2 * n + 1 \in DOMAIN ends /\ 2 * n + 2 \in DOMAIN ends
             /\ ends[2 * n + 1] = SinksAfter(c, o, n) /\ ends[2 * n + 2] = <<>>
             /\ succ[2 * n + 2] = <<>>
             /\ succ[2 * n + 1] = IF n = K THEN <<2 * n + 2>> ELSE <<2 * n + 2, 2 * n + 3>>
  <2>1. 2 * n + 1 \in 1..(2 * K + 2) /\ 2 * n + 2 \in 1..(2 * K + 2)
    BY <1>5
  <2>. QED  BY <1>4, <1>5, <1>7, <2>1 DEF StraightFlow
<1>10. PICK E : E = [n \in 0..K |-> SinkTerms(insns, V, n)
                                      \o (IF n = K THEN ReturnTerms(insns, V) ELSE <<>>)]
  OBVIOUS
<1>11. Effect(insns) = E
  BY <1>1, <1>10 DEF Effect
<1>12. Told(insns, V, <<>>) = <<>>
  BY DEF Told
<1>13. ASSUME NEW n \in 0..K PROVE Told(insns, V, SinksAfter(c, o, n)) = E[n]
  <2>1. PICK x, y : x = SinksOf(c, o, n, Length) /\ y = ReturnsOf(c, o)
    OBVIOUS
  <2>2. PICK e : e = <<>>
    OBVIOUS
  <2>3. IsSequence(x) /\ IsSequence(y) /\ IsSequence(e)
    <3>1. IsSequence(x) /\ IsSequence(y)
      BY <2>1, SinkParts
    <3>2. PICK U : U = {}
      OBVIOUS
    <3>3. e \in Seq(U)
      BY <2>2, <3>2
    <3>. QED  BY <3>1, <3>3, SequenceIs
  <2>4. Told(insns, V, x) = SinkTerms(insns, V, n) /\ Told(insns, V, y) = ReturnTerms(insns, V)
    BY <1>1, <1>2, <2>1, SinksTold, ReturnsTold
  <2>5. CASE n = K
    <3>1. SinksAfter(c, o, n) = x \o y
      BY <1>5, <2>1, <2>5 DEF SinksAfter
    <3>2. Told(insns, V, x \o y) = Told(insns, V, x) \o Told(insns, V, y)
      BY <2>3, ToldJoined
    <3>3. E[n] = SinkTerms(insns, V, n) \o ReturnTerms(insns, V)
      BY <1>10, <2>5
    <3>. QED  BY <2>4, <3>1, <3>2, <3>3
  <2>6. CASE n # K
    <3>1. SinksAfter(c, o, n) = x \o e
      BY <1>5, <2>1, <2>2, <2>6 DEF SinksAfter
    <3>2. Told(insns, V, x \o e) = Told(insns, V, x) \o Told(insns, V, e)
      BY <2>3, ToldJoined
    <3>3. E[n] = SinkTerms(insns, V, n) \o e
      BY <1>10, <2>2, <2>6
    <3>. QED  BY <1>12, <2>2, <2>4, <3>1, <3>2, <3>3
  <2>. QED  BY <2>5, <2>6
<1>14. ASSUME NEW n \in 0..K
       PROVE  /\ Translate(T, f.sinks[2 * n + 1]) = E[n] /\ Translate(T, f.sinks[2 * n + 2]) = <<>>
              /\ f.succ[2 * n + 2] = <<>>
              /\ f.succ[2 * n + 1] = IF n = K THEN <<2 * n + 2>> ELSE <<2 * n + 2, 2 * n + 3>>
  <2>1. PICK b, d : b = 2 * n + 1 /\ d = 2 * n + 2
    OBVIOUS
  <2>2. /\ b \in DOMAIN ends /\ d \in DOMAIN ends
        /\ ends[b] = SinksAfter(c, o, n) /\ ends[d] = <<>>
    BY <1>9, <2>1
  <2>3. Translate(T, f.sinks[b]) = E[n]
    BY <1>8, <1>13, <2>2
  <2>4. Translate(T, f.sinks[d]) = <<>>
    BY <1>8, <1>12, <2>2
  <2>. QED  BY <1>6, <1>9, <2>1, <2>3, <2>4
<1>15. DOMAIN E = 0..K /\ E = [n \in 0..K |-> E[n]]
  BY <1>10
<1>16. DOMAIN f.sinks = 1..(2 * K + 2)
  BY <1>6, <1>7
<1>. QED  BY <1>1, <1>5, <1>11, <1>14, <1>15, <1>16 DEF EffectRead

(* Two of them have the same readings when the effects are the same.       *)
SameTold(f, T, g, U) ==
    /\ DOMAIN f.sinks = DOMAIN g.sinks
    /\ \A b \in DOMAIN f.sinks :
          Translate(T, f.sinks[b]) = Translate(U, g.sinks[b]) /\ f.succ[b] = g.succ[b]

LEMMA EffectsTell ==
    ASSUME NEW insns, NEW f, NEW T, EffectRead(insns, f, T),
           NEW others, NEW g, NEW U, EffectRead(others, g, U)
    PROVE  SameTold(f, T, g, U) <=> Effect(insns) = Effect(others)
<1>1. PICK K, L : K = CallsBefore(insns, Length) /\ L = CallsBefore(others, Length)
  OBVIOUS
<1>2. PICK E, F : E = Effect(insns) /\ F = Effect(others)
  OBVIOUS
<1>3. /\ K \in Nat /\ DOMAIN f.sinks = 1..(2 * K + 2)
      /\ DOMAIN E = 0..K /\ E = [n \in 0..K |-> E[n]]
      /\ \A n \in 0..K :
            /\ Translate(T, f.sinks[2 * n + 1]) = E[n] /\ Translate(T, f.sinks[2 * n + 2]) = <<>>
            /\ f.succ[2 * n + 2] = <<>>
            /\ f.succ[2 * n + 1] = IF n = K THEN <<2 * n + 2>> ELSE <<2 * n + 2, 2 * n + 3>>
  BY <1>1, <1>2 DEF EffectRead
<1>4. /\ L \in Nat /\ DOMAIN g.sinks = 1..(2 * L + 2)
      /\ DOMAIN F = 0..L /\ F = [n \in 0..L |-> F[n]]
      /\ \A n \in 0..L :
            /\ Translate(U, g.sinks[2 * n + 1]) = F[n] /\ Translate(U, g.sinks[2 * n + 2]) = <<>>
            /\ g.succ[2 * n + 2] = <<>>
            /\ g.succ[2 * n + 1] = IF n = L THEN <<2 * n + 2>> ELSE <<2 * n + 2, 2 * n + 3>>
  BY <1>1, <1>2 DEF EffectRead
<1>5. ASSUME SameTold(f, T, g, U) PROVE E = F
  <2>1. /\ DOMAIN f.sinks = DOMAIN g.sinks
        /\ \A b \in DOMAIN f.sinks : Translate(T, f.sinks[b]) = Translate(U, g.sinks[b])
    BY <1>5 DEF SameTold
  <2>2. K = L
    <3>1. 1..(2 * K + 2) = 1..(2 * L + 2)
      BY <1>3, <1>4, <2>1
    <3>2. 2 * K + 2 \in 1..(2 * K + 2) /\ 2 * L + 2 \in 1..(2 * L + 2)
      BY <1>3, <1>4
    <3>3. 2 * K + 2 \in 1..(2 * L + 2) /\ 2 * L + 2 \in 1..(2 * K + 2)
      BY <3>1, <3>2
    <3>. QED  BY <1>3, <1>4, <3>3
  <2>3. ASSUME NEW n \in 0..K PROVE E[n] = F[n]
    <3>1. PICK b : b = 2 * n + 1
      OBVIOUS
    <3>2. b \in 1..(2 * K + 2)
      BY <1>3, <3>1
    <3>3. Translate(T, f.sinks[b]) = Translate(U, g.sinks[b])
      BY <1>3, <2>1, <3>2
    <3>. QED  BY <1>3, <1>4, <2>2, <3>1, <3>3
  <2>. QED  BY <1>3, <1>4, <2>2, <2>3
<1>6. ASSUME E = F PROVE SameTold(f, T, g, U)
  <2>1. K = L
    <3>1. 0..K = 0..L
      BY <1>3, <1>4, <1>6
    <3>2. K \in 0..K /\ L \in 0..L
      BY <1>3, <1>4
    <3>3. K \in 0..L /\ L \in 0..K
      BY <3>1, <3>2
    <3>. QED  BY <1>3, <1>4, <3>3
  <2>2. DOMAIN f.sinks = DOMAIN g.sinks
    BY <1>3, <1>4, <2>1
  <2>3. ASSUME NEW b \in DOMAIN f.sinks
        PROVE  Translate(T, f.sinks[b]) = Translate(U, g.sinks[b]) /\ f.succ[b] = g.succ[b]
    <3>1. PICK n : n = (b - 1) \div 2
      OBVIOUS
    <3>2. b \in 1..(2 * K + 2)
      BY <1>3
    <3>3. n \in 0..K /\ (b = 2 * n + 1 \/ b = 2 * n + 2)
      <4>1. K \in Nat
        BY <1>3
      <4>2. b \in Nat /\ b >= 1 /\ b <= 2 * K + 2
        BY <3>2, <4>1
      <4>. QED  BY <3>1, <4>1, <4>2
    <3>4. /\ Translate(T, f.sinks[2 * n + 1]) = E[n] /\ Translate(T, f.sinks[2 * n + 2]) = <<>>
          /\ f.succ[2 * n + 2] = <<>>
      BY <1>3, <3>3
    <3>5. /\ Translate(U, g.sinks[2 * n + 1]) = F[n] /\ Translate(U, g.sinks[2 * n + 2]) = <<>>
          /\ g.succ[2 * n + 2] = <<>>
      BY <1>4, <2>1, <3>3
    <3>6. f.succ[2 * n + 1] = g.succ[2 * n + 1]
      BY <1>3, <1>4, <2>1, <3>3
    <3>. QED  BY <1>6, <3>3, <3>4, <3>5, <3>6
  <2>. QED  BY <2>2, <2>3 DEF SameTold
<1>. QED  BY <1>2, <1>5, <1>6

-----------------------------------------------------------------------------
(* The second function, to which every lemma about the analyses applies.   *)

P2 == INSTANCE DataFlowProofs WITH
    code <- code2, blocks <- blocks2, psTable <- psTable2, stack <- stack2,
    status <- status2, ops <- ops2, worklist <- worklist2, visit <- visit2,
    contexts <- contexts2, sinks <- sinks2, inputs <- inputs2, pass <- pass2,
    current <- current2, dfa <- dfa2

LEMMA SecondGraph == Second!Next => P2!Next
<1>. USE DEF
          Second!IsBranch, P2!IsBranch, Second!HasTarget, P2!HasTarget,
          Second!AtRuntime, P2!AtRuntime, Second!ComesBack, P2!ComesBack,
          Second!Positions, P2!Positions, Second!External, P2!External,
          Second!Unresolved, P2!Unresolved, Second!At, P2!At, Second!Top,
          P2!Top, Second!SetTop, P2!SetTop, Second!Call, P2!Call,
          Second!Return, P2!Return, Second!Stop, P2!Stop, Second!Link,
          P2!Link, Second!LinkNew, P2!LinkNew, Second!LinkExisting,
          P2!LinkExisting, Second!NewBlock, P2!NewBlock, Second!EmptyEntry,
          P2!EmptyEntry, Second!Enter, P2!Enter,
          Second!findInternalBlockByPosition, P2!findInternalBlockByPosition,
          Second!FirstOrNone, P2!FirstOrNone, Second!First, P2!First,
          Second!createSuccessorFallthrough, P2!createSuccessorFallthrough,
          Second!hasExternalSuccessor, P2!hasExternalSuccessor, Second!graph,
          P2!graph
<1>1. Second!ScanPlain => P2!ScanPlain
  BY Zenon DEF Second!ScanPlain, P2!ScanPlain
<1>2. Second!RunOffEnd => P2!RunOffEnd
  BY DEF Second!RunOffEnd, P2!RunOffEnd
<1>3. Second!HandleBranch => P2!HandleBranch
  BY DEF Second!HandleBranch, P2!HandleBranch
<1>4. Second!RuntimeBranch => P2!RuntimeBranch
  BY DEF Second!RuntimeBranch, P2!RuntimeBranch
<1>5. Second!AfterBranch => P2!AfterBranch
  BY Zenon DEF Second!AfterBranch, P2!AfterBranch
<1>6. Second!EndCall => P2!EndCall
  BY DEF Second!EndCall, P2!EndCall
<1>7. Second!EndBlock => P2!EndBlock
  BY Zenon DEF Second!EndBlock, P2!EndBlock
<1>8. Second!Terminated => P2!Terminated
  BY DEF Second!Terminated, P2!Terminated, Second!vars, P2!vars
<1>. QED  BY <1>1, <1>2, <1>3, <1>4, <1>5, <1>6, <1>7, <1>8 DEF Second!Next, P2!Next

LEMMA SecondFlow == Second!DfaNext => P2!DfaNext
<1>. USE DEF
          Second!IsBranch, P2!IsBranch, Second!HasTarget, P2!HasTarget,
          Second!AtRuntime, P2!AtRuntime, Second!VisitBlock, P2!VisitBlock,
          Second!NoContext, P2!NoContext, Second!getSizes, P2!getSizes,
          Second!EntryContext, P2!EntryContext, Second!PopFront, P2!PopFront,
          Second!Fresh, P2!Fresh, Second!Use, P2!Use, Second!Uses, P2!Uses,
          Second!UseInputs, P2!UseInputs, Second!Over, P2!Over,
          Second!Outputs, P2!Outputs, Second!Define, P2!Define, Second!Kill,
          P2!Kill, Second!AddSink, P2!AddSink, Second!PushSuccessors,
          P2!PushSuccessors, Second!flow, P2!flow, Second!Contains,
          P2!Contains, Second!Front, P2!Front, Second!Last, P2!Last,
          Second!Cardinality, P2!Cardinality, Second!Sublist, P2!Sublist,
          Second!SetToSeq, P2!SetToSeq, Second!IsInjective, P2!IsInjective
<1>1. Second!InitWorklist => P2!InitWorklist
  BY DEF Second!InitWorklist, P2!InitWorklist
<1>2. Second!VisitSuccessor => P2!VisitSuccessor
  BY Zenon DEF Second!VisitSuccessor, P2!VisitSuccessor
<1>3. Second!VisitReturn => P2!VisitReturn
  BY DEF Second!VisitReturn, P2!VisitReturn
<1>4. Second!TakeBlock => P2!TakeBlock
  BY DEF Second!TakeBlock, P2!TakeBlock
<1>5. Second!Instruction => P2!Instruction
  BY Zenon DEF Second!Instruction, P2!Instruction
<1>6. Second!InstructionThrows => P2!InstructionThrows
  BY DEF Second!InstructionThrows, P2!InstructionThrows
<1>7. Second!FinishBlock => P2!FinishBlock
  BY Zenon DEF Second!FinishBlock, P2!FinishBlock
<1>8. Second!Finish => P2!Finish
  BY DEF Second!Finish, P2!Finish
<1>9. Second!Overflow => P2!Overflow
  BY DEF Second!Overflow, P2!Overflow
<1>. QED  BY <1>1, <1>2, <1>3, <1>4, <1>5, <1>6, <1>7, <1>8, <1>9 DEF Second!DfaNext, P2!DfaNext

LEMMA SecondInv ==
    /\ P2!AnalysisInit => P2!FunctionInv
    /\ P2!FunctionInv /\ [P2!FunctionNext]_P2!allVars => P2!FunctionInv'
    /\ P2!FunctionInv => P2!AllAnalysed
    /\ [P2!FunctionNext]_P2!allVars => code2' = code2 /\ ops2' = ops2
    /\ [P2!FunctionNext]_P2!allVars /\ dfa2 = "done" => dfa2' = "done"
    /\ P2!FunctionInv /\ P2!WellEnded /\ dfa2 = "done"
          => P2!Walkable(inputs2, sinks2, [b \in DOMAIN blocks2 |-> psTable2[b].succ])
    /\ P2!FunctionInv => P2!StraightDone
    /\ P2!FunctionInv /\ [P2!FunctionNext]_P2!allVars /\ dfa2 = "done" => UNCHANGED P2!allVars
BY P2!FunctionInvInit, P2!FunctionInvStep, P2!DoneAnalysed, P2!CodeFixed, P2!DoneStays,
   P2!DoneWalkable, P2!DoneStraight, P2!DoneFixed,
   LengthAssumption, InsnsAssumption, AssertsAssumption, FunctionsAssumption,
   StoreAssumption, CallAssumption, MaxPassesAssumption
   DEF P2!Insn, Insn, P2!Operand, Operand, P2!Positions, Positions, P2!Kinds, Kinds,
       P2!IsBranch, IsBranch, P2!HasTarget, HasTarget, P2!AtRuntime, AtRuntime,
       P2!External, External, P2!Unresolved, Unresolved, P2!IsFiniteSet, IsFiniteSet

LEMMA SecondWalkable ==
    ASSUME NEW nodes, NEW ends, NEW succ, P2!Walkable(nodes, ends, succ)
    PROVE  Walkable(nodes, ends, succ)
BY DEF P2!Walkable, Walkable, P2!Node, Node, P2!IsOperand, IsOperand, P2!Positions, Positions,
       P2!Older, Older, P2!Sink, Sink, P2!SinkListed, SinkListed, P2!IsFiniteSet, IsFiniteSet

(* What is told of a straight function does not depend on the state.       *)
LEMMA SecondStraight ==
    /\ \A c : P2!IsStraight(c) <=> IsStraight(c)
    /\ \A c, o, blockOf, nodes, ends, succ :
          P2!StraightFlow(c, o, blockOf, nodes, ends, succ)
              <=> StraightFlow(c, o, blockOf, nodes, ends, succ)
<1>1. ASSUME NEW c PROVE P2!IsStraight(c) <=> IsStraight(c)
  BY DEF P2!IsStraight, IsStraight, P2!CallIn, CallIn, P2!Positions, Positions, P2!External,
         External, P2!Insn, Insn, P2!Kinds, Kinds, P2!Unresolved, Unresolved
<1>2. /\ \A c, p : P2!CallIn(c, p) <=> CallIn(c, p)
      /\ \A c, p : P2!Calls(c, p) = Calls(c, p)
  BY DEF P2!Calls, Calls, P2!CallsUpTo, CallsUpTo, P2!CallIn, CallIn, P2!External, External,
         P2!Cardinality, Cardinality
<1>3. \A s, S : P2!Sublist(s, S) = Sublist(s, S)
  BY DEF P2!Sublist, Sublist
<1>4. \A S : P2!SetToSeq(S) = SetToSeq(S)
  BY DEF P2!SetToSeq, SetToSeq, P2!IsInjective, IsInjective, P2!Cardinality, Cardinality
<1>5. \A c, kind, p, r : P2!NodeAt(c, kind, p, r) = NodeAt(c, kind, p, r)
  BY <1>2 DEF P2!NodeAt, NodeAt
<1>6. \A c, o, p, r : P2!Holds(c, o, p, r) = Holds(c, o, p, r)
  <2>1. \A c, o, p, r : P2!Writes(c, o, p, r) <=> Writes(c, o, p, r)
    BY <1>2 DEF P2!Writes, Writes
  <2>2. \A c, o, p, r : P2!Lasts(c, o, p, r) = Lasts(c, o, p, r)
    BY <2>1 DEF P2!Lasts, Lasts
  <2>3. \A c, q, r : P2!Left(c, q, r) = Left(c, q, r)
    BY <1>2, <1>5 DEF P2!Left, Left
  <2>. QED  BY <2>2, <2>3 DEF P2!Holds, Holds
<1>7. \A c, o, p, r : P2!UseOf(c, o, p, r) = UseOf(c, o, p, r)
  <2>. SUFFICES ASSUME NEW c, NEW o, NEW p, NEW r PROVE P2!UseOf(c, o, p, r) = UseOf(c, o, p, r)
    OBVIOUS
  <2>1. PICK H, n : H = Holds(c, o, p, r) /\ n = NodeAt(c, "input", p, r)
    OBVIOUS
  <2>2. H = P2!Holds(c, o, p, r) /\ n = P2!NodeAt(c, "input", p, r)
    BY <1>5, <1>6, <2>1
  <2>. QED  BY <2>1, <2>2 DEF P2!UseOf, UseOf
<1>8. \A c, o, p : P2!UsesOf(c, o, p) = UsesOf(c, o, p)
  BY <1>7 DEF P2!UsesOf, UsesOf
<1>9. \A c, o, n : P2!SinksAfter(c, o, n) = SinksAfter(c, o, n)
  <2>1. \A c, o, n, p : P2!Ends(c, o, n, p) = Ends(c, o, n, p)
    BY <1>2 DEF P2!Ends, Ends, P2!Positions, Positions, P2!IsBranch, IsBranch,
                P2!HasTarget, HasTarget, P2!AtRuntime, AtRuntime
  <2>2. P2!Numbers = Numbers
    BY DEF P2!Numbers, Numbers
  <2>3. \A c, o, n, p : P2!SinksOf(c, o, n, p) = SinksOf(c, o, n, p)
    BY <1>3, <1>8, <2>1, <2>2 DEF P2!SinksOf, SinksOf
  <2>4. \A c, o : P2!ReturnsOf(c, o) = ReturnsOf(c, o)
    BY <1>3, <1>4, <1>6, <1>7 DEF P2!ReturnsOf, ReturnsOf
  <2>. QED  BY <1>2, <2>3, <2>4 DEF P2!SinksAfter, SinksAfter
<1>10. \A c, o, m, used : P2!Fits(c, o, m, used) <=> Fits(c, o, m, used)
  BY <1>5, <1>8 DEF P2!Fits, Fits, P2!Positions, Positions
<1>. QED
  BY <1>1, <1>2, <1>9, <1>10 DEF P2!StraightFlow, StraightFlow, P2!Positions, Positions

-----------------------------------------------------------------------------
(* The graphs that are compared.                                           *)

C == INSTANCE ComparatorProofs WITH
    Functions <- {}, References <- {}, func1 <- flow1, func2 <- flow2, stack <- calls,
    looked <- {}

(* The graph of a function that has been analysed is one that the lemmas   *)
(* about the comparison apply to.                                          *)
LEMMA FlowIsGraph ==
    ASSUME NEW insns, NEW from, DecodedFrom(insns, from),
           NEW nodes, NEW ends, NEW succ, Walkable(nodes, ends, succ),
           NEW blockOf, NEW order \in Orders(nodes)
    PROVE  C!IsGraph(FlowOf(insns, nodes, ends, blockOf, succ, order))
<1>1. \A f : Comparator!IsGraph(f) => C!IsGraph(f)
  BY DEF Comparator!IsGraph, C!IsGraph, Comparator!Grounded, C!Grounded
<1>. QED  BY <1>1, FlowGraph

(* So the graphs of two straight functions can be read as terms.           *)
LEMMA GraphsHaveTerms ==
    ASSUME NEW insns, NEW nodes, NEW ends, NEW succ, NEW blockOf, NEW order,
           StraightGraph(insns, blockOf, nodes, ends, succ, order),
           NEW T, T = TermsOf(insns, nodes, ends),
           NEW f, f = FlowOf(insns, nodes, ends, blockOf, succ, order)
    PROVE  /\ C!Reads(f, T)
           /\ \A n \in DOMAIN f.nodes : \E operands : HasTerm(f.nodes[n], T[n], operands)
<1>1. ASSUME NEW n \in DOMAIN f.nodes
      PROVE  HasTerm(f.nodes[n], T[n], C!ReadInputs(f, T, n))
  <2>1. n \in Names(insns, nodes, ends)
        /\ f.nodes[n] = FlowNode(insns, nodes, ends, blockOf, order, n)
    BY FlowFields
  <2>2. PICK m : m = f.nodes[n]
    OBVIOUS
  <2>3. HasTerm(m, T[n], Translate(T, m.inputs))
    BY <2>1, <2>2, NodesHaveTerms
  <2>4. C!ReadInputs(f, T, n) = Translate(T, m.inputs)
    BY <2>2 DEF C!ReadInputs, Translate
  <2>. QED  BY <2>2, <2>3, <2>4
<1>2. ASSUME NEW n \in DOMAIN f.nodes
      PROVE  T[n] = <<f.nodes[n].type, T[n][2], C!ReadInputs(f, T, n)>>
  BY <1>1 DEF HasTerm
<1>. QED  BY <1>1, <1>2 DEF C!Reads

LEMMA TermsTell ==
    ASSUME NEW f, NEW T, NEW g, NEW U,
           \A n \in DOMAIN f.nodes : \E operands : HasTerm(f.nodes[n], T[n], operands),
           \A n \in DOMAIN g.nodes : \E operands : HasTerm(g.nodes[n], U[n], operands)
    PROVE  C!Tells(f, T, g, U)
<1>. SUFFICES ASSUME NEW m \in DOMAIN f.nodes, NEW n \in DOMAIN g.nodes,
                     f.nodes[m].type = g.nodes[n].type
              PROVE  C!Agree(f.nodes[m], g.nodes[n]) <=> T[m][2] = U[n][2]
  BY DEF C!Tells
<1>1. PICK x, y, s, t : x = f.nodes[m] /\ y = g.nodes[n] /\ s = T[m] /\ t = U[n]
  OBVIOUS
<1>2. PICK a, b : HasTerm(x, s, a) /\ HasTerm(y, t, b)
  BY <1>1
<1>3. C!Agree(x, y) <=> x.type \in {"phi", "callreturn"} \/ x.detail = y.detail
  BY <1>1 DEF C!Agree
<1>4. CASE x.type \in InPlace
  <2>1. PICK d : \E i \in Nat : x.detail = <<d, 2 * i + 1>> /\ s[2] = <<d, i>>
    BY <1>2, <1>4 DEF HasTerm
  <2>7. PICK i \in Nat : x.detail = <<d, 2 * i + 1>> /\ s[2] = <<d, i>>
    BY <2>1
  <2>2. PICK e : \E j \in Nat : y.detail = <<e, 2 * j + 1>> /\ t[2] = <<e, j>>
    BY <1>1, <1>2, <1>4 DEF HasTerm
  <2>8. PICK j \in Nat : y.detail = <<e, 2 * j + 1>> /\ t[2] = <<e, j>>
    BY <2>2
  <2>3. x.detail = y.detail <=> d = e /\ 2 * i + 1 = 2 * j + 1
    BY <2>7, <2>8
  <2>4. s[2] = t[2] <=> d = e /\ i = j
    BY <2>7, <2>8
  <2>5. 2 * i + 1 = 2 * j + 1 <=> i = j
    OBVIOUS
  <2>6. x.type \notin {"phi", "callreturn"}
    BY <1>4 DEF InPlace
  <2>. QED  BY <1>1, <1>3, <2>3, <2>4, <2>5, <2>6
<1>5. CASE x.type \notin InPlace
  <2>1. x.type # "phi" /\ s[2] = x.detail /\ t[2] = y.detail
    BY <1>1, <1>2, <1>5 DEF HasTerm
  <2>2. x.type = "callreturn" => x.detail = y.detail
    BY <1>1, <1>2 DEF HasTerm
  <2>. QED  BY <1>1, <1>3, <2>1, <2>2
<1>. QED  BY <1>4, <1>5

LEMMA SameAsTold ==
    ASSUME NEW f, NEW T, NEW g, NEW U
    PROVE  C!SameReadings(f, T, g, U) <=> SameTold(f, T, g, U)
BY DEF C!SameReadings, SameTold, C!ReadSinks, Translate

-----------------------------------------------------------------------------
(* The comparison, to which the lemmas about it apply.                     *)

LEMMA ComparatorSteps == Comparator!Next => C!Next
<1>. USE DEF
          Comparator!Nodes1, C!Nodes1, Comparator!Nodes2, C!Nodes2,
          Comparator!Blocks1, C!Blocks1, Comparator!Blocks2, C!Blocks2,
          Comparator!Call, C!Call, Comparator!Top, C!Top, Comparator!Node1, C!Node1,
          Comparator!Node2, C!Node2, Comparator!Return, C!Return,
          Comparator!Remember, C!Remember, Comparator!Proceed, C!Proceed,
          Comparator!Fails, C!Fails, Comparator!Agree, C!Agree, Comparator!Cached, C!Cached,
          Comparator!Unresolved, C!Unresolved, Comparator!AtBlocks, C!AtBlocks,
          Comparator!Differ, C!Differ, Comparator!BlocksAgree, C!BlocksAgree
<1>1. Comparator!Enter => C!Enter
  BY DEF Comparator!Enter, C!Enter
<1>2. Comparator!Abort => C!Abort
  BY DEF Comparator!Abort, C!Abort
<1>3. Comparator!CompareInput => C!CompareInput
  BY Zenon DEF Comparator!CompareInput, C!CompareInput
<1>4. Comparator!InputCompared => C!InputCompared
  BY DEF Comparator!InputCompared, C!InputCompared
<1>5. Comparator!EndInputs => C!EndInputs
  BY DEF Comparator!EndInputs, C!EndInputs
<1>6. Comparator!CompareSink => C!CompareSink
  BY DEF Comparator!CompareSink, C!CompareSink
<1>7. Comparator!SinkCompared => C!SinkCompared
  BY DEF Comparator!SinkCompared, C!SinkCompared
<1>8. Comparator!EndBlock => C!EndBlock
  BY DEF Comparator!EndBlock, C!EndBlock
<1>9. Comparator!EndFunction => C!EndFunction
  BY DEF Comparator!EndFunction, C!EndFunction
<1>10. Comparator!Finished => C!Finished
  BY DEF Comparator!Finished, C!Finished, Comparator!vars, C!vars
<1>. QED
  BY <1>1, <1>2, <1>3, <1>4, <1>5, <1>6, <1>7, <1>8, <1>9, <1>10 DEF Comparator!Next, C!Next

LEMMA ComparatorFacts ==
    /\ C!Started' => C!ComparatorInv'
    /\ C!ComparatorInv /\ [C!Next]_C!vars => C!ComparatorInv'
    /\ C!ComparatorInv => C!AnswerExact /\ C!CacheTrusted
<1>1. C!FunctionsOK
  BY DEF C!FunctionsOK
<1>. QED  BY <1>1, C!StartedNext, C!NextInv, C!InvTrusts

(* The comparison of the graphs is described by the same words.            *)
LEMMA SameWords ==
    /\ C!AnswerExact => Comparator!AnswerExact
    /\ C!CacheTrusted => Comparator!CacheTrusted
<1>. USE DEF
          Comparator!SameNode, C!SameNode, Comparator!Fails, C!Fails, Comparator!Agree, C!Agree,
          Comparator!Unresolved, C!Unresolved
<1>1. \A f, g : /\ Comparator!SameNode(f, g, TRUE) = C!SameNode(f, g, TRUE)
                /\ Comparator!SameNode(f, g, FALSE) = C!SameNode(f, g, FALSE)
  OBVIOUS
<1>. QED
  BY DEF Comparator!AnswerExact, C!AnswerExact, Comparator!CacheTrusted, C!CacheTrusted,
         Comparator!SameFunction, C!SameFunction, Comparator!SameBlock, C!SameBlock,
         Comparator!Blocks1, C!Blocks1, Comparator!Blocks2, C!Blocks2,
         Comparator!Top, C!Top, Comparator!Cached, C!Cached

LEMMA SecondEnds == Second!Closure = P2!Closure /\ (Second!WellEnded <=> P2!WellEnded)
<1>1. Second!Closure = P2!Closure
  BY DEF Second!Closure, P2!Closure, Second!ClosedUnderFlow, P2!ClosedUnderFlow,
         Second!FlowSuccs, P2!FlowSuccs, Second!BranchSuccs, P2!BranchSuccs,
         Second!Positions, P2!Positions, Second!ComesBack, P2!ComesBack,
         Second!IsBranch, P2!IsBranch, Second!HasTarget, P2!HasTarget,
         Second!AtRuntime, P2!AtRuntime
<1>. QED  BY <1>1 DEF Second!WellEnded, P2!WellEnded, Second!Positions, P2!Positions

-----------------------------------------------------------------------------
(* A turn of the command.                                                  *)

(* When both functions end well, the graphs are some that can be compared, *)
(* and the comparison of them has its invariant.                           *)
Comparing ==
    IF flow1 = <<>> THEN C!Untouched
    ELSE WellEnded /\ P2!WellEnded => C!ComparatorInv

(* What is compared are the graphs that the analyses have left.            *)
FirstFlow(o) ==
    FlowOf(insns1, inputs, sinks, [p \in Positions |-> findBlockByInsnIdx(p)],
           [b \in DOMAIN blocks |-> psTable[b].succ], o)
OtherFlow(o) ==
    FlowOf(insns2, inputs2, sinks2, [p \in Positions |-> P2!findBlockByInsnIdx(p)],
           [b \in DOMAIN blocks2 |-> psTable2[b].succ], o)
Built ==
    flow1 # <<>> => /\ \E o \in Orders(inputs) : flow1 = FirstFlow(o)
                    /\ \E o \in Orders(inputs2) : flow2 = OtherFlow(o)

(* The flows are built, and compared, when both analyses are done.         *)
CheckInv ==
    /\ \E p \in Pairs : insns1 = Decoded(p[1]) /\ insns2 = Decoded(p[2])
    /\ code = CodeOf(insns1) /\ ops = OpsOf(insns1)
    /\ code2 = CodeOf(insns2) /\ ops2 = OpsOf(insns2)
    /\ FunctionInv /\ P2!FunctionInv
    /\ flow1 # <<>> \/ answer # "none" => dfa = "done" /\ dfa2 = "done"
    /\ Comparing /\ Built

LEMMA CheckInvInit == CheckInit => CheckInv
<1>. SUFFICES ASSUME CheckInit PROVE CheckInv
  OBVIOUS
<1>1. PICK p \in Pairs : insns1 = Decoded(p[1]) /\ insns2 = Decoded(p[2])
  BY DEF CheckInit
<1>2. DecodedFrom(insns1, p[1]) /\ DecodedFrom(insns2, p[2])
  BY <1>1, PairDecoded
<1>3. AnalysisInit
  <2>1. code \in [Positions -> Insns] /\ Analysable(code, ops)
    BY <1>2, CodeKept, OpsAnalysable DEF CheckInit
  <2>. QED  BY <2>1 DEF CheckInit, AnalysisInit, Init
<1>4. P2!AnalysisInit
  <2>1. code2 \in [Positions -> Insns] /\ Analysable(code2, ops2)
    BY <1>2, CodeKept, OpsAnalysable DEF CheckInit
  <2>2. P2!Analysable(code2, ops2)
    BY <2>1 DEF P2!Analysable, Analysable, P2!Operand, Operand, P2!Positions, Positions,
                P2!IsBranch, IsBranch, P2!HasTarget, HasTarget, P2!AtRuntime, AtRuntime
  <2>3. P2!Init
    BY <2>1 DEF CheckInit, P2!Init, P2!Positions, Positions, P2!NewBlock, NewBlock,
                P2!EmptyEntry, EmptyEntry, P2!Call, Call
  <2>4. P2!DfaInit
    BY DEF CheckInit, Second!DfaInit, P2!DfaInit
  <2>. QED  BY <2>2, <2>3, <2>4 DEF P2!AnalysisInit
<1>5. Comparing
  BY DEF CheckInit, Comparing, C!Untouched
<1>6. Built
  BY DEF CheckInit, Built
<1>. QED  BY <1>1, <1>3, <1>4, <1>5, <1>6, FunctionInvInit, SecondInv DEF CheckInit, CheckInv

(* A step of the command is one of the first function's analyses or none,  *)
(* and one of the second function's or none.                               *)
LEMMA CheckStep ==
    ASSUME [CheckNext]_checkVars
    PROVE  /\ [FunctionNext]_allVars /\ [P2!FunctionNext]_P2!allVars
           /\ UNCHANGED <<insns1, insns2>>
<1>1. UNCHANGED <<insns1, insns2>>
  BY DEF CheckNext, CfaFirst, CfaSecond, DfaFirst, DfaSecond, BuildFlows, Compare, Exited,
         checkVars
<1>2. UNCHANGED second => UNCHANGED P2!allVars
  BY DEF second, cfa2, dfaVars2, P2!allVars, P2!vars, P2!dfaVars, P2!flow
<1>3. CASE CfaFirst
  BY <1>1, <1>2, <1>3 DEF CfaFirst, FunctionNext
<1>4. CASE DfaFirst
  BY <1>1, <1>2, <1>4 DEF DfaFirst, FunctionNext
<1>5. CASE CfaSecond
  <2>1. P2!Next /\ UNCHANGED P2!dfaVars
    BY <1>5, SecondGraph DEF CfaSecond, dfaVars2, P2!dfaVars, P2!flow
  <2>. QED  BY <1>1, <1>5, <2>1 DEF CfaSecond, first, P2!FunctionNext
<1>6. CASE DfaSecond
  <2>1. P2!DfaNext /\ UNCHANGED P2!vars
    BY <1>6, SecondFlow DEF DfaSecond, cfa2, P2!vars
  <2>. QED  BY <1>1, <1>6, <2>1 DEF DfaSecond, first, P2!FunctionNext
<1>7. CASE BuildFlows \/ Compare \/ Exited \/ UNCHANGED checkVars
  <2>1. UNCHANGED <<first, second>>
    BY <1>7 DEF BuildFlows, Compare, Exited, checkVars
  <2>. QED  BY <1>1, <1>2, <2>1 DEF first
<1>. QED  BY <1>3, <1>4, <1>5, <1>6, <1>7 DEF CheckNext

(* What is compared are graphs.                                            *)
LEMMA FirstIsGraph ==
    ASSUME CheckInv, dfa = "done", WellEnded, NEW o \in Orders(inputs), NEW blockOf
    PROVE  C!IsGraph(FlowOf(insns1, inputs, sinks, blockOf,
                            [b \in DOMAIN blocks |-> psTable[b].succ], o))
<1>1. Walkable(inputs, sinks, [b \in DOMAIN blocks |-> psTable[b].succ])
  BY DoneWalkable DEF CheckInv
<1>2. PICK p \in Pairs : insns1 = Decoded(p[1])
  BY DEF CheckInv
<1>. QED  BY <1>1, <1>2, PairDecoded, FlowIsGraph

LEMMA SecondIsGraph ==
    ASSUME CheckInv, dfa2 = "done", P2!WellEnded, NEW o \in Orders(inputs2), NEW blockOf
    PROVE  C!IsGraph(FlowOf(insns2, inputs2, sinks2, blockOf,
                            [b \in DOMAIN blocks2 |-> psTable2[b].succ], o))
<1>1. Walkable(inputs2, sinks2, [b \in DOMAIN blocks2 |-> psTable2[b].succ])
  BY SecondInv, SecondWalkable DEF CheckInv
<1>2. PICK p \in Pairs : insns2 = Decoded(p[2])
  BY DEF CheckInv
<1>. QED  BY <1>1, <1>2, PairDecoded, FlowIsGraph

LEMMA ComparingStep ==
    ASSUME CheckInv, [CheckNext]_checkVars
    PROVE  Comparing'
<1>1. WellEnded' => WellEnded
  BY CheckStep, CodeFixed, ClosureKept DEF WellEnded
<1>2. P2!WellEnded' => P2!WellEnded
  <2>1. code2' = code2
    BY CheckStep, SecondInv
  <2>2. P2!Closure' = P2!Closure
    BY <2>1 DEF P2!Closure, P2!ClosedUnderFlow
  <2>. QED  BY <2>2 DEF P2!WellEnded
<1>3. Comparing
  BY DEF CheckInv
<1>4. CASE BuildFlows
  <2>1. flow1 = <<>> /\ UNCHANGED <<block, sink, calls, cache, result, answer>>
    BY <1>4 DEF BuildFlows
  <2>2. C!Untouched'
    BY <1>3, <2>1 DEF Comparing, C!Untouched
  <2>3. ASSUME WellEnded', P2!WellEnded' PROVE C!ComparatorInv'
    <3>1. WellEnded /\ P2!WellEnded /\ dfa = "done" /\ dfa2 = "done"
      BY <1>1, <1>2, <1>4, <2>3 DEF BuildFlows
    <3>2. C!IsGraph(flow1')
      <4>1. PICK o \in Orders(inputs) :
               flow1' = FlowOf(insns1, inputs, sinks,
                               [p \in Positions |-> findBlockByInsnIdx(p)],
                               [b \in DOMAIN blocks |-> psTable[b].succ], o)
        BY <1>4 DEF BuildFlows
      <4>. QED  BY <3>1, <4>1, FirstIsGraph
    <3>3. C!IsGraph(flow2')
      <4>1. PICK o \in Orders(inputs2) :
               flow2' = FlowOf(insns2, inputs2, sinks2,
                               [p \in Positions |-> Second!findBlockByInsnIdx(p)],
                               [b \in DOMAIN blocks2 |-> psTable2[b].succ], o)
        BY <1>4 DEF BuildFlows
      <4>. QED  BY <3>1, <4>1, SecondIsGraph
    <3>4. C!Started'
      BY <2>2, <3>2, <3>3 DEF C!Started
    <3>. QED  BY <3>4, ComparatorFacts
  <2>. QED  BY <2>2, <2>3 DEF Comparing
<1>5. CASE Compare
  <2>1. flow1 # <<>> /\ C!Next
    BY <1>5, ComparatorSteps DEF Compare
  <2>2. flow1' = flow1
    BY <2>1 DEF C!Next, C!Enter, C!Abort, C!CompareInput, C!InputCompared, C!EndInputs,
                C!CompareSink, C!SinkCompared, C!EndBlock, C!EndFunction, C!Finished, C!vars
  <2>. QED  BY <1>1, <1>2, <1>3, <2>1, <2>2, ComparatorFacts DEF Comparing
<1>6. CASE UNCHANGED comparing
  <2>1. UNCHANGED C!vars /\ flow1' = flow1
    BY <1>6 DEF comparing, C!vars
  <2>2. C!Untouched => C!Untouched'
    BY <1>6 DEF comparing, C!Untouched
  <2>. QED  BY <1>1, <1>2, <1>3, <2>1, <2>2, ComparatorFacts DEF Comparing
<1>. QED
  BY <1>4, <1>5, <1>6 DEF CheckNext, CfaFirst, CfaSecond, DfaFirst, DfaSecond, Exited, checkVars

LEMMA BuiltStep ==
    ASSUME CheckInv, [CheckNext]_checkVars
    PROVE  Built'
<1>1. CASE BuildFlows
  <2>1. /\ UNCHANGED <<insns1, insns2, first, second>>
        /\ \E o \in Orders(inputs) : flow1' = FirstFlow(o)
    BY <1>1 DEF BuildFlows, FirstFlow
  <2>2. \E o \in Orders(inputs2) : flow2' = OtherFlow(o)
    <3>1. \A p : Second!findBlockByInsnIdx(p) = P2!findBlockByInsnIdx(p)
      BY DEF Second!findBlockByInsnIdx, P2!findBlockByInsnIdx, Second!FirstOrNone,
             P2!FirstOrNone, Second!First, P2!First
    <3>2. [p \in Positions |-> Second!findBlockByInsnIdx(p)]
            = [p \in Positions |-> P2!findBlockByInsnIdx(p)]
      BY <3>1
    <3>. QED  BY <1>1, <3>2 DEF BuildFlows, OtherFlow
  <2>3. /\ inputs' = inputs /\ sinks' = sinks /\ blocks' = blocks /\ psTable' = psTable
        /\ inputs2' = inputs2 /\ sinks2' = sinks2 /\ blocks2' = blocks2 /\ psTable2' = psTable2
        /\ insns1' = insns1 /\ insns2' = insns2
    BY <2>1 DEF first, second, cfa2, dfaVars2, allVars, vars, dfaVars, flow
  <2>4. \A o : FirstFlow(o)' = FirstFlow(o) /\ OtherFlow(o)' = OtherFlow(o)
    BY <2>3 DEF FirstFlow, OtherFlow, findBlockByInsnIdx, P2!findBlockByInsnIdx, FirstOrNone,
                P2!FirstOrNone, First, P2!First
  <2>5. Orders(inputs)' = Orders(inputs) /\ Orders(inputs2)' = Orders(inputs2)
    BY <2>3
  <2>. QED  BY <2>1, <2>2, <2>4, <2>5 DEF Built
<1>2. CASE ~BuildFlows
  <2>. SUFFICES ASSUME flow1' # <<>>
                PROVE  /\ (\E o \in Orders(inputs) : flow1 = FirstFlow(o))'
                       /\ (\E o \in Orders(inputs2) : flow2 = OtherFlow(o))'
    BY DEF Built
  <2>1. flow1' = flow1 /\ flow2' = flow2
    <3>1. CASE Compare
      <4>1. C!Next
        BY <3>1, ComparatorSteps DEF Compare
      <4>. QED  BY <4>1 DEF C!Next, C!Enter, C!Abort, C!CompareInput, C!InputCompared,
                            C!EndInputs, C!CompareSink, C!SinkCompared, C!EndBlock,
                            C!EndFunction, C!Finished, C!vars
    <3>. QED  BY <1>2, <3>1 DEF CheckNext, CfaFirst, CfaSecond, DfaFirst, DfaSecond, Exited,
                                checkVars, comparing
  <2>2. /\ dfa = "done" /\ dfa2 = "done"
        /\ \E o \in Orders(inputs) : flow1 = FirstFlow(o)
        /\ \E o \in Orders(inputs2) : flow2 = OtherFlow(o)
    BY <2>1 DEF CheckInv, Built
  <2>3. UNCHANGED allVars /\ UNCHANGED P2!allVars /\ insns1' = insns1 /\ insns2' = insns2
    BY <2>2, CheckStep, DoneFixed, SecondInv DEF CheckInv
  <2>4. /\ inputs' = inputs /\ sinks' = sinks /\ blocks' = blocks /\ psTable' = psTable
        /\ inputs2' = inputs2 /\ sinks2' = sinks2 /\ blocks2' = blocks2 /\ psTable2' = psTable2
    BY <2>3 DEF allVars, vars, dfaVars, flow, P2!allVars, P2!vars, P2!dfaVars, P2!flow
  <2>5. \A o : FirstFlow(o)' = FirstFlow(o) /\ OtherFlow(o)' = OtherFlow(o)
    BY <2>3, <2>4 DEF FirstFlow, OtherFlow, findBlockByInsnIdx, P2!findBlockByInsnIdx,
                      FirstOrNone, P2!FirstOrNone, First, P2!First
  <2>6. Orders(inputs)' = Orders(inputs) /\ Orders(inputs2)' = Orders(inputs2)
    BY <2>4
  <2>. QED  BY <2>1, <2>2, <2>5, <2>6
<1>. QED  BY <1>1, <1>2

LEMMA CheckInvStep == CheckInv /\ [CheckNext]_checkVars => CheckInv'
<1>. SUFFICES ASSUME CheckInv, [CheckNext]_checkVars PROVE CheckInv'
  OBVIOUS
<1>1. /\ [FunctionNext]_allVars /\ [P2!FunctionNext]_P2!allVars
      /\ insns1' = insns1 /\ insns2' = insns2
  BY CheckStep
<1>2. FunctionInv' /\ P2!FunctionInv'
  BY <1>1, FunctionInvStep, SecondInv DEF CheckInv
<1>3. code' = code /\ ops' = ops /\ code2' = code2 /\ ops2' = ops2
  BY <1>1, CodeFixed, SecondInv
<1>4. dfa = "done" /\ dfa2 = "done" => dfa' = "done" /\ dfa2' = "done"
  BY <1>1, DoneStays, SecondInv
<1>5. flow1' # <<>> \/ answer' # "none" => dfa = "done" /\ dfa2 = "done"
  <2>1. \/ flow1' = flow1 /\ answer' = answer
        \/ BuildFlows
        \/ Compare
    BY DEF CheckNext, CfaFirst, CfaSecond, DfaFirst, DfaSecond, Exited, checkVars, comparing
  <2>. QED  BY <2>1 DEF CheckInv, BuildFlows, Compare
<1>6. \E p \in Pairs : insns1' = Decoded(p[1]) /\ insns2' = Decoded(p[2])
  BY <1>1 DEF CheckInv
<1>7. Comparing'
  BY ComparingStep
<1>8. Built'
  BY BuiltStep
<1>. QED  BY <1>1, <1>2, <1>3, <1>4, <1>5, <1>6, <1>7, <1>8 DEF CheckInv, CodeOf, OpsOf

(* The two decodings of a branch agree, whatever the value of its BO field *)
(* and whichever analysis reaches it.                                      *)
THEOREM ViewsOfBranchesAgree == CheckSpec => []BranchViewsAgree
<1>1. ASSUME CheckInv PROVE BranchViewsAgree
  <2>1. PICK p \in Pairs : insns1 = Decoded(p[1])
    BY <1>1 DEF CheckInv
  <2>2. DecodedFrom(insns1, p[1])
    BY <2>1, PairDecoded
  <2>. QED  BY <1>1, <2>2, ViewsAgree DEF BranchViewsAgree, CheckInv
<1>. QED  BY <1>1, CheckInvInit, CheckInvStep, PTL DEF CheckSpec

(* Two functions that end well are called equal only when control reaches, *)
(* in both of them, nothing but supported instructions and branches whose  *)
(* targets are known.                                                      *)
THEOREM EqualAreAnalysed ==
    CheckSpec => [](WellEnded /\ Second!WellEnded => EqualMeansAnalysed)
<1>1. ASSUME CheckInv, WellEnded, Second!WellEnded, Exit = "0"
      PROVE  Analysed(insns1, Closure) /\ Analysed(insns2, Second!Closure)
  <2>1. answer = "equal"
    BY <1>1 DEF Exit
  <2>2. dfa = "done" /\ dfa2 = "done"
    BY <1>1, <2>1 DEF CheckInv
  <2>3. Second!Closure = P2!Closure /\ P2!WellEnded
    BY <1>1, SecondEnds
  <2>5. AllAnalysed /\ P2!AllAnalysed
    BY <1>1, DoneAnalysed, SecondInv DEF CheckInv
  <2>6. \A q \in Closure \cap Positions :
            ops[q].supported /\ (HasTarget(code[q]) => code[q].target # Unresolved)
    BY <1>1, <2>2, <2>5 DEF AllAnalysed
  <2>7. \A q \in Second!Closure \cap Positions :
            ops2[q].supported /\ (HasTarget(code2[q]) => code2[q].target # Unresolved)
    BY <2>2, <2>3, <2>5
       DEF P2!AllAnalysed, P2!Positions, Positions, P2!HasTarget, HasTarget,
           P2!Unresolved, Unresolved
  <2>8. ASSUME NEW insns, NEW q \in Positions, OpsOf(insns)[q].supported,
               HasTarget(CodeOf(insns)[q]) => CodeOf(insns)[q].target # Unresolved
        PROVE  Supported(insns[q]) /\ (HasTarget(insns[q]) => insns[q].target # Unresolved)
    <3>1. OpsOf(insns)[q].supported = Supported(insns[q])
      BY DEF OpsOf
    <3>2. CodeOf(insns)[q].kind = insns[q].kind /\ CodeOf(insns)[q].target = insns[q].target
      BY DEF CodeOf
    <3>. QED  BY <2>8, <3>1, <3>2 DEF HasTarget
  <2>. QED  BY <1>1, <2>6, <2>7, <2>8 DEF CheckInv, Analysed
<1>2. CheckInv => (WellEnded /\ Second!WellEnded => EqualMeansAnalysed)
  BY <1>1 DEF EqualMeansAnalysed
<1>. QED  BY <1>2, CheckInvInit, CheckInvStep, PTL DEF CheckSpec

(* The whole command: two functions that end well are called equal only    *)
(* when they are the same as data flows, and different only when they are  *)
(* not, whatever the instructions, the registers and the order in which    *)
(* the inputs of a phi node are walked.                                    *)
THEOREM CommandAnswersExact ==
    CheckSpec => [](WellEnded /\ Second!WellEnded => Comparator!AnswerExact)
<1>1. ASSUME CheckInv, WellEnded, Second!WellEnded PROVE Comparator!AnswerExact
  <2>1. CASE flow1 = <<>>
    BY <1>1, <2>1 DEF CheckInv, Comparing, C!Untouched, Comparator!AnswerExact
  <2>2. CASE flow1 # <<>>
    BY <1>1, <2>2, SecondEnds, ComparatorFacts, SameWords DEF CheckInv, Comparing
  <2>. QED  BY <2>1, <2>2
<1>2. CheckInv => (WellEnded /\ Second!WellEnded => Comparator!AnswerExact)
  BY <1>1
<1>. QED  BY <1>2, CheckInvInit, CheckInvStep, PTL DEF CheckSpec

(* And the cache of the comparison is read only where it is right.         *)
THEOREM CommandTrustsCache ==
    CheckSpec => [](WellEnded /\ Second!WellEnded => Comparator!CacheTrusted)
<1>1. ASSUME CheckInv, WellEnded, Second!WellEnded PROVE Comparator!CacheTrusted
  <2>1. CASE flow1 = <<>>
    BY <1>1, <2>1 DEF CheckInv, Comparing, C!Untouched, Comparator!CacheTrusted
  <2>2. CASE flow1 # <<>>
    BY <1>1, <2>2, SecondEnds, ComparatorFacts, SameWords DEF CheckInv, Comparing
  <2>. QED  BY <2>1, <2>2
<1>2. CheckInv => (WellEnded /\ Second!WellEnded => Comparator!CacheTrusted)
  BY <1>1
<1>. QED  BY <1>2, CheckInvInit, CheckInvStep, PTL DEF CheckSpec

-----------------------------------------------------------------------------
(* What is compared of straight functions are their effects.               *)
LEMMA FirstIsStraight ==
    ASSUME CheckInv, dfa = "done", Straight(insns1), NEW o \in Orders(inputs),
           NEW f, f = FirstFlow(o), NEW T, T = TermsOf(insns1, inputs, sinks)
    PROVE  /\ WellEnded /\ C!IsGraph(f) /\ C!Reads(f, T) /\ EffectRead(insns1, f, T)
           /\ \A n \in DOMAIN f.nodes : \E operands : HasTerm(f.nodes[n], T[n], operands)
<1>1. PICK blockOf, succ : /\ blockOf = [p \in Positions |-> findBlockByInsnIdx(p)]
                           /\ succ = [b \in DOMAIN blocks |-> psTable[b].succ]
  OBVIOUS
<1>2. PICK from : DecodedFrom(insns1, from)
  BY PairDecoded DEF CheckInv
<1>3. IsStraight(code)
  BY <1>2, StraightSeen DEF CheckInv
<1>4. WellEnded /\ StraightFlow(code, ops, blockOf, inputs, sinks, succ)
  BY <1>1, <1>3, DoneStraight DEF CheckInv, StraightDone
<1>5. Walkable(inputs, sinks, succ)
  BY <1>1, <1>4, DoneWalkable DEF CheckInv
<1>6. StraightGraph(insns1, blockOf, inputs, sinks, succ, o)
  BY <1>2, <1>4, <1>5 DEF CheckInv, StraightGraph
<1>7. f = FlowOf(insns1, inputs, sinks, blockOf, succ, o)
  BY <1>1 DEF FirstFlow
<1>8. C!IsGraph(f)
  BY <1>2, <1>5, <1>7, FlowIsGraph
<1>. QED  BY <1>4, <1>6, <1>7, <1>8, GraphsHaveTerms, GraphsReadEffects

LEMMA OtherIsStraight ==
    ASSUME CheckInv, dfa2 = "done", Straight(insns2), NEW o \in Orders(inputs2),
           NEW f, f = OtherFlow(o), NEW T, T = TermsOf(insns2, inputs2, sinks2)
    PROVE  /\ P2!WellEnded /\ C!IsGraph(f) /\ C!Reads(f, T) /\ EffectRead(insns2, f, T)
           /\ \A n \in DOMAIN f.nodes : \E operands : HasTerm(f.nodes[n], T[n], operands)
<1>1. PICK blockOf, succ : /\ blockOf = [p \in Positions |-> P2!findBlockByInsnIdx(p)]
                           /\ succ = [b \in DOMAIN blocks2 |-> psTable2[b].succ]
  OBVIOUS
<1>2. PICK from : DecodedFrom(insns2, from)
  BY PairDecoded DEF CheckInv
<1>3. P2!IsStraight(code2)
  <2>1. IsStraight(code2)
    BY <1>2, StraightSeen DEF CheckInv
  <2>. QED  BY <2>1, SecondStraight
<1>4. P2!WellEnded /\ StraightFlow(code2, ops2, blockOf, inputs2, sinks2, succ)
  <2>1. blockOf = [p \in P2!Positions |-> P2!findBlockByInsnIdx(p)]
    BY <1>1 DEF P2!Positions, Positions
  <2>2. P2!StraightDone
    BY SecondInv DEF CheckInv
  <2>3. P2!WellEnded /\ P2!StraightFlow(code2, ops2, blockOf, inputs2, sinks2, succ)
    BY <1>1, <1>3, <2>1, <2>2 DEF P2!StraightDone
  <2>. QED  BY <2>3, SecondStraight
<1>5. Walkable(inputs2, sinks2, succ)
  BY <1>1, <1>4, SecondInv, SecondWalkable DEF CheckInv
<1>6. StraightGraph(insns2, blockOf, inputs2, sinks2, succ, o)
  BY <1>2, <1>4, <1>5 DEF CheckInv, StraightGraph
<1>7. f = FlowOf(insns2, inputs2, sinks2, blockOf, succ, o)
  BY <1>1 DEF OtherFlow
<1>8. C!IsGraph(f)
  BY <1>2, <1>5, <1>7, FlowIsGraph
<1>. QED  BY <1>4, <1>6, <1>7, <1>8, GraphsHaveTerms, GraphsReadEffects

(* On straight functions of any length, with any registers and any number  *)
(* of calls, the answer is exact: exit code 0 exactly when each of the     *)
(* effects, the stores, the branches and the values returned, is the same  *)
(* term in both, computed from the instructions alone, and 23 otherwise.   *)
THEOREM StraightAnswersExact == CheckSpec => []StraightExact
<1>1. ASSUME CheckInv, Exit \in {"0", "23"}, Straight(insns1), Straight(insns2)
      PROVE  Exit = "0" <=> Effect(insns1) = Effect(insns2)
  <2>1. \/ answer = "equal" /\ Exit = "0"
        \/ answer = "different" /\ Exit # "0"
    BY <1>1 DEF Exit
  <2>2. flow1 # <<>>
    BY <1>1, <2>1 DEF CheckInv, Comparing, C!Untouched
  <2>3. dfa = "done" /\ dfa2 = "done" /\ Built
    BY <1>1, <2>2 DEF CheckInv
  <2>4. PICK o \in Orders(inputs) : flow1 = FirstFlow(o)
    BY <2>2, <2>3 DEF Built
  <2>5. PICK o2 \in Orders(inputs2) : flow2 = OtherFlow(o2)
    BY <2>2, <2>3 DEF Built
  <2>6. PICK T, U : T = TermsOf(insns1, inputs, sinks) /\ U = TermsOf(insns2, inputs2, sinks2)
    OBVIOUS
  <2>7. /\ WellEnded /\ C!IsGraph(flow1) /\ C!Reads(flow1, T) /\ EffectRead(insns1, flow1, T)
        /\ \A n \in DOMAIN flow1.nodes : \E operands : HasTerm(flow1.nodes[n], T[n], operands)
    BY <1>1, <2>3, <2>4, <2>6, FirstIsStraight
  <2>8. /\ P2!WellEnded /\ C!IsGraph(flow2) /\ C!Reads(flow2, U) /\ EffectRead(insns2, flow2, U)
        /\ \A n \in DOMAIN flow2.nodes : \E operands : HasTerm(flow2.nodes[n], U[n], operands)
    BY <1>1, <2>3, <2>5, <2>6, OtherIsStraight
  <2>9. C!AnswerExact
    BY <1>1, <2>2, <2>7, <2>8, ComparatorFacts DEF CheckInv, Comparing
  <2>10. C!Tells(flow1, T, flow2, U)
    BY <2>7, <2>8, TermsTell
  <2>11. /\ answer = "equal" => C!SameReadings(flow1, T, flow2, U)
         /\ answer = "different" => ~C!SameReadings(flow1, T, flow2, U)
    BY <2>7, <2>8, <2>9, <2>10, C!AnswerReads
  <2>12. C!SameReadings(flow1, T, flow2, U) <=> Effect(insns1) = Effect(insns2)
    BY <2>7, <2>8, EffectsTell, SameAsTold
  <2>. QED  BY <2>1, <2>11, <2>12
<1>2. CheckInv => StraightExact
  BY <1>1 DEF StraightExact
<1>. QED  BY <1>2, CheckInvInit, CheckInvStep, PTL DEF CheckSpec

=============================================================================
