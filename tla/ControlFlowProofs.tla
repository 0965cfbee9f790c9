-------------------------- MODULE ControlFlowProofs --------------------------
(***************************************************************************)
(* Theorems about ControlFlowAnalysis, for functions of every length, every *)
(* instruction set and both builds: what it never writes again, how deep it *)
(* recurses, what its blocks hold, that every step of it is one of the     *)
(* search of BlockDiscovery or none, and that the graph it builds is the   *)
(* function's control flow.                                                *)
(***************************************************************************)
EXTENDS ControlFlowAnalysis, SequenceLemmas

----------------------------------------------------------------------------
(* The helpers of the model.                                               *)

(* A non-empty set of numbers has a first element.                         *)
LEMMA FirstIsLeast ==
    ASSUME NEW S, S \subseteq Nat, S # {}
    PROVE  First(S) \in S /\ \A j \in S : First(S) <= j
BY LeastExists DEF First

(* findInternalBlockByPosition answers 0 only when no internal block starts *)
(* at the position, and else with one that does.                           *)
LEMMA FindInternal ==
    ASSUME TypeOK, NEW pos
    PROVE  LET f == findInternalBlockByPosition(pos)
           IN  \/ /\ f = 0
                  /\ \A i \in 1..Len(blocks) :
                        ~(blocks[i].start = pos /\ blocks[i].type = "INTERNAL")
               \/ /\ f \in 1..Len(blocks)
                  /\ blocks[f].start = pos
                  /\ blocks[f].type = "INTERNAL"
<1> DEFINE S == {i \in DOMAIN blocks : blocks[i].start = pos /\ blocks[i].type = "INTERNAL"}
<1>1. DOMAIN blocks = 1..Len(blocks) /\ Len(blocks) \in Nat
  BY LenProperties DEF TypeOK
<1>2. CASE S = {}
  BY <1>1, <1>2 DEF findInternalBlockByPosition, FirstOrNone
<1>3. CASE S # {}
  <2>1. First(S) \in S
    BY <1>1, <1>3, FirstIsLeast
  <2>. QED  BY <1>1, <1>3, <2>1 DEF findInternalBlockByPosition, FirstOrNone
<1>. QED  BY <1>2, <1>3

(* Entering an edge in the table keeps its length and its type.            *)
LEMMA LinkType ==
    ASSUME NEW t \in Seq(PSEntry), NEW from \in 1..Len(t), NEW to \in 1..Len(t)
    PROVE  Link(t, from, to) \in Seq(PSEntry) /\ Len(Link(t, from, to)) = Len(t)
<1> DEFINE u == [t EXCEPT ![from].succ = Append(@, to)]
<1>1. t[from] \in PSEntry /\ t[to] \in PSEntry /\ Len(t) \in Nat
  BY ElementOfSeq, LenProperties
<1>2. Append(t[from].succ, to) \in Seq(Nat \ {0})
  BY <1>1, AppendProperties DEF PSEntry
<1>3. [t[from] EXCEPT !.succ = Append(t[from].succ, to)] \in PSEntry
  BY <1>1, <1>2 DEF PSEntry
<1>4. u \in Seq(PSEntry) /\ Len(u) = Len(t)
  BY <1>3, ExceptSeq
<1>5. u[to] \in PSEntry
  BY <1>4, ElementOfSeq
<1>6. Append(u[to].pred, from) \in Seq(Nat \ {0})
  BY <1>1, <1>5, AppendProperties DEF PSEntry
<1>7. [u[to] EXCEPT !.pred = Append(u[to].pred, from)] \in PSEntry
  BY <1>5, <1>6 DEF PSEntry
<1> HIDE DEF u
<1>8. [u EXCEPT ![to] = [u[to] EXCEPT !.pred = Append(u[to].pred, from)]] \in Seq(PSEntry)
      /\ Len([u EXCEPT ![to] = [u[to] EXCEPT !.pred = Append(u[to].pred, from)]]) = Len(u)
  BY <1>4, <1>7, ExceptSeq
<1>9. Link(t, from, to) = [u EXCEPT ![to] = [u[to] EXCEPT !.pred = Append(u[to].pred, from)]]
  BY DEF Link, u
<1>. QED  BY <1>4, <1>8, <1>9

(* The ways a step changes the blocks and the stack, element by element.   *)
LEMMA SetEnd ==
    ASSUME TypeOK, NEW b \in 1..Len(blocks), NEW pc \in Nat
    PROVE  LET B == [blocks EXCEPT ![b].end = pc]
           IN  /\ B \in Seq(Block)
               /\ Len(B) = Len(blocks)
               /\ \A i \in 1..Len(blocks) :
                     B[i] = IF i = b THEN [blocks[b] EXCEPT !.end = pc] ELSE blocks[i]
<1>1. blocks[b] \in Block
  BY ElementOfSeq DEF TypeOK
<1>2. [blocks[b] EXCEPT !.end = pc] \in Block
  BY <1>1 DEF Block
<1>. QED  BY <1>2, ExceptSeq DEF TypeOK

(* SetTop replaces the last activation and no other.                       *)
LEMMA SetTopFrame ==
    ASSUME TypeOK, stack # <<>>, NEW f \in Frame
    PROVE  /\ SetTop(f) \in Seq(Frame)
           /\ Len(SetTop(f)) = Len(stack)
           /\ \A k \in 1..Len(stack) :
                 SetTop(f)[k] = IF k = Len(stack) THEN f ELSE stack[k]
<1>1. Len(stack) \in 1..Len(stack)
  BY EmptySeq, LenProperties DEF TypeOK
<1>. QED  BY <1>1, ExceptSeq DEF TypeOK, SetTop

(* What Return leaves on the stack.                                        *)
LEMMA PopFrame ==
    ASSUME TypeOK, stack # <<>>
    PROVE  LET S == SubSeq(stack, 1, Len(stack) - 1)
           IN  /\ S \in Seq(Frame)
               /\ Len(S) = Len(stack) - 1
               /\ \A k \in 1..(Len(stack) - 1) : S[k] = stack[k]
<1>1. Len(stack) \in Nat \ {0}
  BY EmptySeq DEF TypeOK
<1>2. \A k \in 1..(Len(stack) - 1) : stack[k] \in Frame
  BY <1>1, ElementOfSeq DEF TypeOK
<1> DEFINE n == Len(stack) - 1
           S == SubSeq(stack, 1, n)
<1>3. n \in Nat
  BY <1>1
<1> HIDE DEF n
<1>4. /\ S \in Seq(Frame)
      /\ Len(S) = IF 1 <= n THEN n - 1 + 1 ELSE 0
      /\ \A k \in 1..(n - 1 + 1) : S[k] = stack[1 + k - 1]
  <2>1. \A k \in 1..n : stack[k] \in Frame
    BY <1>2 DEF n
  <2>. QED  BY <1>3, <2>1, SubSeqProperties
<1>5. Len(S) = n /\ \A k \in 1..n : S[k] = stack[k]
  BY <1>3, <1>4
<1>. QED  BY <1>4, <1>5 DEF n

----------------------------------------------------------------------------
(* The inductive invariant.                                                *)

(* functionCFA(func) starts in it.                                         *)
LEMMA InitIInv == Init => IInv
<1>. SUFFICES ASSUME Init PROVE IInv
  OBVIOUS
<1>1. blocks = <<NewBlock(0, "INTERNAL")>> /\ NewBlock(0, "INTERNAL") \in Block
  BY DEF Init, NewBlock, Block, BlockTypes
<1>2. stack = <<[block |-> 1, pc |-> 0, phase |-> "scan"]>>
  <2>. DEFINE f == [block |-> 1, pc |-> 0, phase |-> "scan"]
  <2>1. Append(<<>>, f) = <<f>>
    OBVIOUS
  <2>. QED  BY <2>1 DEF Init, Call
<1>3. EmptyEntry \in PSEntry
  BY DEF EmptyEntry, PSEntry
<1>4. TypeOK
  <2>1. [block |-> 1, pc |-> 0, phase |-> "scan"] \in Frame
    BY DEF Frame
  <2>2. stack \in Seq(Frame)
    BY <1>2, <2>1
  <2>3. blocks \in Seq(Block)
    BY <1>1
  <2>4. psTable \in Seq(PSEntry)
    BY <1>3 DEF Init
  <2>. QED  BY <2>2, <2>3, <2>4 DEF Init, TypeOK, Statuses
<1>5. Internal = {1}
  BY <1>1 DEF Internal, NewBlock
<1>. QED
  BY <1>1, <1>2, <1>4, <1>5 DEF Init, IInv, UniqueStarts, TableCovers, FramesOwn,
     PlaceholdersFollow, NewBlock

(***************************************************************************)
(* What IInv says of the step about to be taken by the top activation.     *)
(***************************************************************************)
LEMMA AtTop ==
    ASSUME IInv, stack # <<>>
    PROVE  /\ Len(stack) \in Nat \ {0}
           /\ Len(blocks) \in Nat
           /\ DOMAIN blocks = 1..Len(blocks)
           /\ DOMAIN stack = 1..Len(stack)
           /\ Top \in Frame
           /\ Top.block \in 1..Len(blocks)
           /\ blocks[Top.block] \in Block
           /\ blocks[Top.block].type = "INTERNAL"
           /\ blocks[Top.block].start <= Top.pc
           /\ \A k \in 1..(Len(stack) - 1) : stack[k].block # Top.block
<1>1. Len(stack) \in Nat \ {0}
  BY EmptySeq DEF IInv, TypeOK
<1>2. DOMAIN blocks = 1..Len(blocks) /\ DOMAIN stack = 1..Len(stack) /\ Len(blocks) \in Nat
  BY LenProperties DEF IInv, TypeOK
<1>3. Top \in Frame
  BY <1>1, ElementOfSeq DEF IInv, TypeOK, Top
<1>4. Top.block \in Internal /\ blocks[Top.block].start <= Top.pc
  BY <1>1, <1>2 DEF IInv, FramesOwn, Top
<1>5. Top.block \in 1..Len(blocks) /\ blocks[Top.block].type = "INTERNAL"
  BY <1>2, <1>4 DEF Internal
<1>6. blocks[Top.block] \in Block
  BY <1>5, ElementOfSeq DEF IInv, TypeOK
<1>7. \A k \in 1..(Len(stack) - 1) : stack[k].block # Top.block
  BY <1>1, <1>2 DEF IInv, FramesOwn, Top
<1>. QED  BY <1>1, <1>2, <1>3, <1>4, <1>5, <1>6, <1>7

(* The blocks there are keep their place and type; that of the top         *)
(* activation ends at e.                                                   *)
KeepsBlocks(e) ==
    /\ blocks' \in Seq(Block)
    /\ \A i \in 1..Len(blocks) :
          /\ blocks'[i].start = blocks[i].start
          /\ blocks'[i].type = blocks[i].type
          /\ blocks'[i].end = IF i = Top.block THEN e ELSE blocks[i].end

(* The activations below the top one stay as they are.                     *)
KeepsCallers ==
    /\ stack' \in Seq(Frame)
    /\ \A k \in 1..(Len(stack) - 1) : stack'[k] = stack[k]

(* The top activation stays in its block, at its branch.                   *)
AtBranch(f) == f.block = Top.block /\ f.pc = Top.pc /\ f.phase # "scan"

KeepsRest ==
    /\ code' = code
    /\ psTable' \in Seq(PSEntry)
    /\ status' \in Statuses

(* It ends, or goes on in its block.                                       *)
MovesTop ==
    \/ Len(stack') = Len(stack) - 1
    \/ /\ Len(stack') = Len(stack)
       /\ stack'[Len(stack)].block = Top.block
       /\ blocks[Top.block].start <= stack'[Len(stack)].pc

(* Past its branch, it neither moves the end of its block nor leaves it.   *)
KeepsBranch(e) ==
    Top.phase # "scan" =>
        /\ e \in {blocks[Top.block].end, Top.pc}
        /\ Len(stack') = Len(stack) => AtBranch(stack'[Len(stack)])

(* A step that makes no block, and moves or ends the top activation.       *)
LEMMA StayPreserves ==
    ASSUME IInv, stack # <<>>, NEW e \in Nat, KeepsBlocks(e), KeepsCallers, KeepsRest,
           Len(blocks') = Len(blocks), Len(psTable') >= Len(psTable),
           MovesTop, KeepsBranch(e)
    PROVE  IInv'
<1>1. /\ Len(blocks) \in Nat /\ Len(stack) \in Nat \ {0}
      /\ DOMAIN blocks = 1..Len(blocks) /\ DOMAIN stack = 1..Len(stack)
      /\ Top.block \in 1..Len(blocks)
      /\ blocks[Top.block].type = "INTERNAL"
      /\ \A k \in 1..(Len(stack) - 1) : stack[k].block # Top.block
  BY AtTop
<1>2. DOMAIN blocks' = DOMAIN blocks
  <2>1. DOMAIN blocks' = 1..Len(blocks')
    BY LenProperties DEF KeepsBlocks
  <2>. QED  BY <1>1, <2>1
<1>3. DOMAIN stack' = 1..Len(stack') /\ Len(stack') \in {Len(stack) - 1, Len(stack)}
  BY LenProperties DEF KeepsCallers, MovesTop
<1>c. Len(stack) \in Nat \ {0} /\ Len(stack') \in {Len(stack) - 1, Len(stack)}
  BY <1>1, <1>3
<1>4. TypeOK'
  BY DEF IInv, TypeOK, KeepsBlocks, KeepsCallers, KeepsRest
<1>b. \A i \in DOMAIN blocks :
          /\ blocks'[i].start = blocks[i].start
          /\ blocks'[i].type = blocks[i].type
          /\ blocks'[i].end = IF i = Top.block THEN e ELSE blocks[i].end
  BY <1>1 DEF KeepsBlocks
<1>5. Internal' = Internal
  BY <1>2, <1>b DEF Internal
<1>6. UniqueStarts'
  <2>1. UniqueStarts
    BY DEF IInv
  <2>2. \A i \in Internal : i \in DOMAIN blocks
    BY DEF Internal
  <2>. QED  BY <1>5, <1>b, <2>1, <2>2 DEF UniqueStarts
<1>7. TableCovers'
  <2>1. Len(psTable) \in Nat /\ Len(psTable') \in Nat
    BY LenProperties DEF IInv, TypeOK, KeepsRest
  <2>2. TableCovers
    BY DEF IInv
  <2>. QED  BY <1>1, <2>1, <2>2 DEF TableCovers
<1>8. \A k \in 1..Len(stack') :
          /\ k \in 1..Len(stack)
          /\ stack'[k].block = stack[k].block
          /\ k # Len(stack) => stack'[k] = stack[k]
  <2>. SUFFICES ASSUME NEW k \in 1..Len(stack')
                PROVE  /\ k \in 1..Len(stack)
                       /\ stack'[k].block = stack[k].block
                       /\ k # Len(stack) => stack'[k] = stack[k]
    OBVIOUS
  <2>1. k \in 1..Len(stack)
    BY <1>c
  <2>2. CASE k = Len(stack)
    <3>1. Len(stack') # Len(stack) - 1
      BY <1>c, <2>2
    <3>. QED  BY <2>1, <2>2, <3>1 DEF MovesTop, Top
  <2>3. CASE k # Len(stack)
    <3>1. k \in 1..(Len(stack) - 1)
      BY <1>c, <2>3
    <3>. QED  BY <2>1, <2>3, <3>1 DEF KeepsCallers
  <2>. QED  BY <2>1, <2>2, <2>3
<1>9. FramesOwn'
  <2>0. FramesOwn
    BY DEF IInv
  <2>1. ASSUME NEW k \in DOMAIN stack'
        PROVE  /\ stack'[k].block \in Internal'
               /\ blocks'[stack'[k].block].start <= stack'[k].pc
    <3>0. k \in 1..Len(stack')
      BY <1>3, <2>1
    <3>1. stack[k].block \in Internal /\ blocks[stack[k].block].start <= stack[k].pc
      BY <1>1, <1>8, <2>0, <3>0 DEF FramesOwn
    <3>2. blocks'[stack[k].block].start = blocks[stack[k].block].start
      BY <1>b, <3>1 DEF Internal
    <3>3. CASE k = Len(stack)
      <4>1. stack[k].block = Top.block
        BY <3>3 DEF Top
      <4>2. blocks[Top.block].start <= stack'[k].pc
        <5>1. Len(stack') # Len(stack) - 1
          BY <1>c, <3>0, <3>3
        <5>. QED  BY <3>3, <5>1 DEF MovesTop
      <4>. QED  BY <1>5, <1>8, <3>0, <3>1, <3>2, <4>1, <4>2
    <3>4. CASE k # Len(stack)
      BY <1>5, <1>8, <3>0, <3>1, <3>2, <3>4
    <3>. QED  BY <3>3, <3>4
  <2>2. ASSUME NEW k \in DOMAIN stack', NEW m \in DOMAIN stack',
               stack'[k].block = stack'[m].block
        PROVE  k = m
    <3>1. k \in 1..Len(stack') /\ m \in 1..Len(stack')
      BY <1>3
    <3>2. k \in DOMAIN stack /\ m \in DOMAIN stack /\ stack[k].block = stack[m].block
      BY <1>1, <1>8, <2>2, <3>1
    <3>. QED  BY <2>0, <3>2 DEF FramesOwn
  <2>. QED  BY <2>1, <2>2 DEF FramesOwn
<1>10. PlaceholdersFollow'
  <2>0. PlaceholdersFollow
    BY DEF IInv
  <2>. SUFFICES ASSUME NEW i \in DOMAIN blocks, i \notin Internal
                PROVE  /\ blocks'[i].end = blocks'[i].start
                       /\ \E j \in 1..(i - 1) : Branches(j, blocks[i].start)'
    BY <1>2, <1>5, <1>b DEF PlaceholdersFollow, Branches
  <2>1. blocks[i].end = blocks[i].start
    BY <2>0 DEF PlaceholdersFollow
  <2>2. PICK j \in 1..(i - 1) : Branches(j, blocks[i].start)
    BY <2>0 DEF PlaceholdersFollow
  <2>3. i # Top.block
    BY <1>1 DEF Internal
  <2>4. j \in DOMAIN blocks
    BY <1>1, <2>2
  <2>5. j = Top.block => Top.phase # "scan" /\ Top.pc = blocks[i].start
    <3>1. Len(stack) \in DOMAIN stack
      BY <1>1
    <3>. QED  BY <2>2, <3>1 DEF Branches, Top
  <2>6. blocks'[j].end = blocks[i].start
    <3>1. blocks[j].end = blocks[i].start
      BY <2>2 DEF Branches
    <3>2. CASE j = Top.block
      BY <1>b, <2>4, <2>5, <3>1, <3>2 DEF KeepsBranch
    <3>3. CASE j # Top.block
      BY <1>b, <2>4, <3>1, <3>3
    <3>. QED  BY <3>2, <3>3
  <2>7. ASSUME NEW k \in DOMAIN stack', stack'[k].block = j
        PROVE  stack'[k].phase # "scan" /\ stack'[k].pc = blocks[i].start
    <3>0. k \in 1..Len(stack')
      BY <1>3
    <3>1. CASE k = Len(stack)
      <4>1. Len(stack') = Len(stack)
        BY <1>c, <3>0, <3>1
      <4>2. j = Top.block
        BY <1>8, <2>7, <3>0, <3>1 DEF Top
      <4>. QED  BY <2>5, <3>1, <4>1, <4>2 DEF KeepsBranch, AtBranch
    <3>2. CASE k # Len(stack)
      <4>1. k \in DOMAIN stack /\ stack'[k] = stack[k]
        BY <1>1, <1>8, <3>0, <3>2
      <4>. QED  BY <2>2, <2>7, <4>1 DEF Branches
    <3>. QED  BY <3>1, <3>2
  <2>8. Branches(j, blocks[i].start)'
    <3>1. blocks'[i].start = blocks[i].start
      BY <1>b
    <3>2. blocks'[j].type = "INTERNAL" /\ blocks'[j].start <= blocks[i].start
      BY <1>b, <2>2, <2>4 DEF Branches
    <3>. QED  BY <2>6, <2>7, <3>1, <3>2 DEF Branches
  <2>. QED  BY <1>b, <2>1, <2>2, <2>3, <2>8
<1>. QED  BY <1>4, <1>6, <1>7, <1>9, <1>10 DEF IInv

(* A step that makes a block is at a branch of the top activation.  The    *)
(* block is internal, at a fresh position, and an activation is in it ...  *)
AddsInternal ==
    LET n == Len(blocks) + 1
    IN  /\ blocks'[n].type = "INTERNAL"
        /\ \A i \in Internal : blocks[i].start # blocks'[n].start
        /\ Len(stack') = Len(stack) + 1
        /\ stack'[Len(stack) + 1].block = n
        /\ blocks'[n].start <= stack'[Len(stack) + 1].pc

(* ... or it is the placeholder of that branch.                            *)
AddsPlaceholder ==
    LET n == Len(blocks) + 1
    IN  /\ blocks'[n].type # "INTERNAL"
        /\ blocks'[n].start = Top.pc
        /\ blocks'[n].end = Top.pc
        /\ Len(stack') = Len(stack)

(* A step that makes a block, internal or not, keeps the invariant.        *)
LEMMA GrowPreserves ==
    ASSUME IInv, stack # <<>>, KeepsBlocks(Top.pc), KeepsCallers, KeepsRest,
           Len(blocks') = Len(blocks) + 1, Len(psTable') = Len(psTable) + 1,
           AtBranch(stack'[Len(stack)]), AddsInternal \/ AddsPlaceholder
    PROVE  IInv'
<1>1. /\ Len(blocks) \in Nat /\ Len(stack) \in Nat \ {0}
      /\ DOMAIN blocks = 1..Len(blocks) /\ DOMAIN stack = 1..Len(stack)
      /\ Top.block \in 1..Len(blocks)
      /\ blocks[Top.block].type = "INTERNAL"
      /\ blocks[Top.block].start <= Top.pc
  BY AtTop
<1>a. Len(blocks) \in Nat /\ Len(stack) \in Nat \ {0}
  BY <1>1
<1>2. DOMAIN blocks' = DOMAIN blocks \cup {Len(blocks) + 1}
  <2>1. DOMAIN blocks' = 1..Len(blocks')
    BY LenProperties DEF KeepsBlocks
  <2>2. 1..(Len(blocks) + 1) = 1..Len(blocks) \cup {Len(blocks) + 1}
    BY <1>a
  <2>. QED  BY <1>1, <2>1, <2>2
<1>3. DOMAIN stack' = 1..Len(stack') /\ Len(stack') \in {Len(stack), Len(stack) + 1}
  BY LenProperties DEF KeepsCallers, AddsInternal, AddsPlaceholder
<1>b. \A i \in DOMAIN blocks :
          /\ blocks'[i].start = blocks[i].start
          /\ blocks'[i].type = blocks[i].type
          /\ blocks'[i].end = IF i = Top.block THEN Top.pc ELSE blocks[i].end
  BY <1>1 DEF KeepsBlocks
<1>c. Len(blocks) + 1 \notin DOMAIN blocks
  BY <1>1
<1>4. TypeOK'
  BY DEF IInv, TypeOK, KeepsBlocks, KeepsCallers, KeepsRest
<1>5. Internal' = IF AddsInternal THEN Internal \cup {Len(blocks) + 1} ELSE Internal
  BY <1>2, <1>b, <1>c DEF Internal, AddsInternal, AddsPlaceholder
<1>d. \A i \in Internal : i \in DOMAIN blocks /\ blocks'[i].start = blocks[i].start
  BY <1>b DEF Internal
<1>6. UniqueStarts'
  <2>1. UniqueStarts
    BY DEF IInv
  <2>. QED  BY <1>5, <1>d, <2>1 DEF UniqueStarts, AddsInternal
<1>7. TableCovers'
  <2>1. Len(psTable) \in Nat /\ Len(psTable') \in Nat
    BY LenProperties DEF IInv, TypeOK, KeepsRest
  <2>2. TableCovers
    BY DEF IInv
  <2>. QED  BY <1>a, <2>1, <2>2 DEF TableCovers
(* The activations there were, and the one of a new internal block.        *)
<1>8. \A k \in DOMAIN stack' :
          \/ k \in DOMAIN stack /\ k # Len(stack) /\ stack'[k] = stack[k]
          \/ k = Len(stack)
          \/ AddsInternal /\ k = Len(stack) + 1
  <2>. SUFFICES ASSUME NEW k \in DOMAIN stack', k # Len(stack), k # Len(stack) + 1
                PROVE  k \in DOMAIN stack /\ stack'[k] = stack[k]
    <3>1. ASSUME NEW k \in DOMAIN stack', k = Len(stack) + 1
          PROVE  AddsInternal
      <4>1. k \in 1..Len(stack')
        BY <1>3
      <4>2. Len(stack') # Len(stack)
        BY <1>a, <3>1, <4>1
      <4>. QED  BY <4>2 DEF AddsPlaceholder
    <3>. QED  BY <3>1
  <2>1. k \in 1..(Len(stack) - 1)
    <3>1. k \in 1..Len(stack') /\ Len(stack') \in {Len(stack), Len(stack) + 1}
      BY <1>3
    <3>. QED  BY <1>a, <3>1
  <2>. QED  BY <1>1, <2>1 DEF KeepsCallers
<1>9. \A k \in DOMAIN stack' :
          k \in DOMAIN stack => stack'[k].block = stack[k].block /\ stack'[k].pc = stack[k].pc
  <2>. SUFFICES ASSUME NEW k \in DOMAIN stack', k \in DOMAIN stack
                PROVE  stack'[k].block = stack[k].block /\ stack'[k].pc = stack[k].pc
    OBVIOUS
  <2>1. k # Len(stack) + 1
    BY <1>1
  <2>. QED  BY <1>8, <2>1 DEF AtBranch, Top
<1>10. FramesOwn'
  <2>0. FramesOwn
    BY DEF IInv
  <2>1. ASSUME NEW k \in DOMAIN stack'
        PROVE  /\ stack'[k].block \in Internal'
               /\ blocks'[stack'[k].block].start <= stack'[k].pc
    <3>1. CASE k \in DOMAIN stack
      <4>1. stack[k].block \in Internal /\ blocks[stack[k].block].start <= stack[k].pc
        BY <2>0, <3>1 DEF FramesOwn
      <4>. QED  BY <1>5, <1>9, <1>d, <3>1, <4>1
    <3>2. CASE k \notin DOMAIN stack
      <4>1. AddsInternal /\ k = Len(stack) + 1
        BY <1>1, <1>8, <3>2
      <4>. QED  BY <1>5, <4>1 DEF AddsInternal
    <3>. QED  BY <3>1, <3>2
  <2>2. ASSUME NEW k \in DOMAIN stack', NEW m \in DOMAIN stack',
               stack'[k].block = stack'[m].block
        PROVE  k = m
    <3>1. \A x \in DOMAIN stack' :
             \/ x \in DOMAIN stack /\ stack'[x].block # Len(blocks) + 1
             \/ x = Len(stack) + 1 /\ stack'[x].block = Len(blocks) + 1
      <4>. SUFFICES ASSUME NEW x \in DOMAIN stack'
                    PROVE  \/ x \in DOMAIN stack /\ stack'[x].block # Len(blocks) + 1
                           \/ x = Len(stack) + 1 /\ stack'[x].block = Len(blocks) + 1
        OBVIOUS
      <4>1. CASE x \in DOMAIN stack
        BY <1>9, <1>c, <1>d, <2>0, <4>1 DEF FramesOwn
      <4>2. CASE x \notin DOMAIN stack
        <5>1. AddsInternal /\ x = Len(stack) + 1
          BY <1>1, <1>8, <4>2
        <5>. QED  BY <5>1 DEF AddsInternal
      <4>. QED  BY <4>1, <4>2
    <3>2. CASE k \in DOMAIN stack /\ m \in DOMAIN stack
      BY <1>9, <2>0, <2>2, <3>2 DEF FramesOwn
    <3>. QED  BY <2>2, <3>1, <3>2
  <2>. QED  BY <2>1, <2>2 DEF FramesOwn
<1>11. PlaceholdersFollow'
  <2>0. PlaceholdersFollow
    BY DEF IInv
  <2>. SUFFICES ASSUME NEW i \in DOMAIN blocks', i \notin Internal'
                PROVE  /\ blocks'[i].end = blocks'[i].start
                       /\ \E j \in 1..(i - 1) : Branches(j, blocks[i].start)'
    BY DEF PlaceholdersFollow, Branches
  (* The block of a placeholder goes on to be what it must.                *)
  <2>1. ASSUME NEW j \in DOMAIN blocks, NEW p, blocks[j].type = "INTERNAL",
               blocks[j].start <= p,
               j = Top.block => Top.pc = p,
               j # Top.block => Branches(j, p)
        PROVE  Branches(j, p)'
    <3>1. blocks'[j].type = "INTERNAL" /\ blocks'[j].start <= p
      BY <1>b, <2>1
    <3>2. blocks'[j].end = p
      BY <1>b, <2>1 DEF Branches
    <3>3. ASSUME NEW k \in DOMAIN stack', stack'[k].block = j
          PROVE  stack'[k].phase # "scan" /\ stack'[k].pc = p
      <4>1. CASE k \in DOMAIN stack /\ k # Len(stack)
        <5>1. stack'[k] = stack[k]
          BY <1>1, <1>8, <4>1
        <5>2. j # Top.block
          BY <1>1, <3>3, <4>1, <5>1, AtTop
        <5>. QED  BY <2>1, <3>3, <4>1, <5>1, <5>2 DEF Branches
      <4>2. CASE k = Len(stack)
        BY <2>1, <3>3, <4>2 DEF AtBranch
      <4>3. CASE AddsInternal /\ k = Len(stack) + 1
        BY <1>c, <3>3, <4>3 DEF AddsInternal
      <4>. QED  BY <1>8, <4>1, <4>2, <4>3
    <3>. QED  BY <3>1, <3>2, <3>3 DEF Branches
  <2>2. CASE i \in DOMAIN blocks
    <3>1. i \notin Internal
      BY <1>5
    <3>2. blocks[i].end = blocks[i].start
      BY <2>0, <2>2, <3>1 DEF PlaceholdersFollow
    <3>3. PICK j \in 1..(i - 1) : Branches(j, blocks[i].start)
      BY <2>0, <2>2, <3>1 DEF PlaceholdersFollow
    <3>4. i # Top.block
      BY <1>1, <2>2, <3>1 DEF Internal
    <3>5. j \in DOMAIN blocks
      BY <1>1, <2>2, <3>3
    <3>6. j = Top.block => Top.pc = blocks[i].start
      <4>1. Len(stack) \in DOMAIN stack
        BY <1>1
      <4>. QED  BY <3>3, <4>1 DEF Branches, Top
    <3>7. Branches(j, blocks[i].start)'
      <4>1. blocks[j].type = "INTERNAL" /\ blocks[j].start <= blocks[i].start
        BY <3>3 DEF Branches
      <4>2. blocks'[i].start = blocks[i].start
        BY <1>b, <2>2
      <4>3. \A p : p = blocks[i].start => Branches(j, p)'
        BY <2>1, <3>3, <3>5, <3>6, <4>1
      <4>. QED  BY <4>2, <4>3
    <3>. QED  BY <1>b, <2>2, <3>2, <3>3, <3>4, <3>7
  <2>3. CASE i \notin DOMAIN blocks
    <3>1. i = Len(blocks) + 1
      BY <1>2, <2>3
    <3>2. AddsPlaceholder
      BY <1>5, <3>1
    <3>3. blocks'[i].start = Top.pc /\ blocks'[i].end = Top.pc
      BY <3>1, <3>2 DEF AddsPlaceholder
    <3>4. \A j, p : j = Top.block /\ p = Top.pc => Branches(j, p)'
      BY <1>1, <2>1
    <3>5. PICK j \in 1..(i - 1) : j = Top.block
      BY <1>1, <3>1
    <3>6. Branches(j, blocks[i].start)'
      BY <3>3, <3>4, <3>5
    <3>. QED  BY <3>3, <3>6
  <2>. QED  BY <2>2, <2>3
<1>. QED  BY <1>4, <1>6, <1>7, <1>10, <1>11 DEF IInv

(* createSuccessorExternal, createSuccessorRuntime, and a new internal one. *)
LEMMA LinkNewGrows ==
    ASSUME IInv, stack # <<>>, NEW nb \in Block, LinkNew(Top.block, Top.pc, nb)
    PROVE  /\ KeepsBlocks(Top.pc)
           /\ Len(blocks') = Len(blocks) + 1
           /\ blocks'[Len(blocks) + 1] = nb
           /\ psTable' \in Seq(PSEntry)
           /\ Len(psTable') = Len(psTable) + 1
<1>1. /\ Len(blocks) \in Nat
      /\ Top \in Frame
      /\ Top.block \in 1..Len(blocks)
      /\ blocks[Top.block] \in Block
  BY AtTop
<1>2. Top.pc \in Nat
  BY <1>1 DEF Frame
<1>3. TypeOK
  BY DEF IInv
<1> DEFINE B == [blocks EXCEPT ![Top.block].end = Top.pc]
           t == Append(psTable, EmptyEntry)
<1>4. /\ B \in Seq(Block)
      /\ Len(B) = Len(blocks)
      /\ \A i \in 1..Len(blocks) :
            B[i] = IF i = Top.block THEN [blocks[Top.block] EXCEPT !.end = Top.pc] ELSE blocks[i]
  BY <1>1, <1>2, <1>3, SetEnd
<1>5. blocks' = Append(B, nb) /\ psTable' = Link(t, Top.block, Len(blocks) + 1)
  BY DEF LinkNew
<1>6. t \in Seq(PSEntry) /\ Len(t) = Len(psTable) + 1
  BY <1>3, AppendProperties DEF TypeOK, EmptyEntry, PSEntry
<1>7. Top.block \in 1..Len(t) /\ Len(blocks) + 1 \in 1..Len(t)
  <2>1. Len(blocks) <= Len(psTable) /\ Len(psTable) \in Nat
    BY <1>3, LenProperties DEF IInv, TableCovers, TypeOK
  <2>. QED  BY <1>1, <1>6, <2>1
<1>8. psTable' \in Seq(PSEntry) /\ Len(psTable') = Len(t)
  <2> HIDE DEF t
  <2>. QED  BY <1>5, <1>6, <1>7, LinkType
<1> HIDE DEF B
<1>9. /\ blocks' \in Seq(Block)
      /\ Len(blocks') = Len(B) + 1
      /\ \A i \in 1..Len(B) : blocks'[i] = B[i]
      /\ blocks'[Len(B) + 1] = nb
  BY <1>4, <1>5, AppendProperties
<1>10. KeepsBlocks(Top.pc)
  <2>. SUFFICES ASSUME NEW i \in 1..Len(blocks)
                PROVE  /\ blocks'[i].start = blocks[i].start
                       /\ blocks'[i].type = blocks[i].type
                       /\ blocks'[i].end = IF i = Top.block THEN Top.pc ELSE blocks[i].end
    BY <1>9 DEF KeepsBlocks
  <2>1. blocks'[i] = IF i = Top.block THEN [blocks[Top.block] EXCEPT !.end = Top.pc]
                     ELSE blocks[i]
    BY <1>4, <1>9
  <2>. QED  BY <1>1, <2>1 DEF Block
<1>. QED  BY <1>4, <1>6, <1>8, <1>9, <1>10

(* tryCreateSuccessorInternal on a block there is, and the fall-through.   *)
LEMMA LinkOldStays ==
    ASSUME IInv, stack # <<>>, NEW to \in 1..Len(blocks),
           \/ LinkExisting(Top.block, Top.pc, to)
           \/ createSuccessorFallthrough(Top.block, Top.pc, to)
    PROVE  /\ KeepsBlocks(Top.pc)
           /\ Len(blocks') = Len(blocks)
           /\ psTable' \in Seq(PSEntry)
           /\ Len(psTable') >= Len(psTable)
<1>1. /\ Len(blocks) \in Nat
      /\ Top \in Frame
      /\ Top.block \in 1..Len(blocks)
      /\ blocks[Top.block] \in Block
  BY AtTop
<1>2. Top.pc \in Nat
  BY <1>1 DEF Frame
<1>3. TypeOK
  BY DEF IInv
<1>4. /\ blocks' \in Seq(Block)
      /\ Len(blocks') = Len(blocks)
      /\ \A i \in 1..Len(blocks) :
            blocks'[i] = IF i = Top.block THEN [blocks[Top.block] EXCEPT !.end = Top.pc]
                         ELSE blocks[i]
  BY <1>1, <1>2, <1>3, SetEnd DEF LinkExisting, createSuccessorFallthrough
<1>5. KeepsBlocks(Top.pc)
  BY <1>1, <1>4 DEF KeepsBlocks, Block
<1>6. psTable' \in Seq(PSEntry) /\ Len(psTable') >= Len(psTable)
  <2>1. Len(blocks) <= Len(psTable) /\ Len(psTable) \in Nat /\ psTable \in Seq(PSEntry)
    BY <1>3, LenProperties DEF IInv, TableCovers, TypeOK
  <2>2. CASE createSuccessorFallthrough(Top.block, Top.pc, to)
    <3>1. Top.block \in 1..Len(psTable) /\ to \in 1..Len(psTable)
      BY <1>1, <2>1
    <3>2. psTable' = Link(psTable, Top.block, to)
      BY <2>2 DEF createSuccessorFallthrough
    <3>. QED  BY <2>1, <3>1, <3>2, LinkType
  <2>3. CASE LinkExisting(Top.block, Top.pc, to)
    <3>1. PICK t : t = Append(psTable, EmptyEntry)
      OBVIOUS
    <3>2. t \in Seq(PSEntry) /\ Len(t) = Len(psTable) + 1
      BY <2>1, <3>1, AppendProperties DEF EmptyEntry, PSEntry
    <3>3. Top.block \in 1..Len(t) /\ to \in 1..Len(t)
      BY <1>1, <2>1, <3>2
    <3>4. psTable' = Link(t, Top.block, to)
      BY <2>3, <3>1 DEF LinkExisting
    <3>. QED  BY <2>1, <3>2, <3>3, <3>4, LinkType
  <2>. QED  BY <2>2, <2>3
<1>. QED  BY <1>4, <1>5, <1>6

(* Moving the top activation keeps its callers.                            *)
LEMMA MovesKeep ==
    ASSUME IInv, stack # <<>>, NEW f \in Frame, stack' = SetTop(f)
    PROVE  KeepsCallers /\ Len(stack') = Len(stack) /\ stack'[Len(stack)] = f
<1>1. TypeOK /\ Len(stack) \in Nat \ {0}
  BY AtTop DEF IInv
<1>2. /\ stack' \in Seq(Frame)
      /\ Len(stack') = Len(stack)
      /\ \A k \in 1..Len(stack) : stack'[k] = IF k = Len(stack) THEN f ELSE stack[k]
  BY <1>1, SetTopFrame
<1>. QED  BY <1>1, <1>2 DEF KeepsCallers

(* The recursion into the block just made: one more activation, in it.     *)
LEMMA CallKeeps ==
    ASSUME IInv, stack # <<>>, NEW f \in Frame, NEW b \in Nat \ {0}, NEW start \in Nat,
           stack' = Call(SetTop(f), b, start)
    PROVE  /\ KeepsCallers
           /\ Len(stack') = Len(stack) + 1
           /\ stack'[Len(stack)] = f
           /\ stack'[Len(stack) + 1] = [block |-> b, pc |-> start, phase |-> "scan"]
<1>1. TypeOK /\ Len(stack) \in Nat \ {0}
  BY AtTop DEF IInv
<1>2. PICK s : s = SetTop(f)
  OBVIOUS
<1>3. /\ s \in Seq(Frame)
      /\ Len(s) = Len(stack)
      /\ \A k \in 1..Len(stack) : s[k] = IF k = Len(stack) THEN f ELSE stack[k]
  BY <1>1, <1>2, SetTopFrame
<1>4. PICK g : g = [block |-> b, pc |-> start, phase |-> "scan"]
  OBVIOUS
<1>5. g \in Frame
  BY <1>4 DEF Frame
<1>6. stack' = Append(s, g)
  BY <1>2, <1>4 DEF Call
<1>7. /\ stack' \in Seq(Frame)
      /\ Len(stack') = Len(s) + 1
      /\ \A k \in 1..Len(s) : stack'[k] = s[k]
      /\ stack'[Len(s) + 1] = g
  BY <1>3, <1>5, <1>6, AppendProperties
<1>. QED  BY <1>1, <1>3, <1>4, <1>7 DEF KeepsCallers

(* The end of an activation leaves its callers where they are.             *)
LEMMA ReturnKeeps ==
    ASSUME IInv, stack # <<>>, Return
    PROVE  KeepsCallers /\ Len(stack') = Len(stack) - 1 /\ status' \in Statuses
<1>1. TypeOK
  BY DEF IInv
<1>2. /\ stack' \in Seq(Frame)
      /\ Len(stack') = Len(stack) - 1
      /\ \A k \in 1..(Len(stack) - 1) : stack'[k] = stack[k]
  BY <1>1, PopFrame DEF Return
<1>. QED  BY <1>2 DEF KeepsCallers, Return, Statuses

(* tryCreateSuccessorInternal and the recursion, at either of its two      *)
(* places in the loop.                                                     *)
LEMMA EnterPreserves ==
    ASSUME IInv, stack # <<>>, NEW target \in Nat, NEW phase \in {"branched", "returned"},
           Enter(target, phase), UNCHANGED <<code, status>>
    PROVE  IInv'
<1>1. /\ Len(blocks) \in Nat /\ Len(stack) \in Nat \ {0}
      /\ DOMAIN blocks = 1..Len(blocks)
      /\ Top \in Frame
      /\ Top.block \in 1..Len(blocks)
      /\ blocks[Top.block].start <= Top.pc
  BY AtTop
<1>2. Top.pc \in Nat
  BY <1>1 DEF Frame
<1>3. TypeOK
  BY DEF IInv
<1>4. PICK f : f = [Top EXCEPT !.phase = phase]
  OBVIOUS
<1>5. f \in Frame /\ AtBranch(f)
  BY <1>1, <1>4 DEF Frame, AtBranch
<1>6. CASE /\ findInternalBlockByPosition(target) # 0
           /\ LinkExisting(Top.block, Top.pc, findInternalBlockByPosition(target))
           /\ stack' = SetTop([Top EXCEPT !.phase = phase])
  <2>1. findInternalBlockByPosition(target) \in 1..Len(blocks)
    BY <1>3, <1>6, FindInternal
  <2>2. /\ KeepsBlocks(Top.pc)
        /\ Len(blocks') = Len(blocks)
        /\ psTable' \in Seq(PSEntry)
        /\ Len(psTable') >= Len(psTable)
    BY <1>6, <2>1, LinkOldStays
  <2>3. stack' = SetTop(f)
    BY <1>4, <1>6
  <2>4. KeepsCallers /\ Len(stack') = Len(stack) /\ stack'[Len(stack)] = f
    BY <1>5, <2>3, MovesKeep
  <2>5. MovesTop
    BY <1>1, <1>5, <2>4 DEF MovesTop, AtBranch
  <2>6. KeepsBranch(Top.pc)
    BY <1>5, <2>4 DEF KeepsBranch
  <2>7. KeepsRest
    BY <1>3, <2>2 DEF KeepsRest, TypeOK
  <2>. QED  BY <1>2, <2>2, <2>4, <2>5, <2>6, <2>7, StayPreserves
<1>7. CASE /\ findInternalBlockByPosition(target) = 0
           /\ LinkNew(Top.block, Top.pc, NewBlock(target, "INTERNAL"))
           /\ stack' = Call(SetTop([Top EXCEPT !.phase = phase]), Len(blocks) + 1, target)
  <2>1. PICK nb : nb = NewBlock(target, "INTERNAL")
    OBVIOUS
  <2>2. nb \in Block /\ nb.type = "INTERNAL" /\ nb.start = target
    BY <2>1 DEF NewBlock, Block, BlockTypes
  <2>3. /\ KeepsBlocks(Top.pc)
        /\ Len(blocks') = Len(blocks) + 1
        /\ blocks'[Len(blocks) + 1] = nb
        /\ psTable' \in Seq(PSEntry)
        /\ Len(psTable') = Len(psTable) + 1
    BY <1>7, <2>1, <2>2, LinkNewGrows
  <2>4. stack' = Call(SetTop(f), Len(blocks) + 1, target)
    BY <1>4, <1>7
  <2>5. Len(blocks) + 1 \in Nat \ {0}
    BY <1>1
  <2>6. /\ KeepsCallers
        /\ Len(stack') = Len(stack) + 1
        /\ stack'[Len(stack)] = f
        /\ stack'[Len(stack) + 1] = [block |-> Len(blocks) + 1, pc |-> target, phase |-> "scan"]
    BY <1>5, <2>4, <2>5, CallKeeps
  <2>7. \A i \in Internal : blocks[i].start # target
    <3>1. \A i \in 1..Len(blocks) : ~(blocks[i].start = target /\ blocks[i].type = "INTERNAL")
      BY <1>3, <1>7, FindInternal
    <3>. QED  BY <1>1, <3>1 DEF Internal
  <2>8. AddsInternal
    BY <2>2, <2>3, <2>6, <2>7 DEF AddsInternal
  <2>9. KeepsRest
    BY <1>3, <2>3 DEF KeepsRest, TypeOK
  <2>. QED  BY <1>5, <2>3, <2>6, <2>8, <2>9, GrowPreserves
<1>. QED  BY <1>6, <1>7 DEF Enter

(* createSuccessorExternal and createSuccessorRuntime: a placeholder.      *)
LEMMA PlaceholderPreserves ==
    ASSUME IInv, stack # <<>>, NEW type \in {"EXTERNAL", "RUNTIME"},
           LinkNew(Top.block, Top.pc, NewBlock(Top.pc, type)),
           stack' = SetTop([Top EXCEPT !.phase = "branched"]), UNCHANGED <<code, status>>
    PROVE  IInv'
<1>1. Top \in Frame
  BY AtTop
<1>2. Top.pc \in Nat
  BY <1>1 DEF Frame
<1>3. TypeOK
  BY DEF IInv
<1>4. PICK f : f = [Top EXCEPT !.phase = "branched"]
  OBVIOUS
<1>5. f \in Frame /\ AtBranch(f)
  BY <1>1, <1>4 DEF Frame, AtBranch
<1>6. PICK nb : nb = NewBlock(Top.pc, type)
  OBVIOUS
<1>7. nb \in Block /\ nb.type # "INTERNAL" /\ nb.start = Top.pc /\ nb.end = Top.pc
  BY <1>2, <1>6 DEF NewBlock, Block, BlockTypes
<1>8. /\ KeepsBlocks(Top.pc)
      /\ Len(blocks') = Len(blocks) + 1
      /\ blocks'[Len(blocks) + 1] = nb
      /\ psTable' \in Seq(PSEntry)
      /\ Len(psTable') = Len(psTable) + 1
  BY <1>6, <1>7, LinkNewGrows
<1>9. KeepsCallers /\ Len(stack') = Len(stack) /\ stack'[Len(stack)] = f
  BY <1>4, <1>5, MovesKeep
<1>10. AddsPlaceholder
  BY <1>7, <1>8, <1>9 DEF AddsPlaceholder
<1>11. KeepsRest
  BY <1>3, <1>8 DEF KeepsRest, TypeOK
<1>. QED  BY <1>5, <1>8, <1>9, <1>10, <1>11, GrowPreserves

(* A step that writes only the flags of the top activation's block, if     *)
(* anything, and returns.                                                  *)
WritesFlags ==
    /\ Return
    /\ UNCHANGED <<code, psTable>>
    /\ \E b \in Block :
          /\ blocks' = [blocks EXCEPT ![Top.block] = b]
          /\ b.start = blocks[Top.block].start
          /\ b.end = blocks[Top.block].end
          /\ b.type = blocks[Top.block].type

LEMMA FlagsKeep ==
    ASSUME IInv, stack # <<>>, WritesFlags
    PROVE  /\ KeepsBlocks(blocks[Top.block].end)
           /\ blocks[Top.block].end \in Nat
           /\ Len(blocks') = Len(blocks)
           /\ \A i \in 1..Len(blocks) : i # Top.block => blocks'[i] = blocks[i]
           /\ KeepsCallers /\ Len(stack') = Len(stack) - 1 /\ status' \in Statuses
<1>1. Len(blocks) \in Nat /\ Top.block \in 1..Len(blocks) /\ blocks[Top.block] \in Block
  BY AtTop
<1>2. TypeOK
  BY DEF IInv
<1>3. PICK b \in Block :
          /\ blocks' = [blocks EXCEPT ![Top.block] = b]
          /\ b.start = blocks[Top.block].start
          /\ b.end = blocks[Top.block].end
          /\ b.type = blocks[Top.block].type
  BY DEF WritesFlags
<1>4. /\ blocks' \in Seq(Block)
      /\ Len(blocks') = Len(blocks)
      /\ \A i \in 1..Len(blocks) : blocks'[i] = IF i = Top.block THEN b ELSE blocks[i]
  BY <1>1, <1>2, <1>3, ExceptSeq DEF TypeOK
<1>5. KeepsBlocks(blocks[Top.block].end)
  BY <1>1, <1>3, <1>4 DEF KeepsBlocks
<1>6. blocks[Top.block].end \in Nat
  BY <1>1 DEF Block
<1>7. KeepsCallers /\ Len(stack') = Len(stack) - 1 /\ status' \in Statuses
  BY ReturnKeeps DEF WritesFlags
<1>. QED  BY <1>4, <1>5, <1>6, <1>7

LEMMA FlagsPreserve ==
    ASSUME IInv, stack # <<>>, WritesFlags
    PROVE  IInv'
<1>1. /\ KeepsBlocks(blocks[Top.block].end)
      /\ blocks[Top.block].end \in Nat
      /\ Len(blocks') = Len(blocks)
      /\ KeepsCallers /\ Len(stack') = Len(stack) - 1 /\ status' \in Statuses
  BY FlagsKeep
<1>2. KeepsRest /\ Len(psTable') >= Len(psTable)
  <2>1. TypeOK /\ psTable' = psTable /\ code' = code
    BY DEF IInv, WritesFlags
  <2>2. Len(psTable) \in Nat
    BY <2>1, LenProperties DEF TypeOK
  <2>. QED  BY <1>1, <2>1, <2>2 DEF KeepsRest, TypeOK
<1>3. MovesTop
  BY <1>1 DEF MovesTop
<1>4. KeepsBranch(blocks[Top.block].end)
  <2>1. Len(stack) \in Nat
    BY AtTop
  <2>. QED  BY <1>1, <2>1 DEF KeepsBranch
<1>. QED  BY <1>1, <1>2, <1>3, <1>4, StayPreserves

(* A step that changes no variable of the invariant, or only the status.   *)
LEMMA StopPreserves ==
    ASSUME IInv, status' \in Statuses, UNCHANGED <<code, blocks, psTable, stack>>
    PROVE  IInv'
<1>1. Internal' = Internal
  BY DEF Internal
<1>2. TypeOK'
  BY DEF IInv, TypeOK
<1>3. UniqueStarts' /\ TableCovers' /\ FramesOwn'
  BY <1>1 DEF IInv, UniqueStarts, TableCovers, FramesOwn
<1>4. PlaceholdersFollow'
  BY <1>1 DEF IInv, PlaceholdersFollow, Branches
<1>. QED  BY <1>2, <1>3, <1>4 DEF IInv

(* An instruction that is not a branch, with or without a fall-through.    *)
LEMMA ScanPlainPreserves == IInv /\ ScanPlain => IInv'
<1>. SUFFICES ASSUME IInv, ScanPlain PROVE IInv'
  OBVIOUS
<1>1. stack # <<>> /\ Top.phase = "scan" /\ code' = code
  BY DEF ScanPlain, At
<1>2. /\ Len(stack) \in Nat \ {0}
      /\ Len(blocks) \in Nat
      /\ Top \in Frame
      /\ Top.block \in 1..Len(blocks)
      /\ blocks[Top.block] \in Block
      /\ blocks[Top.block].start <= Top.pc
  BY <1>1, AtTop
<1>3. Top.pc \in Nat
  BY <1>2 DEF Frame
<1>4. TypeOK
  BY DEF IInv
<1>5. PICK next : next = findInternalBlockByPosition(Top.pc + 1)
  OBVIOUS
<1>6. CASE next # 0 /\ createSuccessorFallthrough(Top.block, Top.pc, next) /\ Return
  <2>1. next \in 1..Len(blocks)
    BY <1>4, <1>5, <1>6, FindInternal
  <2>2. /\ KeepsBlocks(Top.pc)
        /\ Len(blocks') = Len(blocks)
        /\ psTable' \in Seq(PSEntry)
        /\ Len(psTable') >= Len(psTable)
    BY <1>1, <1>6, <2>1, LinkOldStays
  <2>3. KeepsCallers /\ Len(stack') = Len(stack) - 1 /\ status' \in Statuses
    BY <1>1, <1>6, ReturnKeeps
  <2>4. MovesTop /\ KeepsBranch(Top.pc) /\ KeepsRest
    BY <1>1, <2>2, <2>3 DEF MovesTop, KeepsBranch, KeepsRest
  <2>. QED  BY <1>1, <1>3, <2>2, <2>3, <2>4, StayPreserves
<1>7. CASE stack' = SetTop([Top EXCEPT !.pc = @ + 1]) /\ UNCHANGED <<graph, status>>
  <2>1. PICK f : f = [Top EXCEPT !.pc = @ + 1]
    OBVIOUS
  <2>2. f \in Frame /\ f.block = Top.block /\ f.pc = Top.pc + 1
    BY <1>2, <1>3, <2>1 DEF Frame
  <2>3. KeepsCallers /\ Len(stack') = Len(stack) /\ stack'[Len(stack)] = f
    BY <1>1, <1>7, <2>1, <2>2, MovesKeep
  <2>4. blocks' = blocks /\ psTable' = psTable /\ status' = status
    BY <1>7 DEF graph
  <2>5. KeepsBlocks(blocks[Top.block].end) /\ blocks[Top.block].end \in Nat
    BY <1>2, <1>4, <2>4 DEF KeepsBlocks, TypeOK, Block
  <2>6. Len(psTable') >= Len(psTable)
    <3>1. Len(psTable) \in Nat
      BY <1>4, LenProperties DEF TypeOK
    <3>. QED  BY <2>4, <3>1
  <2>7. MovesTop
    <3>1. blocks[Top.block].start \in Nat
      BY <1>2 DEF Block
    <3>2. blocks[Top.block].start <= Top.pc + 1
      BY <1>2, <1>3, <3>1
    <3>. QED  BY <2>2, <2>3, <3>2 DEF MovesTop
  <2>8. KeepsBranch(blocks[Top.block].end) /\ KeepsRest
    BY <1>1, <1>4, <2>4 DEF KeepsBranch, KeepsRest, TypeOK
  <2>. QED  BY <1>1, <2>3, <2>4, <2>5, <2>6, <2>7, <2>8, StayPreserves
<1>. QED  BY <1>5, <1>6, <1>7 DEF ScanPlain

(* The end of the loop by its condition writes nothing.                    *)
LEMMA RunOffEndFlags == IInv /\ RunOffEnd => stack # <<>> /\ WritesFlags
<1>. SUFFICES ASSUME IInv, RunOffEnd PROVE stack # <<>> /\ WritesFlags
  OBVIOUS
<1>1. stack # <<>> /\ Return /\ UNCHANGED <<code, psTable>> /\ blocks' = blocks
  BY DEF RunOffEnd, At, graph
<1>2. Top.block \in 1..Len(blocks) /\ blocks[Top.block] \in Block
  BY <1>1, AtTop
<1>3. blocks' = [blocks EXCEPT ![Top.block] = blocks[Top.block]]
  <2>1. blocks \in Seq(Block)
    BY DEF IInv, TypeOK
  <2>. QED  BY <1>1, <1>2, <2>1
<1>. QED  BY <1>1, <1>2, <1>3 DEF WritesFlags

(* endsInCall, after a call has been followed.                             *)
LEMMA EndCallFlags == IInv /\ EndCall => stack # <<>> /\ WritesFlags
<1>. SUFFICES ASSUME IInv, EndCall PROVE stack # <<>> /\ WritesFlags
  OBVIOUS
<1>1. stack # <<>> /\ Return /\ UNCHANGED <<code, psTable>>
  BY DEF EndCall, At
<1>2. blocks[Top.block] \in Block
  BY <1>1, AtTop
<1>3. (blocks[Top.block].endsInCall \/ code[Top.pc].link) \in BOOLEAN
  OBVIOUS
<1>4. PICK c \in BOOLEAN : c = (blocks[Top.block].endsInCall \/ code[Top.pc].link)
  BY <1>3
<1>5. PICK b : b = [blocks[Top.block] EXCEPT !.endsInCall = c]
  OBVIOUS
<1>6. /\ b \in Block
      /\ b.start = blocks[Top.block].start
      /\ b.end = blocks[Top.block].end
      /\ b.type = blocks[Top.block].type
  BY <1>2, <1>5 DEF Block
<1>7. blocks' = [blocks EXCEPT ![Top.block] = b]
  BY <1>4, <1>5, Zenon DEF EndCall
<1>. QED  BY <1>1, <1>6, <1>7 DEF WritesFlags

(* The flags of a block that control does not come back to.                *)
LEMMA EndBlockFlags == IInv /\ EndBlock => stack # <<>> /\ WritesFlags
<1>. SUFFICES ASSUME IInv, EndBlock PROVE stack # <<>> /\ WritesFlags
  OBVIOUS
<1>1. stack # <<>> /\ Return /\ UNCHANGED <<code, psTable>>
  BY DEF EndBlock, At
<1>2. Top.block \in 1..Len(blocks) /\ blocks[Top.block] \in Block
  BY <1>1, AtTop
<1>3. blocks \in Seq(Block)
  BY DEF IInv, TypeOK
<1>4. CASE blocks' = [blocks EXCEPT ![Top.block].isExit = TRUE]
  <2>1. PICK b : b = [blocks[Top.block] EXCEPT !.isExit = TRUE]
    OBVIOUS
  <2>2. /\ b \in Block
        /\ b.start = blocks[Top.block].start
        /\ b.end = blocks[Top.block].end
        /\ b.type = blocks[Top.block].type
    BY <1>2, <2>1 DEF Block
  <2>3. blocks' = [blocks EXCEPT ![Top.block] = b]
    BY <1>4, <2>1
  <2>. QED  BY <1>1, <2>2, <2>3 DEF WritesFlags
<1>5. CASE blocks' = [blocks EXCEPT ![Top.block].isExit = TRUE,
                                    ![Top.block].endsInCall = TRUE,
                                    ![Top.block].endsInTailCall = TRUE]
  <2>1. PICK b : b = [blocks[Top.block] EXCEPT !.isExit = TRUE, !.endsInCall = TRUE,
                                               !.endsInTailCall = TRUE]
    OBVIOUS
  <2>2. /\ b \in Block
        /\ b.start = blocks[Top.block].start
        /\ b.end = blocks[Top.block].end
        /\ b.type = blocks[Top.block].type
    BY <1>2, <2>1 DEF Block
  <2>3. blocks' = [blocks EXCEPT ![Top.block] = b]
    BY <1>2, <1>3, <1>5, <2>1
  <2>. QED  BY <1>1, <2>2, <2>3 DEF WritesFlags
<1>6. CASE blocks' = blocks
  <2>1. blocks' = [blocks EXCEPT ![Top.block] = blocks[Top.block]]
    BY <1>2, <1>3, <1>6
  <2>. QED  BY <1>1, <1>2, <2>1 DEF WritesFlags
<1>. QED  BY <1>4, <1>5, <1>6 DEF EndBlock

(* handleBranch: a block, an edge, a placeholder, or the exception.        *)
LEMMA HandleBranchPreserves == IInv /\ HandleBranch => IInv'
<1>. SUFFICES ASSUME IInv, HandleBranch PROVE IInv'
  OBVIOUS
<1>1. stack # <<>>
  BY DEF HandleBranch, At
<1>2. PICK target : target = code[Top.pc].target
  OBVIOUS
<1>3. CASE target \in Positions /\ Enter(target, "branched") /\ UNCHANGED <<code, status>>
  <2>1. target \in Nat
    BY <1>3, LengthAssumption DEF Positions
  <2>. QED  BY <1>1, <1>3, <2>1, EnterPreserves
<1>4. CASE /\ LinkNew(Top.block, Top.pc, NewBlock(Top.pc, "EXTERNAL"))
           /\ stack' = SetTop([Top EXCEPT !.phase = "branched"])
           /\ UNCHANGED <<code, status>>
  BY <1>1, <1>4, PlaceholderPreserves
<1>5. CASE Stop("threw")
  BY <1>5, StopPreserves DEF Stop, Statuses
<1>. QED  BY <1>2, <1>3, <1>4, <1>5 DEF HandleBranch

(* A branch through LR or CTR.                                             *)
LEMMA RuntimeBranchPreserves == IInv /\ RuntimeBranch => IInv'
<1>. SUFFICES ASSUME IInv, RuntimeBranch PROVE IInv'
  OBVIOUS
<1>. QED  BY PlaceholderPreserves DEF RuntimeBranch, At

(* The successor at pc + 1, or the failing assertion.                      *)
LEMMA AfterBranchPreserves == IInv /\ AfterBranch => IInv'
<1>. SUFFICES ASSUME IInv, AfterBranch PROVE IInv'
  OBVIOUS
<1>1. stack # <<>>
  BY DEF AfterBranch, At
<1>2. CASE Stop("aborted")
  BY <1>2, StopPreserves DEF Stop, Statuses
<1>3. CASE Enter(Top.pc + 1, "returned") /\ UNCHANGED <<code, status>>
  <2>1. Top.pc + 1 \in Nat
    BY <1>1, AtTop DEF Frame
  <2>. QED  BY <1>1, <1>3, <2>1, EnterPreserves
<1>. QED  BY <1>2, <1>3 DEF AfterBranch

----------------------------------------------------------------------------
(* Every step keeps IInv.                                                  *)
LEMMA StepIInv == IInv /\ [Next]_vars => IInv'
<1>. SUFFICES ASSUME IInv, [Next]_vars PROVE IInv'
  OBVIOUS
<1>1. CASE ScanPlain
  BY <1>1, ScanPlainPreserves
<1>2. CASE RunOffEnd
  BY <1>2, RunOffEndFlags, FlagsPreserve
<1>3. CASE HandleBranch
  BY <1>3, HandleBranchPreserves
<1>4. CASE RuntimeBranch
  BY <1>4, RuntimeBranchPreserves
<1>5. CASE AfterBranch
  BY <1>5, AfterBranchPreserves
<1>6. CASE EndCall
  BY <1>6, EndCallFlags, FlagsPreserve
<1>7. CASE EndBlock
  BY <1>7, EndBlockFlags, FlagsPreserve
<1>8. CASE UNCHANGED vars
  <2>1. status \in Statuses
    BY DEF IInv, TypeOK
  <2>. QED  BY <1>8, <2>1, StopPreserves DEF vars
<1>. QED  BY <1>1, <1>2, <1>3, <1>4, <1>5, <1>6, <1>7, <1>8 DEF Next, Terminated

(* Whatever the function, and in both builds, the analysis keeps IInv.     *)
THEOREM Inductive == Spec => []IInv
<1>1. Init => IInv
  BY InitIInv
<1>2. IInv /\ [Next]_vars => IInv'
  BY StepIInv
<1>. QED  BY <1>1, <1>2, PTL DEF Spec

(* The variables keep the types the code gives them: no block, edge or     *)
(* activation ever refers to an index below the first.                     *)
THEOREM TypeCorrect == Spec => []TypeOK
<1>1. IInv => TypeOK
  BY DEF IInv
<1>. QED  BY <1>1, Inductive, PTL

(* No two internal blocks ever start at the same instruction: the lookup   *)
(* in tryCreateSuccessorInternal and the one in the fall-through case find  *)
(* every block made so far, at any depth of the recursion.                 *)
THEOREM StartsUnique == Spec => []UniqueStarts
<1>1. IInv => UniqueStarts
  BY DEF IInv
<1>. QED  BY <1>1, Inductive, PTL

LEMMA LookupHere == IInv => LookupIsInternal
<1>. SUFFICES ASSUME IInv, NEW p \in 0..Length, findBlockByInsnIdx(p) # 0
              PROVE  findBlockByInsnIdx(p) \in Internal
  BY DEF LookupIsInternal
<1>1. PICK S : S = {i \in DOMAIN blocks : blocks[i].start <= p /\ p <= blocks[i].end}
  OBVIOUS
<1>2. S # {} /\ findBlockByInsnIdx(p) = First(S)
  BY <1>1 DEF findBlockByInsnIdx, FirstOrNone
<1>3. DOMAIN blocks = 1..Len(blocks) /\ Len(blocks) \in Nat
  BY LenProperties DEF IInv, TypeOK
<1>4. S \subseteq Nat
  BY <1>1, <1>3
<1>5. First(S) \in S /\ \A j \in S : First(S) <= j
  BY <1>2, <1>4, FirstIsLeast
<1>6. PICK i \in DOMAIN blocks : /\ i = First(S)
                                /\ blocks[i].start <= p /\ p <= blocks[i].end
  BY <1>1, <1>5
<1>7. ASSUME i \notin Internal
      PROVE  FALSE
  <2>1. /\ blocks[i].end = blocks[i].start
        /\ \E j \in 1..(i - 1) : Branches(j, blocks[i].start)
    BY <1>7 DEF IInv, PlaceholdersFollow
  <2>2. PICK j \in 1..(i - 1) : Branches(j, blocks[i].start)
    BY <2>1
  <2>3. blocks[i].start = p
    <3>1. blocks[i] \in Block
      BY <1>3, ElementOfSeq DEF IInv, TypeOK
    <3>2. blocks[i].start \in Nat /\ p \in Int
      BY <3>1 DEF Block
    <3>. QED  BY <1>6, <2>1, <3>2
  <2>4. j \in DOMAIN blocks /\ j < i
    BY <1>3, <2>2
  <2>5. p \in Int /\ blocks[j].start <= p /\ blocks[j].end = p
    BY <2>2, <2>3 DEF Branches
  <2>6. j \in S
    BY <1>1, <2>4, <2>5
  <2>. QED  BY <1>3, <1>5, <1>6, <2>4, <2>6
<1>. QED  BY <1>2, <1>6, <1>7

(* findBlockByInsnIdx, which ignores the type of a block, answers with an  *)
(* internal one: the block a placeholder stands behind comes first.        *)
THEOREM LookupInternal == Spec => []LookupIsInternal
BY LookupHere, Inductive, PTL

-----------------------------------------------------------------------------
(* Finished blocks, and the refinement.                                    *)

Leaders == {blocks[i].start : i \in Internal}

(* A branch's target is one of the positions L, or known to be outside.    *)
Leads(insn, L) == HasTarget(insn) => insn.target \in L \cup {External}

(***************************************************************************)
(* An activation f in a block from start to end, where the blocks start at *)
(* the positions L: it has passed no branch before its pc.  Past scan it   *)
(* stands at one, has ended its block there, and has dealt with its target, *)
(* and in the last phase also with the next instruction.                   *)
(***************************************************************************)
GoodFrame(c, L, start, end, f) ==
    /\ f.pc <= Length
    /\ RunsTo(c, start, f.pc)
    /\ end = IF f.phase = "scan" THEN start ELSE f.pc
    /\ f.phase # "scan" =>
          /\ f.pc < Length
          /\ IsBranch(c[f.pc])
          /\ Leads(c[f.pc], L)
    /\ f.phase = "returned" => f.pc + 1 \in L

(* A block whose activation has returned: it ends at a branch that leads to *)
(* blocks, or before the start of one, or nothing after its start branches. *)
GoodBlock(c, L, start, end) ==
    /\ RunsTo(c, start, end)
    /\ \/ /\ end \in Positions /\ IsBranch(c[end])
          /\ BranchSuccs(c, end) \subseteq L /\ Leads(c[end], L)
       \/ end \in Positions /\ ~IsBranch(c[end]) /\ end + 1 \in L
       \/ \A q \in Positions : start <= q => ~IsBranch(c[q])

(* What these theorems need besides IInv.                                  *)
CInv ==
    /\ \A i \in Internal : blocks[i].start <= Length
    /\ \A k \in DOMAIN stack :
          LET b == blocks[stack[k].block]
          IN  GoodFrame(code, Leaders, b.start, b.end, stack[k])
    /\ \A i \in Finished : GoodBlock(code, Leaders, blocks[i].start, blocks[i].end)
    /\ status = "done" => stack = <<>>

----------------------------------------------------------------------------
(* Finished blocks are frozen.                                             *)

(* Entering an edge writes the successors of the block it starts at only.  *)
LEMMA LinkSucc ==
    ASSUME NEW t \in Seq(PSEntry), NEW from \in 1..Len(t), NEW to \in 1..Len(t),
           NEW i \in 1..Len(t), i # from
    PROVE  Link(t, from, to)[i].succ = t[i].succ
<1> DEFINE u == [t EXCEPT ![from].succ = Append(@, to)]
<1>1. DOMAIN t = 1..Len(t) /\ t[to] \in PSEntry /\ t[from] \in PSEntry
  BY ElementOfSeq, LenProperties
<1>2. u[i] = t[i] /\ DOMAIN u = DOMAIN t
  BY <1>1
<1>3. i = to => u[to] \in PSEntry
  BY <1>1, <1>2
<1>4. Link(t, from, to) = [u EXCEPT ![to].pred = Append(@, from)]
  BY DEF Link
<1> HIDE DEF u
<1>5. CASE i = to
  BY <1>1, <1>2, <1>3, <1>4, <1>5 DEF PSEntry
<1>6. CASE i # to
  BY <1>1, <1>2, <1>4, <1>6
<1>. QED  BY <1>5, <1>6

(* Only the block of the top activation and its successors are written.    *)
Untouched ==
    \A i \in 1..Len(blocks) :
        i # Top.block => blocks'[i] = blocks[i] /\ psTable'[i].succ = psTable[i].succ

(* An activation that is new is in a block that is new.                    *)
NoneResumed ==
    \A k \in DOMAIN stack' : stack'[k].block \in Scanning \cup {Len(blocks) + 1}

LEMMA LinkNewUntouched ==
    ASSUME IInv, stack # <<>>, NEW nb \in Block, LinkNew(Top.block, Top.pc, nb)
    PROVE  Untouched
<1>1. /\ Len(blocks) \in Nat
      /\ Top \in Frame
      /\ Top.block \in 1..Len(blocks)
      /\ TypeOK
  BY AtTop DEF IInv
<1>2. PICK B : B = [blocks EXCEPT ![Top.block].end = Top.pc]
  OBVIOUS
<1>3. Top.pc \in Nat
  BY <1>1 DEF Frame
<1>4. /\ B \in Seq(Block)
      /\ Len(B) = Len(blocks)
      /\ \A i \in 1..Len(blocks) : i # Top.block => B[i] = blocks[i]
  BY <1>1, <1>2, <1>3, SetEnd
<1>5. \A i \in 1..Len(B) : blocks'[i] = B[i]
  BY <1>2, <1>4, AppendProperties DEF LinkNew
<1>6. PICK t : t = Append(psTable, EmptyEntry)
  OBVIOUS
<1>7. /\ t \in Seq(PSEntry)
      /\ Len(t) = Len(psTable) + 1
      /\ \A i \in 1..Len(psTable) : t[i] = psTable[i]
  BY <1>1, <1>6, AppendProperties DEF TypeOK, EmptyEntry, PSEntry
<1>8. Len(psTable) \in Nat /\ Len(blocks) <= Len(psTable)
  BY <1>1, LenProperties DEF IInv, TypeOK, TableCovers
<1>9. psTable' = Link(t, Top.block, Len(blocks) + 1)
  BY <1>6 DEF LinkNew
<1>. SUFFICES ASSUME NEW i \in 1..Len(blocks), i # Top.block
              PROVE  blocks'[i] = blocks[i] /\ psTable'[i].succ = psTable[i].succ
  BY DEF Untouched
<1>10. i \in 1..Len(t) /\ Top.block \in 1..Len(t) /\ Len(blocks) + 1 \in 1..Len(t)
       /\ i \in 1..Len(psTable)
  BY <1>1, <1>7, <1>8
<1>11. psTable'[i].succ = t[i].succ
  BY <1>7, <1>9, <1>10, LinkSucc
<1>. QED  BY <1>4, <1>5, <1>7, <1>10, <1>11

LEMMA LinkOldUntouched ==
    ASSUME IInv, stack # <<>>, NEW to \in 1..Len(blocks),
           \/ LinkExisting(Top.block, Top.pc, to)
           \/ createSuccessorFallthrough(Top.block, Top.pc, to)
    PROVE  Untouched
<1>1. /\ Len(blocks) \in Nat
      /\ Top \in Frame
      /\ Top.block \in 1..Len(blocks)
      /\ TypeOK
  BY AtTop DEF IInv
<1>2. Top.pc \in Nat
  BY <1>1 DEF Frame
<1>3. \A i \in 1..Len(blocks) : i # Top.block => blocks'[i] = blocks[i]
  BY <1>1, <1>2, SetEnd DEF LinkExisting, createSuccessorFallthrough
<1>4. Len(psTable) \in Nat /\ Len(blocks) <= Len(psTable) /\ psTable \in Seq(PSEntry)
  BY <1>1, LenProperties DEF IInv, TypeOK, TableCovers
<1>5. PICK t : /\ psTable' = Link(t, Top.block, to)
               /\ t = psTable \/ t = Append(psTable, EmptyEntry)
  BY DEF LinkExisting, createSuccessorFallthrough
<1>6. /\ t \in Seq(PSEntry)
      /\ Len(t) >= Len(psTable) /\ Len(t) \in Nat
      /\ \A i \in 1..Len(psTable) : t[i] = psTable[i]
  <2>1. CASE t = psTable
    BY <1>4, <2>1
  <2>2. CASE t = Append(psTable, EmptyEntry)
    <3>1. EmptyEntry \in PSEntry
      BY DEF EmptyEntry, PSEntry
    <3>2. /\ t \in Seq(PSEntry)
          /\ Len(t) = Len(psTable) + 1
          /\ \A i \in 1..Len(psTable) : t[i] = psTable[i]
      BY <1>4, <2>2, <3>1, AppendProperties
    <3>3. Len(psTable) \in Nat
      BY <1>4
    <3>. QED  BY <3>2, <3>3
  <2>. QED  BY <1>5, <2>1, <2>2
<1>. SUFFICES ASSUME NEW i \in 1..Len(blocks), i # Top.block
              PROVE  psTable'[i].succ = psTable[i].succ
  BY <1>3 DEF Untouched
<1>7. i \in 1..Len(t) /\ Top.block \in 1..Len(t) /\ to \in 1..Len(t)
      /\ i \in 1..Len(psTable)
  BY <1>1, <1>4, <1>6
<1>8. psTable'[i].succ = t[i].succ
  BY <1>5, <1>6, <1>7, LinkSucc
<1>. QED  BY <1>6, <1>7, <1>8

(* Which activations there are after a step that keeps the callers.        *)
LEMMA KeptNoneResumed ==
    ASSUME IInv, stack # <<>>, KeepsCallers,
           \/ Len(stack') = Len(stack) - 1
           \/ Len(stack') = Len(stack) /\ stack'[Len(stack)].block = Top.block
           \/ /\ Len(stack') = Len(stack) + 1
              /\ stack'[Len(stack)].block = Top.block
              /\ stack'[Len(stack) + 1].block = Len(blocks) + 1
    PROVE  NoneResumed
<1>1. PICK n : n = Len(stack)
  OBVIOUS
<1>2. n \in Nat \ {0}
  BY <1>1, AtTop
<1>3. DOMAIN stack = 1..n /\ DOMAIN stack' = 1..Len(stack')
  BY <1>1, AtTop, LenProperties DEF KeepsCallers
<1>4. Len(stack') \in {n - 1, n, n + 1}
  BY <1>1
<1>. SUFFICES ASSUME NEW k \in 1..Len(stack')
              PROVE  stack'[k].block \in Scanning \cup {Len(blocks) + 1}
  BY <1>3 DEF NoneResumed
<1>5. \/ k \in 1..(n - 1)
      \/ k = n /\ Len(stack') # n - 1
      \/ k = n + 1 /\ Len(stack') = n + 1
  BY <1>2, <1>4
<1>6. CASE k \in 1..(n - 1)
  <2>1. stack'[k] = stack[k]
    BY <1>1, <1>6 DEF KeepsCallers
  <2>2. k \in 1..n
    BY <1>2, <1>6
  <2>. QED  BY <1>3, <2>1, <2>2 DEF Scanning
<1>7. CASE k = n /\ Len(stack') # n - 1
  <2>1. stack'[k].block = stack[n].block
    BY <1>1, <1>7 DEF Top
  <2>2. n \in 1..n
    BY <1>2
  <2>. QED  BY <1>3, <2>1, <2>2 DEF Scanning
<1>8. CASE k = n + 1 /\ Len(stack') = n + 1
  <2>1. Len(stack') # n - 1 /\ Len(stack') # n
    BY <1>2, <1>8
  <2>. QED  BY <1>1, <1>8, <2>1
<1>. QED  BY <1>5, <1>6, <1>7, <1>8

----------------------------------------------------------------------------
(* What the steps do to the stack, the starts and ends of blocks, and the  *)
(* status.                                                                 *)
Moves(e) == KeepsBlocks(e) /\ KeepsCallers /\ Untouched /\ NoneResumed /\ code' = code
Stays(f) == Len(stack') = Len(stack) /\ stack'[Len(stack)] = f /\ status' = status
Returns == Len(stack') = Len(stack) - 1 /\ status' \in {"running", "done"}
                /\ (status' = "done" <=> Len(stack) = 1)

(* tryCreateSuccessorInternal: either a block starts at the target, or one *)
(* is made and entered.                                                    *)
EntersOld(target, f) == target \in Leaders /\ Len(blocks') = Len(blocks) /\ Stays(f)
EntersNew(target, f) ==
    LET n == Len(blocks) + 1
    IN  /\ target \notin Leaders
        /\ Len(blocks') = n /\ blocks'[n] = NewBlock(target, "INTERNAL")
        /\ Len(stack') = Len(stack) + 1 /\ stack'[Len(stack)] = f /\ status' = status
        /\ stack'[Len(stack) + 1] = [block |-> n, pc |-> target, phase |-> "scan"]

LEMMA EnterMoves ==
    ASSUME IInv, stack # <<>>, NEW target \in Nat, NEW phase \in {"branched", "returned"},
           Enter(target, phase), UNCHANGED <<code, status>>, NEW f, f = [Top EXCEPT !.phase = phase]
    PROVE  Moves(Top.pc) /\ (EntersOld(target, f) \/ EntersNew(target, f))
<1>1. /\ Len(blocks) \in Nat
      /\ DOMAIN blocks = 1..Len(blocks)
      /\ Top \in Frame
      /\ TypeOK
  BY AtTop DEF IInv
<1>2. f \in Frame /\ f.block = Top.block
  BY <1>1 DEF Frame
<1>3. PICK to : to = findInternalBlockByPosition(target)
  OBVIOUS
<1>4. CASE /\ to # 0
           /\ LinkExisting(Top.block, Top.pc, to)
           /\ stack' = SetTop(f)
  <2>1. to \in 1..Len(blocks) /\ blocks[to].start = target /\ blocks[to].type = "INTERNAL"
    BY <1>1, <1>3, <1>4, FindInternal
  <2>2. KeepsBlocks(Top.pc) /\ Len(blocks') = Len(blocks)
    BY <1>4, <2>1, LinkOldStays
  <2>3. KeepsCallers /\ Len(stack') = Len(stack) /\ stack'[Len(stack)] = f
    BY <1>2, <1>4, MovesKeep
  <2>4. Untouched
    BY <1>4, <2>1, LinkOldUntouched
  <2>5. NoneResumed
    BY <1>2, <2>3, KeptNoneResumed
  <2>6. target \in Leaders
    BY <1>1, <2>1 DEF Leaders, Internal
  <2>. QED  BY <2>2, <2>3, <2>4, <2>5, <2>6 DEF Moves, EntersOld, Stays
<1>5. CASE /\ to = 0
           /\ LinkNew(Top.block, Top.pc, NewBlock(target, "INTERNAL"))
           /\ stack' = Call(SetTop(f), Len(blocks) + 1, target)
  <2>1. NewBlock(target, "INTERNAL") \in Block
    BY DEF NewBlock, Block, BlockTypes
  <2>2. /\ KeepsBlocks(Top.pc)
        /\ Len(blocks') = Len(blocks) + 1
        /\ blocks'[Len(blocks) + 1] = NewBlock(target, "INTERNAL")
    BY <1>5, <2>1, LinkNewGrows
  <2>3. Len(blocks) + 1 \in Nat \ {0}
    BY <1>1
  <2>4. /\ KeepsCallers
        /\ Len(stack') = Len(stack) + 1
        /\ stack'[Len(stack)] = f
        /\ stack'[Len(stack) + 1] = [block |-> Len(blocks) + 1, pc |-> target, phase |-> "scan"]
    BY <1>2, <1>5, <2>3, CallKeeps
  <2>5. Untouched
    BY <1>5, <2>1, LinkNewUntouched
  <2>6. NoneResumed
    BY <1>2, <2>4, KeptNoneResumed
  <2>7. target \notin Leaders
    <3>1. findInternalBlockByPosition(target) = 0 /\ 0 \notin 1..Len(blocks) /\ TypeOK
      BY <1>1, <1>3, <1>5
    <3>2. \A i \in 1..Len(blocks) : ~(blocks[i].start = target /\ blocks[i].type = "INTERNAL")
      BY <3>1, FindInternal
    <3>. QED  BY <1>1, <3>2 DEF Leaders, Internal
  <2>. QED  BY <2>2, <2>4, <2>5, <2>6, <2>7 DEF Moves, EntersNew
<1>. QED  BY <1>3, <1>4, <1>5 DEF Enter

(* createSuccessorExternal and createSuccessorRuntime: a placeholder.      *)
Places(f) ==
    /\ Len(blocks') = Len(blocks) + 1
    /\ blocks'[Len(blocks) + 1].type # "INTERNAL"
    /\ Stays(f)

LEMMA PlaceholderMoves ==
    ASSUME IInv, stack # <<>>, NEW type \in {"EXTERNAL", "RUNTIME"},
           LinkNew(Top.block, Top.pc, NewBlock(Top.pc, type)),
           NEW f, f = [Top EXCEPT !.phase = "branched"],
           stack' = SetTop(f), UNCHANGED <<code, status>>
    PROVE  Moves(Top.pc) /\ Places(f)
<1>1. Top \in Frame
  BY AtTop
<1>2. f \in Frame /\ f.block = Top.block /\ Top.pc \in Nat
  BY <1>1 DEF Frame
<1>3. NewBlock(Top.pc, type) \in Block /\ NewBlock(Top.pc, type).type # "INTERNAL"
  BY <1>2 DEF NewBlock, Block, BlockTypes
<1>4. /\ KeepsBlocks(Top.pc)
      /\ Len(blocks') = Len(blocks) + 1
      /\ blocks'[Len(blocks) + 1] = NewBlock(Top.pc, type)
  BY <1>3, LinkNewGrows
<1>5. KeepsCallers /\ Len(stack') = Len(stack) /\ stack'[Len(stack)] = f
  BY <1>2, MovesKeep
<1>6. Untouched
  BY <1>3, LinkNewUntouched
<1>7. NoneResumed
  BY <1>2, <1>5, KeptNoneResumed
<1>. QED  BY <1>3, <1>4, <1>5, <1>6, <1>7 DEF Moves, Places, Stays

(* The next instruction, the fall-through, and the ends of an activation.  *)
LEMMA FallMoves ==
    ASSUME IInv, stack # <<>>, NEW to \in 1..Len(blocks), code' = code,
           createSuccessorFallthrough(Top.block, Top.pc, to), Return
    PROVE  Moves(Top.pc) /\ Len(blocks') = Len(blocks) /\ Returns
<1>1. KeepsBlocks(Top.pc) /\ Len(blocks') = Len(blocks)
  BY LinkOldStays
<1>2. KeepsCallers /\ Len(stack') = Len(stack) - 1
  BY ReturnKeeps
<1>3. Untouched /\ NoneResumed
  BY <1>2, LinkOldUntouched, KeptNoneResumed
<1>4. status' \in {"running", "done"} /\ (status' = "done" <=> Len(stack) = 1)
  BY DEF Return
<1>. QED  BY <1>1, <1>2, <1>3, <1>4 DEF Moves, Returns

LEMMA FlagsMove ==
    ASSUME IInv, stack # <<>>, WritesFlags
    PROVE  Moves(blocks[Top.block].end) /\ Len(blocks') = Len(blocks) /\ Returns
<1>1. /\ KeepsBlocks(blocks[Top.block].end)
      /\ Len(blocks') = Len(blocks)
      /\ \A i \in 1..Len(blocks) : i # Top.block => blocks'[i] = blocks[i]
      /\ KeepsCallers /\ Len(stack') = Len(stack) - 1
  BY FlagsKeep
<1>2. code' = code /\ psTable' = psTable /\ Return
  BY DEF WritesFlags
<1>3. Untouched /\ NoneResumed
  BY <1>1, <1>2, KeptNoneResumed DEF Untouched
<1>4. status' \in {"running", "done"} /\ (status' = "done" <=> Len(stack) = 1)
  BY <1>2 DEF Return
<1>. QED  BY <1>1, <1>2, <1>3, <1>4 DEF Moves, Returns

LEMMA AdvanceMoves ==
    ASSUME IInv, stack # <<>>, NEW f \in Frame, f.block = Top.block, stack' = SetTop(f),
           UNCHANGED <<code, graph, status>>
    PROVE  Moves(blocks[Top.block].end) /\ Len(blocks') = Len(blocks) /\ Stays(f)
<1>1. KeepsCallers /\ Len(stack') = Len(stack) /\ stack'[Len(stack)] = f
  BY MovesKeep
<1>2. blocks' = blocks /\ psTable' = psTable /\ blocks \in Seq(Block)
  BY DEF graph, IInv, TypeOK
<1>3. KeepsBlocks(blocks[Top.block].end)
  BY <1>2 DEF KeepsBlocks
<1>4. Untouched /\ NoneResumed
  BY <1>1, <1>2, KeptNoneResumed DEF Untouched
<1>. QED  BY <1>1, <1>2, <1>3, <1>4 DEF Moves, Stays

----------------------------------------------------------------------------
(* CInv is inductive, together with IInv.                                  *)

(* What holds of an activation or a block holds as more leaders are known. *)
LEMMA MoreLeaders ==
    ASSUME NEW c, NEW L, NEW M, L \subseteq M, NEW start, NEW end
    PROVE  /\ \A f : GoodFrame(c, L, start, end, f) => GoodFrame(c, M, start, end, f)
           /\ GoodBlock(c, L, start, end) => GoodBlock(c, M, start, end)
BY DEF GoodFrame, GoodBlock, Leads

(* Blocks and leaders from one state to the next.                          *)
LEMMA LeadersGrow ==
    ASSUME IInv, stack # <<>>, NEW e, KeepsBlocks(e),
           Len(blocks') \in {Len(blocks), Len(blocks) + 1}
    PROVE  /\ Internal \subseteq Internal'
           /\ Internal' \subseteq Internal \cup {Len(blocks) + 1}
           /\ Len(blocks') = Len(blocks) => Internal' = Internal
           /\ Leaders \subseteq Leaders'
           /\ Leaders' \subseteq Leaders \cup {blocks'[Len(blocks) + 1].start}
           /\ Len(blocks) + 1 \notin Internal' => Leaders' = Leaders
<1>1. PICK n : n = Len(blocks)
  OBVIOUS
<1>2. n \in Nat /\ DOMAIN blocks = 1..n
  BY <1>1, AtTop
<1>3. DOMAIN blocks' = 1..Len(blocks')
  BY LenProperties DEF KeepsBlocks
<1>4. \/ Len(blocks') = n /\ DOMAIN blocks' = 1..n
      \/ DOMAIN blocks' = 1..n \cup {n + 1}
  <2>1. n \in Nat
    BY <1>2
  <2>2. 1..(n + 1) = 1..n \cup {n + 1}
    BY <2>1
  <2>. QED  BY <1>1, <1>3, <2>2
<1>5. \A i \in 1..n : blocks'[i].start = blocks[i].start /\ blocks'[i].type = blocks[i].type
  BY <1>1 DEF KeepsBlocks
<1>6. n + 1 \notin 1..n
  BY <1>2
<1>7. Internal \subseteq Internal' /\ Internal' \subseteq Internal \cup {n + 1}
  BY <1>2, <1>4, <1>5 DEF Internal
<1>8. Len(blocks') = n => Internal' = Internal
  BY <1>2, <1>3, <1>5 DEF Internal
<1>9. \A i \in Internal : blocks'[i].start = blocks[i].start
  BY <1>2, <1>5 DEF Internal
<1>. QED  BY <1>1, <1>7, <1>8, <1>9 DEF Leaders

(* A step keeps CInv if it leaves the top activation and its block, and a  *)
(* new block and its activation, as CInv says.                             *)
GoodTop ==
    \A k \in {Len(stack), Len(stack) + 1} \cap DOMAIN stack' :
        LET b == blocks'[stack'[k].block]
        IN  GoodFrame(code, Leaders', b.start, b.end, stack'[k])
TopSettled ==
    Len(stack') < Len(stack) =>
        GoodBlock(code, Leaders', blocks'[Top.block].start, blocks'[Top.block].end)
NewTended ==
    LET n == Len(blocks) + 1
    IN  n \in Internal' => blocks'[n].start <= Length /\ n \in Scanning'

LEMMA KeepsCInv ==
    ASSUME IInv, CInv, stack # <<>>, NEW e \in Nat, Moves(e),
           Len(blocks') \in {Len(blocks), Len(blocks) + 1},
           Len(stack') \in {Len(stack) - 1, Len(stack), Len(stack) + 1},
           Len(stack') >= Len(stack) => stack'[Len(stack)].block = Top.block,
           status' = "done" => stack' = <<>>,
           GoodTop, TopSettled, NewTended
    PROVE  CInv'
<1>1. PICK n : n = Len(stack)
  OBVIOUS
<1>2. n \in Nat \ {0} /\ Top = stack[n] /\ Len(stack') \in {n - 1, n, n + 1}
  BY <1>1, AtTop DEF Top
<1>3. DOMAIN stack = 1..n /\ DOMAIN stack' = 1..Len(stack') /\ DOMAIN blocks = 1..Len(blocks)
  BY <1>1, AtTop, LenProperties DEF Moves, KeepsCallers
<1>4. code' = code /\ \A k \in 1..(n - 1) : stack'[k] = stack[k] /\ stack[k].block # Top.block
  BY <1>1, AtTop DEF Moves, KeepsCallers
<1>5. /\ Internal' \subseteq Internal \cup {Len(blocks) + 1}
      /\ Leaders \subseteq Leaders'
  BY LeadersGrow DEF Moves
<1>6. \A i \in Internal :
          /\ blocks'[i].start = blocks[i].start
          /\ i # Top.block => blocks'[i].end = blocks[i].end
  BY <1>3 DEF Moves, KeepsBlocks, Internal
<1>7. \A i \in Internal' : blocks'[i].start <= Length
  BY <1>5, <1>6 DEF CInv, NewTended
<1>8. ASSUME NEW k \in DOMAIN stack'
      PROVE  GoodFrame(code, Leaders', blocks'[stack'[k].block].start,
                       blocks'[stack'[k].block].end, stack'[k])
  <2>1. k \in 1..Len(stack')
    BY <1>3
  <2>2. k \in 1..(n - 1) \/ k \in {n, n + 1}
    BY <1>2, <2>1
  <2>3. CASE k \in {n, n + 1}
    BY <1>1, <2>3 DEF GoodTop
  <2>4. CASE k \in 1..(n - 1)
    <3>1. k \in DOMAIN stack /\ stack'[k] = stack[k] /\ stack[k].block # Top.block
      <4>1. k \in 1..n
        BY <1>2, <2>4
      <4>. QED  BY <1>3, <1>4, <2>4, <4>1
    <3>2. stack[k].block \in Internal
      BY <3>1 DEF IInv, FramesOwn
    <3>3. GoodFrame(code, Leaders, blocks[stack[k].block].start,
                    blocks[stack[k].block].end, stack[k])
      BY <3>1 DEF CInv
    <3>4. GoodFrame(code, Leaders', blocks[stack[k].block].start,
                    blocks[stack[k].block].end, stack[k])
      BY <1>5, <3>3, MoreLeaders
    <3>. QED  BY <1>6, <3>1, <3>2, <3>4
  <2>. QED  BY <2>2, <2>3, <2>4
<1>9. ASSUME NEW i \in Finished'
      PROVE  GoodBlock(code, Leaders', blocks'[i].start, blocks'[i].end)
  <2>1. i \in Internal' /\ i \notin Scanning'
    BY DEF Finished
  <2>2. i \in Internal
    BY <1>5, <2>1 DEF NewTended
  <2>3. CASE i = Top.block
    <3>1. Len(stack') < n
      <4>1. ASSUME Len(stack') >= n
            PROVE  FALSE
        <5>1. n \in 1..Len(stack')
          BY <1>2, <4>1
        <5>2. stack'[n].block = i
          BY <1>1, <2>3, <4>1
        <5>. QED  BY <1>3, <2>1, <5>1, <5>2 DEF Scanning
      <4>. QED  BY <1>2, <4>1
    <3>. QED  BY <1>1, <2>3, <3>1 DEF TopSettled
  <2>4. CASE i # Top.block
    <3>1. i \notin Scanning
      <4>. SUFFICES ASSUME NEW k \in DOMAIN stack, stack[k].block = i PROVE FALSE
        BY DEF Scanning
      <4>1. k \in 1..n /\ k # n
        BY <1>2, <1>3, <2>4
      <4>2. k \in 1..(n - 1) /\ k \in 1..Len(stack')
        BY <1>2, <4>1
      <4>3. stack'[k].block = i /\ k \in DOMAIN stack'
        BY <1>3, <1>4, <4>2
      <4>. QED  BY <2>1, <4>3 DEF Scanning
    <3>2. GoodBlock(code, Leaders, blocks[i].start, blocks[i].end)
      BY <2>2, <3>1 DEF CInv, Finished
    <3>3. GoodBlock(code, Leaders', blocks[i].start, blocks[i].end)
      BY <1>5, <3>2, MoreLeaders
    <3>. QED  BY <1>6, <2>2, <2>4, <3>3
  <2>. QED  BY <2>3, <2>4
<1>. QED  BY <1>4, <1>7, <1>8, <1>9 DEF CInv

(* What CInv says of the activation at work.                               *)
LEMMA TopGood ==
    ASSUME IInv, CInv, stack # <<>>
    PROVE  /\ Top.block \in Internal
           /\ Top.pc \in Nat
           /\ blocks[Top.block].start \in Nat
           /\ blocks[Top.block].start \in Leaders
           /\ blocks[Top.block].start <= Top.pc
           /\ GoodFrame(code, Leaders, blocks[Top.block].start, blocks[Top.block].end, Top)
<1>1. PICK n : n = Len(stack)
  OBVIOUS
<1>2. /\ n \in Nat \ {0} /\ DOMAIN stack = 1..n
      /\ DOMAIN blocks = 1..Len(blocks)
      /\ Top \in Frame /\ Top = stack[n]
      /\ Top.block \in 1..Len(blocks)
      /\ blocks[Top.block] \in Block
      /\ blocks[Top.block].type = "INTERNAL"
      /\ blocks[Top.block].start <= Top.pc
  BY <1>1, AtTop DEF Top
<1>3. n \in 1..n
  BY <1>2
<1>4. Top.block \in Internal
  BY <1>2 DEF Internal
<1>5. GoodFrame(code, Leaders, blocks[Top.block].start, blocks[Top.block].end, Top)
  BY <1>2, <1>3 DEF CInv
<1>. QED  BY <1>2, <1>4, <1>5 DEF Frame, Block, Leaders

(* The block of the top activation after a step.                           *)
LEMMA TopMoves ==
    ASSUME IInv, stack # <<>>, NEW e, Moves(e)
    PROVE  /\ blocks'[Top.block].start = blocks[Top.block].start
           /\ blocks'[Top.block].end = e
           /\ code' = code
BY AtTop DEF Moves, KeepsBlocks

(* A step that leaves the stack as high as it is, and makes no block in    *)
(* the function.                                                           *)
LEMMA StaysCInv ==
    ASSUME IInv, CInv, stack # <<>>, NEW e \in Nat, Moves(e), NEW f, Stays(f),
           status = "running", f.block = Top.block,
           \/ Len(blocks') = Len(blocks)
           \/ Len(blocks') = Len(blocks) + 1 /\ blocks'[Len(blocks) + 1].type # "INTERNAL",
           GoodFrame(code, Leaders', blocks[Top.block].start, e, f)
    PROVE  CInv'
<1>1. Len(stack) \in Nat \ {0} /\ Len(blocks) \in Nat
  BY AtTop
<1>2. Len(stack') = Len(stack) /\ stack'[Len(stack)] = f /\ status' = "running"
  BY DEF Stays
<1>3. GoodTop
  <2>1. DOMAIN stack' = 1..Len(stack')
    BY LenProperties DEF Moves, KeepsCallers
  <2>2. Len(stack) + 1 \notin 1..Len(stack')
    BY <1>1, <1>2
  <2>. QED  BY <1>2, <2>1, <2>2, TopMoves DEF GoodTop
<1>4. NewTended
  <2>1. CASE Len(blocks') = Len(blocks)
    <3>1. Len(blocks) + 1 \notin 1..Len(blocks')
      BY <1>1, <2>1
    <3>2. DOMAIN blocks' = 1..Len(blocks')
      BY LenProperties DEF Moves, KeepsBlocks
    <3>. QED  BY <3>1, <3>2 DEF NewTended, Internal
  <2>2. CASE blocks'[Len(blocks) + 1].type # "INTERNAL"
    BY <2>2 DEF NewTended, Internal
  <2>. QED  BY <2>1, <2>2
<1>5. TopSettled
  BY <1>1, <1>2 DEF TopSettled
<1>. QED  BY <1>1, <1>2, <1>3, <1>4, <1>5, KeepsCInv

(* A step that ends the top activation.                                    *)
LEMMA ReturnsCInv ==
    ASSUME IInv, CInv, stack # <<>>, NEW e \in Nat, Moves(e), Returns,
           Len(blocks') = Len(blocks),
           GoodBlock(code, Leaders, blocks[Top.block].start, e)
    PROVE  CInv'
<1>1. Len(stack) \in Nat \ {0} /\ Len(blocks) \in Nat
  BY AtTop
<1>2. Len(stack') = Len(stack) - 1 /\ stack' \in Seq(Frame)
  BY DEF Returns, Moves, KeepsCallers
<1>3. GoodTop
  <2>1. DOMAIN stack' = 1..Len(stack')
    BY <1>2, LenProperties
  <2>2. Len(stack) \notin 1..Len(stack') /\ Len(stack) + 1 \notin 1..Len(stack')
    BY <1>1, <1>2
  <2>. QED  BY <2>1, <2>2 DEF GoodTop
<1>4. NewTended
  <2>1. Len(blocks) + 1 \notin 1..Len(blocks')
    BY <1>1
  <2>2. DOMAIN blocks' = 1..Len(blocks')
    BY LenProperties DEF Moves, KeepsBlocks
  <2>. QED  BY <2>1, <2>2 DEF NewTended, Internal
<1>5. TopSettled
  <2>1. Leaders \subseteq Leaders'
    BY LeadersGrow DEF Moves
  <2>. QED  BY <2>1, TopMoves, MoreLeaders DEF TopSettled
<1>6. status' = "done" => stack' = <<>>
  <2>1. status' = "done" => Len(stack') = 0
    BY <1>1, <1>2 DEF Returns
  <2>. QED  BY <1>2, <2>1, EmptySeq
<1>7. ~(Len(stack') >= Len(stack))
  BY <1>1, <1>2
<1>. QED  BY <1>1, <1>2, <1>3, <1>4, <1>5, <1>6, <1>7, KeepsCInv

(* A block that is made and entered adds its position to the leaders.      *)
LEMMA NewLeader ==
    ASSUME IInv, stack # <<>>, NEW e, Moves(e), NEW target, NEW f, EntersNew(target, f)
    PROVE  Leaders' = Leaders \cup {target}
<1>1. PICK n : n = Len(blocks) + 1
  OBVIOUS
<1>2. n \in 1..n
  BY <1>1, AtTop
<1>3. blocks'[n].start = target /\ blocks'[n].type = "INTERNAL" /\ Len(blocks') = n
  BY <1>1 DEF EntersNew, NewBlock
<1>4. n \in Internal'
  BY <1>2, <1>3, LenProperties DEF Moves, KeepsBlocks, Internal
<1>5. Leaders \subseteq Leaders' /\ Leaders' \subseteq Leaders \cup {target}
  BY <1>1, <1>3, LeadersGrow DEF Moves
<1>. QED  BY <1>3, <1>4, <1>5 DEF Leaders

(* tryCreateSuccessorInternal: the top activation has dealt with target.   *)
LEMMA EnterCInv ==
    ASSUME IInv, CInv, stack # <<>>, status = "running",
           NEW target \in Nat, target <= Length,
           NEW phase \in {"branched", "returned"},
           Enter(target, phase), UNCHANGED <<code, status>>,
           Top.pc < Length, IsBranch(code[Top.pc]),
           Leads(code[Top.pc], Leaders \cup {target}),
           phase = "returned" => target = Top.pc + 1
    PROVE  CInv'
<1>1. PICK f : f = [Top EXCEPT !.phase = phase]
  OBVIOUS
<1>2. Moves(Top.pc) /\ (EntersOld(target, f) \/ EntersNew(target, f))
  BY <1>1, EnterMoves
<1>3. /\ Top.pc \in Nat /\ blocks[Top.block].start \in Nat
      /\ GoodFrame(code, Leaders, blocks[Top.block].start, blocks[Top.block].end, Top)
  BY TopGood
<1>4. Top \in Frame /\ Len(stack) \in Nat \ {0} /\ Len(blocks) \in Nat
  BY AtTop
<1>5. f.block = Top.block /\ f.pc = Top.pc /\ f.phase = phase
  BY <1>1, <1>4 DEF Frame
<1>6. target \in Leaders' /\ Leaders \subseteq Leaders'
  <2>1. Leaders \subseteq Leaders'
    BY <1>2, LeadersGrow DEF Moves, EntersOld, EntersNew
  <2>. QED  BY <1>2, <2>1, NewLeader DEF EntersOld
<1>7. GoodFrame(code, Leaders', blocks[Top.block].start, Top.pc, f)
  BY <1>3, <1>5, <1>6 DEF GoodFrame, Leads
<1>8. CASE EntersOld(target, f)
  BY <1>2, <1>3, <1>5, <1>7, <1>8, StaysCInv DEF EntersOld
<1>9. CASE EntersNew(target, f)
  <2>1. PICK n : n = Len(blocks) + 1
    OBVIOUS
  <2>2. PICK g : g = [block |-> n, pc |-> target, phase |-> "scan"]
    OBVIOUS
  <2>3. /\ Len(blocks') = n
        /\ blocks'[n].start = target /\ blocks'[n].end = target
        /\ Len(stack') = Len(stack) + 1 /\ stack'[Len(stack)] = f
        /\ stack'[Len(stack) + 1] = g /\ status' = "running"
    BY <1>9, <2>1, <2>2 DEF EntersNew, NewBlock
  <2>4. GoodFrame(code, Leaders', target, target, g)
    <3>1. RunsTo(code, target, target)
      BY LengthAssumption DEF RunsTo, Positions
    <3>. QED  BY <2>2, <3>1 DEF GoodFrame
  <2>5. DOMAIN stack' = 1..(Len(stack) + 1)
    BY <1>2, <2>3, LenProperties DEF Moves, KeepsCallers
  <2>6. GoodTop
    BY <1>2, <1>5, <1>7, <2>2, <2>3, <2>4, TopMoves DEF GoodTop
  <2>7. NewTended
    <3>1. Len(stack) + 1 \in 1..(Len(stack) + 1)
      BY <1>4
    <3>2. n \in Scanning'
      BY <2>2, <2>3, <2>5, <3>1 DEF Scanning
    <3>. QED  BY <2>1, <2>3, <3>2 DEF NewTended
  <2>8. TopSettled
    BY <1>4, <2>3 DEF TopSettled
  <2>. QED  BY <1>2, <1>3, <1>5, <2>1, <2>3, <2>6, <2>7, <2>8, KeepsCInv
<1>. QED  BY <1>2, <1>8, <1>9

(* An instruction that is not a branch.                                    *)
LEMMA ScanPlainCInv == IInv /\ CInv /\ ScanPlain => CInv'
<1>. SUFFICES ASSUME IInv, CInv, ScanPlain PROVE CInv'
  OBVIOUS
<1>1. /\ stack # <<>> /\ status = "running" /\ Top.phase = "scan"
      /\ Top.pc < Length /\ ~IsBranch(code[Top.pc]) /\ code' = code
  BY DEF ScanPlain, At
<1>2. PICK start : start = blocks[Top.block].start
  OBVIOUS
<1>3. /\ Top.pc \in Nat /\ start \in Nat /\ start <= Top.pc
      /\ RunsTo(code, start, Top.pc) /\ blocks[Top.block].end = start
  BY <1>1, <1>2, TopGood DEF GoodFrame
<1>4. Top \in Frame /\ TypeOK
  BY <1>1, AtTop DEF IInv
<1>5. PICK next : next = findInternalBlockByPosition(Top.pc + 1)
  OBVIOUS
<1>6. CASE next # 0 /\ createSuccessorFallthrough(Top.block, Top.pc, next) /\ Return
  <2>1. next \in 1..Len(blocks) /\ blocks[next].start = Top.pc + 1 /\ blocks[next].type = "INTERNAL"
    BY <1>4, <1>5, <1>6, FindInternal
  <2>2. Top.pc + 1 \in Leaders
    BY <1>4, <2>1, LenProperties DEF TypeOK, Leaders, Internal
  <2>3. GoodBlock(code, Leaders, start, Top.pc)
    BY <1>1, <1>3, <2>2, LengthAssumption DEF GoodBlock, Positions
  <2>4. Moves(Top.pc) /\ Len(blocks') = Len(blocks) /\ Returns
    BY <1>1, <1>6, <2>1, FallMoves
  <2>. QED  BY <1>1, <1>2, <1>3, <2>3, <2>4, ReturnsCInv
<1>7. CASE stack' = SetTop([Top EXCEPT !.pc = @ + 1]) /\ UNCHANGED <<graph, status>>
  <2>1. PICK f : f = [Top EXCEPT !.pc = @ + 1]
    OBVIOUS
  <2>2. f \in Frame /\ f.block = Top.block /\ f.pc = Top.pc + 1 /\ f.phase = "scan"
    BY <1>1, <1>3, <1>4, <2>1 DEF Frame
  <2>3. Moves(start) /\ Len(blocks') = Len(blocks) /\ Stays(f)
    BY <1>1, <1>3, <1>7, <2>1, <2>2, AdvanceMoves
  <2>4. RunsTo(code, start, Top.pc + 1)
    BY <1>1, <1>3, LengthAssumption DEF RunsTo, Positions
  <2>5. GoodFrame(code, Leaders', start, start, f)
    BY <1>1, <1>3, <2>2, <2>4, LengthAssumption DEF GoodFrame
  <2>. QED  BY <1>1, <1>2, <1>3, <2>2, <2>3, <2>5, StaysCInv
<1>. QED  BY <1>5, <1>6, <1>7 DEF ScanPlain

(* The end of the function: no instruction of the block branches.          *)
LEMMA RunOffEndCInv == IInv /\ CInv /\ RunOffEnd => CInv'
<1>. SUFFICES ASSUME IInv, CInv, RunOffEnd PROVE CInv'
  OBVIOUS
<1>1. stack # <<>> /\ WritesFlags /\ Top.phase = "scan" /\ Top.pc >= Length
  BY RunOffEndFlags DEF RunOffEnd, At
<1>2. PICK start : start = blocks[Top.block].start
  OBVIOUS
<1>3. /\ Top.pc \in Nat /\ start \in Nat
      /\ RunsTo(code, start, Top.pc) /\ blocks[Top.block].end = start
  BY <1>1, <1>2, TopGood DEF GoodFrame
<1>4. \A q \in Positions : q < Top.pc
  BY <1>1, <1>3, LengthAssumption DEF Positions
<1>5. RunsTo(code, start, start)
  BY <1>3, LengthAssumption DEF RunsTo, Positions
<1>6. GoodBlock(code, Leaders, start, start)
  BY <1>3, <1>4, <1>5 DEF GoodBlock, RunsTo
<1>7. Moves(start) /\ Len(blocks') = Len(blocks) /\ Returns
  BY <1>1, <1>2, <1>3, FlagsMove
<1>. QED  BY <1>1, <1>2, <1>3, <1>6, <1>7, ReturnsCInv

(* A branch: its target, or the placeholder, or the exception.             *)
LEMMA StopCInv ==
    ASSUME CInv, status' # "done" \/ status' = status, UNCHANGED <<code, blocks, psTable, stack>>
    PROVE  CInv'
<1>1. Internal' = Internal /\ Scanning' = Scanning /\ Leaders' = Leaders
  BY DEF Internal, Scanning, Leaders
<1>2. Finished' = Finished
  BY <1>1 DEF Finished
<1>. QED  BY <1>1, <1>2 DEF CInv

LEMMA PlaceholderCInv ==
    ASSUME IInv, CInv, stack # <<>>, status = "running", Top.phase = "scan",
           Top.pc < Length, IsBranch(code[Top.pc]),
           Leads(code[Top.pc], {}),
           NEW type \in {"EXTERNAL", "RUNTIME"},
           LinkNew(Top.block, Top.pc, NewBlock(Top.pc, type)),
           stack' = SetTop([Top EXCEPT !.phase = "branched"]), UNCHANGED <<code, status>>
    PROVE  CInv'
<1>1. PICK f : f = [Top EXCEPT !.phase = "branched"]
  OBVIOUS
<1>2. Top \in Frame
  BY AtTop
<1>3. f.block = Top.block /\ f.pc = Top.pc /\ f.phase = "branched"
  BY <1>1, <1>2 DEF Frame
<1>4. /\ Top.pc \in Nat
      /\ GoodFrame(code, Leaders, blocks[Top.block].start, blocks[Top.block].end, Top)
  BY TopGood
<1>5. GoodFrame(code, Leaders', blocks[Top.block].start, Top.pc, f)
  BY <1>3, <1>4 DEF GoodFrame, Leads
<1>6. Moves(Top.pc) /\ Places(f)
  BY <1>1, PlaceholderMoves
<1>. QED  BY <1>3, <1>4, <1>5, <1>6, StaysCInv DEF Places

LEMMA HandleBranchCInv == IInv /\ CInv /\ HandleBranch => CInv'
<1>. SUFFICES ASSUME IInv, CInv, HandleBranch PROVE CInv'
  OBVIOUS
<1>1. /\ stack # <<>> /\ status = "running" /\ Top.phase = "scan"
      /\ Top.pc < Length /\ HasTarget(code[Top.pc]) /\ IsBranch(code[Top.pc])
  BY DEF HandleBranch, At, IsBranch
<1>2. PICK target : target = code[Top.pc].target
  OBVIOUS
<1>3. CASE target \in Positions /\ Enter(target, "branched") /\ UNCHANGED <<code, status>>
  <2>1. target \in Nat /\ target <= Length
    BY <1>3, LengthAssumption DEF Positions
  <2>2. Leads(code[Top.pc], Leaders \cup {target})
    BY <1>2 DEF Leads
  <2>. QED  BY <1>1, <1>2, <1>3, <2>1, <2>2, EnterCInv
<1>4. CASE /\ target = External
           /\ LinkNew(Top.block, Top.pc, NewBlock(Top.pc, "EXTERNAL"))
           /\ stack' = SetTop([Top EXCEPT !.phase = "branched"])
           /\ UNCHANGED <<code, status>>
  <2>1. Leads(code[Top.pc], {})
    BY <1>2, <1>4 DEF Leads
  <2>. QED  BY <1>1, <1>2, <1>4, <2>1, PlaceholderCInv
<1>5. CASE Stop("threw")
  BY <1>5, StopCInv DEF Stop
<1>. QED  BY <1>2, <1>3, <1>4, <1>5 DEF HandleBranch

LEMMA RuntimeBranchCInv == IInv /\ CInv /\ RuntimeBranch => CInv'
<1>. SUFFICES ASSUME IInv, CInv, RuntimeBranch PROVE CInv'
  OBVIOUS
<1>1. /\ stack # <<>> /\ status = "running" /\ Top.phase = "scan" /\ Top.pc < Length
      /\ IsBranch(code[Top.pc]) /\ Leads(code[Top.pc], {})
  BY DEF RuntimeBranch, At, IsBranch, HasTarget, AtRuntime, Leads
<1>. QED  BY <1>1, PlaceholderCInv DEF RuntimeBranch

(* The instruction after a branch.                                         *)
LEMMA AfterBranchCInv == IInv /\ CInv /\ AfterBranch => CInv'
<1>. SUFFICES ASSUME IInv, CInv, AfterBranch PROVE CInv'
  OBVIOUS
<1>1. stack # <<>> /\ status = "running" /\ Top.phase = "branched"
  BY DEF AfterBranch, At
<1>2. /\ Top.pc \in Nat /\ Top.pc < Length /\ IsBranch(code[Top.pc])
      /\ Leads(code[Top.pc], Leaders)
  BY <1>1, TopGood DEF GoodFrame
<1>3. CASE Stop("aborted")
  BY <1>3, StopCInv DEF Stop
<1>4. CASE Enter(Top.pc + 1, "returned") /\ UNCHANGED <<code, status>>
  <2>1. Top.pc + 1 \in Nat /\ Top.pc + 1 <= Length
    BY <1>2, LengthAssumption
  <2>2. Leads(code[Top.pc], Leaders \cup {Top.pc + 1})
    BY <1>2 DEF Leads
  <2>. QED  BY <1>1, <1>2, <1>4, <2>1, <2>2, EnterCInv
<1>. QED  BY <1>3, <1>4 DEF AfterBranch

(* The ends of a block: all its branch leads to has been dealt with.       *)
LEMMA FlagsCInv ==
    ASSUME IInv, CInv, stack # <<>>, WritesFlags, Top.phase # "scan",
           ComesBack(code[Top.pc]) => Top.phase = "returned"
    PROVE  CInv'
<1>1. PICK start : start = blocks[Top.block].start
  OBVIOUS
<1>2. /\ Top.pc \in Nat /\ Top.pc < Length /\ IsBranch(code[Top.pc])
      /\ Leads(code[Top.pc], Leaders)
      /\ Top.phase = "returned" => Top.pc + 1 \in Leaders
      /\ RunsTo(code, start, Top.pc) /\ blocks[Top.block].end = Top.pc
  BY <1>1, TopGood DEF GoodFrame
<1>3. BranchSuccs(code, Top.pc) \subseteq Leaders
  BY <1>2, LengthAssumption DEF BranchSuccs, Leads, External, Positions
<1>4. GoodBlock(code, Leaders, start, Top.pc)
  BY <1>2, <1>3, LengthAssumption DEF GoodBlock, Positions
<1>5. Moves(Top.pc) /\ Len(blocks') = Len(blocks) /\ Returns
  BY <1>2, FlagsMove
<1>. QED  BY <1>1, <1>2, <1>4, <1>5, ReturnsCInv

LEMMA EndCallCInv == IInv /\ CInv /\ EndCall => CInv'
BY EndCallFlags, FlagsCInv DEF EndCall, At

LEMMA EndBlockCInv == IInv /\ CInv /\ EndBlock => CInv'
BY EndBlockFlags, FlagsCInv DEF EndBlock, At

LEMMA InitCInv == Init => CInv
<1>. SUFFICES ASSUME Init PROVE CInv
  OBVIOUS
<1>1. PICK b : b = NewBlock(0, "INTERNAL")
  OBVIOUS
<1>2. b.start = 0 /\ b.end = 0 /\ b.type = "INTERNAL"
  BY <1>1 DEF NewBlock
<1>3. PICK f : f = [block |-> 1, pc |-> 0, phase |-> "scan"]
  OBVIOUS
<1>4. blocks = <<b>> /\ stack = <<f>> /\ status = "running"
  <2>1. Append(<<>>, f) = <<f>>
    OBVIOUS
  <2>. QED  BY <1>1, <1>3, <2>1 DEF Init, Call
<1>5. DOMAIN blocks = {1} /\ blocks[1] = b /\ DOMAIN stack = {1} /\ stack[1] = f
  BY <1>4
<1>6. Internal = {1} /\ Scanning = {1}
  BY <1>2, <1>3, <1>5 DEF Internal, Scanning
<1>7. RunsTo(code, 0, 0)
  BY LengthAssumption DEF RunsTo, Positions
<1>8. GoodFrame(code, Leaders, 0, 0, f)
  BY <1>3, <1>7, LengthAssumption DEF GoodFrame
<1>. QED
  BY <1>2, <1>3, <1>4, <1>5, <1>6, <1>8, LengthAssumption DEF CInv, Finished

----------------------------------------------------------------------------
(* Every step keeps CInv.                                                  *)
LEMMA StepCInv == IInv /\ CInv /\ [Next]_vars => CInv'
<1>. SUFFICES ASSUME IInv, CInv, [Next]_vars PROVE CInv'
  OBVIOUS
<1>1. CASE ScanPlain
  BY <1>1, ScanPlainCInv
<1>2. CASE RunOffEnd
  BY <1>2, RunOffEndCInv
<1>3. CASE HandleBranch
  BY <1>3, HandleBranchCInv
<1>4. CASE RuntimeBranch
  BY <1>4, RuntimeBranchCInv
<1>5. CASE AfterBranch
  BY <1>5, AfterBranchCInv
<1>6. CASE EndCall
  BY <1>6, EndCallCInv
<1>7. CASE EndBlock
  BY <1>7, EndBlockCInv
<1>8. CASE UNCHANGED vars
  BY <1>8, StopCInv DEF vars
<1>. QED  BY <1>1, <1>2, <1>3, <1>4, <1>5, <1>6, <1>7, <1>8 DEF Next, Terminated

(* Whatever the function, and in both builds, the analysis keeps CInv: its *)
(* activations and finished blocks are where the code says.                *)
THEOREM Tended == Spec => []CInv
<1>1. IInv /\ CInv /\ [Next]_vars => CInv'
  BY StepCInv
<1>. QED  BY <1>1, InitCInv, Inductive, PTL DEF Spec

(* Control that starts a finished block leaves it at its end and nowhere   *)
(* before: no branch is inside a block.                                    *)
THEOREM StraightBlocks == Spec => []BlocksStraight
<1>1. CInv => BlocksStraight
  BY DEF CInv, BlocksStraight, GoodBlock
<1>. QED  BY <1>1, Tended, PTL

(* functionCFA never recurses into a block it is already in, so it is      *)
(* never deeper than the function has places for a block to start: one for *)
(* each instruction, and one behind the last.                              *)
THEOREM RecursionStaysBounded == Spec => []RecursionBounded
<1>1. ASSUME IInv, CInv
      PROVE  RecursionBounded
  <2>1. \A k, m \in DOMAIN stack : stack[k].block = stack[m].block => k = m
    BY <1>1 DEF IInv, FramesOwn
  <2>2. Len(stack) \in Nat /\ DOMAIN stack = 1..Len(stack)
    BY <1>1, LenProperties DEF IInv, TypeOK
  <2>3. PICK start : start = [k \in DOMAIN stack |-> blocks[stack[k].block].start]
    OBVIOUS
  <2>4. \A k \in DOMAIN stack : stack[k].block \in Internal
    BY <1>1 DEF IInv, FramesOwn
  <2>5. \A i \in Internal : blocks[i].start \in 0..Length
    <3>. SUFFICES ASSUME NEW i \in Internal PROVE blocks[i].start \in 0..Length
      OBVIOUS
    <3>1. blocks[i] \in Block
      BY <1>1, ElementOfSeq, LenProperties DEF Internal, IInv, TypeOK
    <3>2. blocks[i].start \in Nat /\ blocks[i].start <= Length
      BY <1>1, <3>1 DEF CInv, Block
    <3>. QED  BY <3>2, LengthAssumption
  <2>6. start \in [1..Len(stack) -> 0..Length]
    BY <2>2, <2>3, <2>4, <2>5
  <2>7. \A k, m \in DOMAIN stack : start[k] = start[m] => k = m
    BY <1>1, <2>1, <2>3, <2>4 DEF IInv, UniqueStarts
  <2>8. start \in Injection(1..Len(stack), 0..Length)
    BY <2>2, <2>6, <2>7 DEF Injection, IsInjective
  <2>9. \A n \in Nat : Cardinality(1..n) = n
    <3>. SUFFICES ASSUME NEW n \in Nat PROVE Cardinality(1..n) = n
      OBVIOUS
    <3>1. Cardinality(1..n) = IF 1 > n THEN 0 ELSE n - 1 + 1
      BY FS_Interval
    <3>. QED  BY <3>1
  <2>10. IsFiniteSet(0..Length) /\ Cardinality(0..Length) = Length + 1
    <3>1. /\ IsFiniteSet(0..Length)
          /\ Cardinality(0..Length) = IF 0 > Length THEN 0 ELSE Length - 0 + 1
      BY LengthAssumption, FS_Interval
    <3>. QED  BY <3>1, LengthAssumption
  <2>11. Cardinality(1..Len(stack)) <= Cardinality(0..Length)
    BY <2>8, <2>10, FS_Injection
  <2>12. Len(stack) <= Length + 1
    BY <2>2, <2>9, <2>10, <2>11
  <2>. QED  BY <2>1, <2>12 DEF RecursionBounded
<1>. QED  BY <1>1, Inductive, Tended, PTL

----------------------------------------------------------------------------
(* Every step ends the analysis without an answer, or goes on with it: it  *)
(* makes a block where the branch of the top activation leads, or none in  *)
(* the function.                                                           *)
GivesUp == status = "running" /\ (Stop("threw") \/ Stop("aborted"))
Grows ==
    /\ Top.pc < Length /\ IsBranch(code[Top.pc])
    /\ \E target \in BranchSuccs(code, Top.pc), f \in Frame : EntersNew(target, f)
Keeps ==
    /\ \/ Len(blocks') = Len(blocks)
       \/ Len(blocks') = Len(blocks) + 1 /\ blocks'[Len(blocks) + 1].type # "INTERNAL"
    /\ status' = status \/ Returns
Works ==
    /\ stack # <<>> /\ status = "running"
    /\ \E e \in Nat : Moves(e)
    /\ Grows \/ Keeps

LEMMA EnterWorks ==
    ASSUME IInv, CInv, stack # <<>>, status = "running",
           NEW target \in BranchSuccs(code, Top.pc), target \in Nat,
           NEW phase \in {"branched", "returned"},
           Enter(target, phase), UNCHANGED <<code, status>>,
           Top.pc < Length, IsBranch(code[Top.pc])
    PROVE  Works
<1>1. PICK f : f = [Top EXCEPT !.phase = phase]
  OBVIOUS
<1>2. Moves(Top.pc) /\ (EntersOld(target, f) \/ EntersNew(target, f))
  BY <1>1, EnterMoves
<1>3. f \in Frame
  BY <1>1, AtTop DEF Frame
<1>4. Top.pc \in Nat
  BY TopGood
<1>. QED  BY <1>2, <1>3, <1>4 DEF Works, Grows, Keeps, EntersOld, Stays

LEMMA FlagsWork ==
    ASSUME IInv, stack # <<>>, status = "running", WritesFlags
    PROVE  Works
BY FlagsMove, FlagsKeep DEF Works, Keeps

LEMMA PlaceholderWorks ==
    ASSUME IInv, CInv, stack # <<>>, status = "running", NEW type \in {"EXTERNAL", "RUNTIME"},
           LinkNew(Top.block, Top.pc, NewBlock(Top.pc, type)),
           stack' = SetTop([Top EXCEPT !.phase = "branched"]), UNCHANGED <<code, status>>
    PROVE  Works
<1>1. PICK f : f = [Top EXCEPT !.phase = "branched"]
  OBVIOUS
<1>2. Moves(Top.pc) /\ Places(f)
  BY <1>1, PlaceholderMoves
<1>3. Top.pc \in Nat
  BY TopGood
<1>. QED  BY <1>2, <1>3 DEF Works, Keeps, Places, Stays

LEMMA ScanPlainWorks == IInv /\ CInv /\ ScanPlain => Works
<1>. SUFFICES ASSUME IInv, CInv, ScanPlain PROVE Works
  OBVIOUS
<1>1. stack # <<>> /\ status = "running" /\ code' = code
  BY DEF ScanPlain, At
<1>2. Top.pc \in Nat /\ Top \in Frame /\ TypeOK /\ blocks[Top.block] \in Block
  BY <1>1, TopGood, AtTop DEF IInv
<1>3. PICK next : next = findInternalBlockByPosition(Top.pc + 1)
  OBVIOUS
<1>4. CASE next # 0 /\ createSuccessorFallthrough(Top.block, Top.pc, next) /\ Return
  <2>1. next \in 1..Len(blocks)
    BY <1>2, <1>3, <1>4, FindInternal
  <2>2. Moves(Top.pc) /\ Len(blocks') = Len(blocks) /\ Returns
    BY <1>1, <1>4, <2>1, FallMoves
  <2>. QED  BY <1>1, <1>2, <2>2 DEF Works, Keeps
<1>5. CASE stack' = SetTop([Top EXCEPT !.pc = @ + 1]) /\ UNCHANGED <<graph, status>>
  <2>1. PICK f : f = [Top EXCEPT !.pc = @ + 1]
    OBVIOUS
  <2>2. f \in Frame /\ f.block = Top.block
    BY <1>2, <2>1 DEF Frame
  <2>3. Moves(blocks[Top.block].end) /\ Len(blocks') = Len(blocks) /\ Stays(f)
    BY <1>1, <1>5, <2>1, <2>2, AdvanceMoves
  <2>4. blocks[Top.block].end \in Nat
    BY <1>2 DEF Block
  <2>. QED  BY <1>1, <2>3, <2>4 DEF Works, Keeps, Stays
<1>. QED  BY <1>3, <1>4, <1>5 DEF ScanPlain

LEMMA HandleBranchForms == IInv /\ CInv /\ HandleBranch => GivesUp \/ Works
<1>. SUFFICES ASSUME IInv, CInv, HandleBranch PROVE GivesUp \/ Works
  OBVIOUS
<1>1. /\ stack # <<>> /\ status = "running"
      /\ Top.pc < Length /\ HasTarget(code[Top.pc]) /\ IsBranch(code[Top.pc])
  BY DEF HandleBranch, At, IsBranch
<1>2. PICK target : target = code[Top.pc].target
  OBVIOUS
<1>3. CASE target \in Positions /\ Enter(target, "branched") /\ UNCHANGED <<code, status>>
  <2>1. target \in Nat
    BY <1>3, LengthAssumption DEF Positions
  <2>2. target \in BranchSuccs(code, Top.pc)
    BY <1>1, <1>2, <1>3 DEF BranchSuccs
  <2>. QED  BY <1>1, <1>3, <2>1, <2>2, EnterWorks
<1>4. CASE /\ LinkNew(Top.block, Top.pc, NewBlock(Top.pc, "EXTERNAL"))
           /\ stack' = SetTop([Top EXCEPT !.phase = "branched"])
           /\ UNCHANGED <<code, status>>
  BY <1>1, <1>4, PlaceholderWorks
<1>5. CASE Stop("threw")
  BY <1>1, <1>5 DEF GivesUp
<1>. QED  BY <1>2, <1>3, <1>4, <1>5 DEF HandleBranch

LEMMA AfterBranchForms == IInv /\ CInv /\ AfterBranch => GivesUp \/ Works
<1>. SUFFICES ASSUME IInv, CInv, AfterBranch PROVE GivesUp \/ Works
  OBVIOUS
<1>1. /\ stack # <<>> /\ status = "running" /\ Top.phase = "branched"
      /\ ComesBack(code[Top.pc])
  BY DEF AfterBranch, At
<1>2. Top.pc \in Nat /\ Top.pc < Length /\ IsBranch(code[Top.pc])
  BY <1>1, TopGood DEF GoodFrame
<1>3. CASE Stop("aborted")
  BY <1>1, <1>3 DEF GivesUp
<1>4. CASE Enter(Top.pc + 1, "returned") /\ UNCHANGED <<code, status>>
  <2>1. Top.pc + 1 \in BranchSuccs(code, Top.pc) /\ Top.pc + 1 \in Nat
    BY <1>1, <1>2 DEF BranchSuccs
  <2>. QED  BY <1>1, <1>2, <1>4, <2>1, EnterWorks
<1>. QED  BY <1>3, <1>4 DEF AfterBranch

LEMMA StepForms == IInv /\ CInv /\ Next => UNCHANGED vars \/ GivesUp \/ Works
<1>1. IInv /\ RunOffEnd => Works
  BY RunOffEndFlags, FlagsWork DEF RunOffEnd, At
<1>2. IInv /\ EndCall => Works
  BY EndCallFlags, FlagsWork DEF EndCall, At
<1>3. IInv /\ EndBlock => Works
  BY EndBlockFlags, FlagsWork DEF EndBlock, At
<1>4. IInv /\ CInv /\ RuntimeBranch => Works
  BY PlaceholderWorks DEF RuntimeBranch, At
<1>. QED
  BY <1>1, <1>2, <1>3, <1>4, ScanPlainWorks, HandleBranchForms, AfterBranchForms
  DEF Next, Terminated

(* The activation that created a block is the only one that writes it:     *)
(* once it has returned, neither the block nor its successors change, and  *)
(* no activation is ever in it again.                                      *)
THEOREM Frozen == Spec => FinishedFrozen
<1> DEFINE A == \A i \in Finished :
                    /\ blocks'[i] = blocks[i]
                    /\ psTable'[i].succ = psTable[i].succ
                    /\ i \notin {stack'[k].block : k \in DOMAIN stack'}
<1>1. ASSUME IInv, CInv, [Next]_vars
      PROVE  [A]_vars
  <2>1. CASE UNCHANGED vars
    BY <2>1
  <2>2. CASE GivesUp
    <3>1. UNCHANGED <<code, blocks, psTable, stack>>
      BY <2>2 DEF GivesUp, Stop
    <3>. QED  BY <3>1 DEF Finished, Scanning
  <2>3. CASE Works
    <3>1. stack # <<>> /\ Untouched /\ NoneResumed
      BY <2>3 DEF Works, Moves
    <3>. SUFFICES ASSUME NEW i \in Finished
                  PROVE  /\ blocks'[i] = blocks[i]
                         /\ psTable'[i].succ = psTable[i].succ
                         /\ i \notin {stack'[k].block : k \in DOMAIN stack'}
      OBVIOUS
    <3>2. PICK n : n = Len(blocks)
      OBVIOUS
    <3>3. n \in Nat /\ DOMAIN blocks = 1..n
      BY <1>1, <3>1, <3>2, AtTop
    <3>4. i \in 1..n /\ i \notin Scanning
      BY <3>3 DEF Finished, Internal
    <3>5. Top.block \in Scanning
      <4>1. PICK m : m = Len(stack)
        OBVIOUS
      <4>2. m \in Nat \ {0} /\ DOMAIN stack = 1..m
        BY <1>1, <3>1, <4>1, AtTop
      <4>3. m \in DOMAIN stack
        BY <4>2
      <4>. QED  BY <4>1, <4>3 DEF Scanning, Top
    <3>6. i # n + 1
      BY <3>3, <3>4
    <3>. QED  BY <3>1, <3>2, <3>4, <3>5, <3>6 DEF Untouched, NoneResumed
  <2>. QED  BY <1>1, <2>1, <2>2, <2>3, StepForms
<1>. QED  BY <1>1, Inductive, Tended, PTL DEF Spec, FinishedFrozen

----------------------------------------------------------------------------
(* The search of BlockDiscovery.                                           *)

(* Of the leaders from which control runs to a position, one is the last.  *)
LEMMA LastLeader ==
    ASSUME NEW L, L \subseteq Nat, NEW q \in Nat, NEW c, NEW l \in L, RunsTo(c, l, q)
    PROVE  \E m \in L : /\ RunsTo(c, m, q)
                        /\ \A x \in L : m < x => ~RunsTo(c, x, q)
<1> DEFINE D == {d \in Nat : q - d \in L /\ RunsTo(c, q - d, q)}
<1>1. \A x \in L : RunsTo(c, x, q) => q - x \in D
  <2>. SUFFICES ASSUME NEW x \in L, RunsTo(c, x, q) PROVE q - x \in D
    OBVIOUS
  <2>1. x \in Nat /\ x <= q
    BY DEF RunsTo
  <2>2. q - x \in Nat /\ q - (q - x) = x
    BY <2>1
  <2>. QED  BY <2>2
<1>2. First(D) \in D /\ \A d \in D : First(D) <= d
  BY <1>1, FirstIsLeast
<1>3. PICK d \in D : d = First(D)
  BY <1>2
<1>4. d \in Nat /\ q - d \in L /\ RunsTo(c, q - d, q)
  OBVIOUS
<1>5. ASSUME NEW x \in L, q - d < x
      PROVE  ~RunsTo(c, x, q)
  <2>1. x \in Nat
    OBVIOUS
  <2>2. q - x < d
    BY <1>4, <1>5, <2>1
  <2>3. RunsTo(c, x, q) => d <= q - x
    BY <1>1, <1>2, <1>3
  <2>4. q - x \in Int /\ d \in Int
    BY <1>4, <2>1
  <2> HIDE DEF D
  <2>. QED  BY <2>2, <2>3, <2>4
<1>. QED  BY <1>4, <1>5

(* What BlockDiscovery calls missing, in the words of this module.         *)
LEMMA MissingIs ==
    Discovery!Missing =
        (UNION {BranchSuccs(code, p) :
            p \in {q \in Positions : IsBranch(code[q]) /\ \E l \in Leaders : RunsTo(code, l, q)}})
        \ Leaders
<1>1. \A i : Discovery!IsBranch(i) = IsBranch(i)
  BY DEF Discovery!IsBranch, IsBranch, Discovery!HasTarget, HasTarget,
     Discovery!AtRuntime, AtRuntime
<1>2. Discovery!Positions = Positions
  BY DEF Discovery!Positions, Positions
<1>3. \A c, s, p : Discovery!RunsTo(c, s, p) = RunsTo(c, s, p)
  BY <1>1, <1>2 DEF Discovery!RunsTo, RunsTo
<1>4. \A c, p : Discovery!BranchSuccs(c, p) = BranchSuccs(c, p)
  BY <1>2 DEF Discovery!BranchSuccs, BranchSuccs, Discovery!HasTarget, HasTarget,
     Discovery!ComesBack, ComesBack
<1>. QED  BY <1>1, <1>2, <1>3, <1>4 DEF Discovery!Missing, Discovery!Reached, Leaders

(* When the outermost call has returned, nothing is missing: the last      *)
(* leader before a branch that control reaches is the start of the block   *)
(* that ends there.                                                        *)
NothingMissing ==
    stack = <<>> =>
        \A q \in Positions, l \in Leaders :
            IsBranch(code[q]) /\ RunsTo(code, l, q) => BranchSuccs(code, q) \subseteq Leaders

LEMMA CompleteAtEnd == IInv /\ CInv => NothingMissing
<1>. SUFFICES ASSUME IInv, CInv, stack = <<>>,
                     NEW q \in Positions, NEW l \in Leaders, RunsTo(code, l, q),
                     IsBranch(code[q])
              PROVE  BranchSuccs(code, q) \subseteq Leaders
  BY DEF NothingMissing
<1>1. \A i \in Internal : blocks[i].start \in Nat /\ blocks[i].end \in Nat
  <2>. SUFFICES ASSUME NEW i \in Internal PROVE blocks[i].start \in Nat /\ blocks[i].end \in Nat
    OBVIOUS
  <2>1. blocks[i] \in Block
    BY ElementOfSeq, LenProperties DEF Internal, IInv, TypeOK
  <2>. QED  BY <2>1 DEF Block
<1>2. q \in Nat /\ Leaders \subseteq Nat
  BY <1>1, LengthAssumption DEF Positions, Leaders
<1>3. PICK m \in Leaders : RunsTo(code, m, q) /\ \A x \in Leaders : m < x => ~RunsTo(code, x, q)
  BY <1>2, LastLeader
<1>4. PICK i \in Internal : m = blocks[i].start
  BY DEF Leaders
<1>5. Scanning = {}
  BY DEF Scanning
<1>6. PICK e : e = blocks[i].end
  OBVIOUS
<1>7. GoodBlock(code, Leaders, m, e)
  BY <1>4, <1>5, <1>6 DEF CInv, Finished
<1>8. m \in Nat /\ e \in Nat /\ m <= q /\ m <= e
  BY <1>1, <1>3, <1>4, <1>6, <1>7 DEF RunsTo, GoodBlock
<1>9. e <= q \/ ~(e \in Positions)
  BY <1>2, <1>7, <1>8 DEF GoodBlock, RunsTo
<1>10. CASE e \in Positions /\ IsBranch(code[e]) /\ BranchSuccs(code, e) \subseteq Leaders
  <2>1. ~(e < q)
    BY <1>3, <1>8, <1>10 DEF RunsTo
  <2>2. e = q
    BY <1>2, <1>8, <1>9, <1>10, <2>1
  <2>. QED  BY <1>10, <2>2
<1>11. CASE e \in Positions /\ ~IsBranch(code[e]) /\ e + 1 \in Leaders
  <2>1. e # q
    BY <1>11
  <2>2. e + 1 <= q /\ m < e + 1
    BY <1>2, <1>8, <1>9, <1>11, <2>1
  <2>3. RunsTo(code, e + 1, q)
    <3>1. \A p \in Positions : e + 1 <= p => m <= p
      BY <1>8, LengthAssumption DEF Positions
    <3>. QED  BY <1>3, <2>2, <3>1 DEF RunsTo
  <2>. QED  BY <1>3, <1>11, <2>2, <2>3
<1>12. CASE \A p \in Positions : m <= p => ~IsBranch(code[p])
  BY <1>8, <1>12
<1>. QED  BY <1>7, <1>10, <1>11, <1>12 DEF GoodBlock

(* A block that is made starts where the search misses a leader.           *)
LEMMA GrowsDiscovers ==
    ASSUME IInv, CInv, stack # <<>>, status = "running", NEW e, Moves(e), Grows
    PROVE  Discovery!Discover
<1>1. PICK target \in BranchSuccs(code, Top.pc), f \in Frame : EntersNew(target, f)
  BY DEF Grows
<1>2. Leaders' = Leaders \cup {target}
  BY <1>1, NewLeader
<1>3. /\ Top.pc \in Positions /\ IsBranch(code[Top.pc])
      /\ \E l \in Leaders : RunsTo(code, l, Top.pc)
  <2>1. /\ Top.pc \in Nat
        /\ blocks[Top.block].start \in Leaders
        /\ RunsTo(code, blocks[Top.block].start, Top.pc)
    BY TopGood DEF GoodFrame
  <2>. QED  BY <2>1, LengthAssumption DEF Grows, Positions
<1>4. target \in Discovery!Missing
  BY <1>1, <1>3, MissingIs DEF EntersNew
<1>5. code' = code /\ status' = status
  BY <1>1 DEF Moves, EntersNew
<1>. QED  BY <1>2, <1>4, <1>5 DEF Discovery!Discover, Leaders

(* The analysis implements the search: it starts as the search does, and   *)
(* each of its steps makes one leader that was missing, ends with none     *)
(* missing, gives up, or shows nothing.                                    *)
THEOREM Searches == Spec => Discovery!Init /\ [][Discovery!Next]_(Discovery!vars)
<1>1. Init => Discovery!Init
  <2>. SUFFICES ASSUME Init PROVE Discovery!Init
    OBVIOUS
  <2>1. Leaders = {0}
    BY DEF Init, NewBlock, Leaders, Internal
  <2>2. Discovery!Insn = Insn /\ Discovery!Positions = Positions
    BY DEF Discovery!Insn, Insn, Discovery!Kinds, Kinds, Discovery!Positions, Positions,
       Discovery!External, External, Discovery!Unresolved, Unresolved
  <2>3. code \in [Positions -> Insn]
    BY InsnsAssumption DEF Init
  <2>. QED  BY <2>1, <2>2, <2>3 DEF Init, Discovery!Init, Leaders
<1>2. ASSUME IInv, CInv, CInv', NothingMissing', [Next]_vars
      PROVE  [Discovery!Next]_(Discovery!vars)
  <2>1. CASE UNCHANGED vars
    BY <2>1 DEF vars, Discovery!vars, Internal
  <2>2. CASE GivesUp
    <3>1. /\ status = "running" /\ status' \in {"threw", "aborted"}
          /\ UNCHANGED <<code, blocks, psTable, stack>>
      BY <2>2 DEF GivesUp, Stop
    <3>2. Leaders' = Leaders
      BY <3>1 DEF Leaders, Internal
    <3>. QED  BY <3>1, <3>2 DEF Discovery!Next, Discovery!GiveUp, Leaders
  <2>3. CASE Works
    <3>1. PICK e \in Nat : Moves(e)
      BY <2>3 DEF Works
    <3>2. stack # <<>> /\ status = "running" /\ code' = code
      BY <2>3, <3>1 DEF Works, Moves
    <3>3. CASE Grows
      BY <1>2, <3>1, <3>2, <3>3, GrowsDiscovers DEF Discovery!Next
    <3>4. CASE Keeps
      <4>1. Leaders' = Leaders
        <5>1. CASE Len(blocks') = Len(blocks)
          <6>1. PICK n : n = Len(blocks)
            OBVIOUS
          <6>2. n \in Nat /\ DOMAIN blocks' = 1..n
            BY <1>2, <3>1, <3>2, <5>1, <6>1, AtTop, LenProperties DEF Moves, KeepsBlocks
          <6>3. n + 1 \notin DOMAIN blocks'
            BY <6>2
          <6>. QED  BY <1>2, <3>1, <3>2, <5>1, <6>1, <6>3, LeadersGrow DEF Moves, Internal
        <5>2. CASE Len(blocks') = Len(blocks) + 1 /\ blocks'[Len(blocks) + 1].type # "INTERNAL"
          BY <1>2, <3>1, <3>2, <5>2, LeadersGrow DEF Moves, Internal
        <5>. QED  BY <3>4, <5>1, <5>2 DEF Keeps
      <4>2. CASE status' = "done"
        <5>1. stack' = <<>>
          BY <1>2, <4>2 DEF CInv
        <5>2. \A q \in Positions, l \in Leaders :
                 IsBranch(code[q]) /\ RunsTo(code, l, q) => BranchSuccs(code, q) \subseteq Leaders
          BY <1>2, <3>2, <4>1, <5>1 DEF NothingMissing
        <5>3. Discovery!Missing = {}
          BY <5>2, MissingIs
        <5>. QED  BY <3>2, <4>1, <4>2, <5>3 DEF Discovery!Next, Discovery!Finish, Leaders
      <4>3. CASE status' = status
        BY <3>2, <4>1, <4>3 DEF Discovery!vars, Leaders
      <4>. QED  BY <3>2, <3>4, <4>2, <4>3 DEF Keeps, Returns
    <3>. QED  BY <2>3, <3>3, <3>4 DEF Works
  <2>. QED  BY <1>2, <2>1, <2>2, <2>3, StepForms
<1>. QED  BY <1>1, <1>2, CompleteAtEnd, Inductive, Tended, PTL DEF Spec

-----------------------------------------------------------------------------
(* The graph.                                                              *)

(* A sequence with one more element holds that one once more.              *)
LEMMA OccurrencesAppend ==
    ASSUME NEW S, NEW s \in Seq(S), NEW y \in S, NEW x
    PROVE  /\ Occurrences(s, x) \in Nat
           /\ Occurrences(Append(s, y), x)
                = IF x = y THEN Occurrences(s, x) + 1 ELSE Occurrences(s, x)
<1> DEFINE at(t) == {k \in DOMAIN t : t[k] = x}
           n == Len(s)
<1>1. n \in Nat /\ DOMAIN s = 1..n
  BY LenProperties
<1>2. /\ Append(s, y) \in Seq(S) /\ Len(Append(s, y)) = n + 1
      /\ \A k \in 1..n : Append(s, y)[k] = s[k]
      /\ Append(s, y)[n + 1] = y
  BY AppendProperties
<1>3. DOMAIN Append(s, y) = 1..(n + 1)
  BY <1>2, LenProperties
<1>4. IsFiniteSet(at(s))
  <2>1. IsFiniteSet(1..n)
    BY <1>1, FS_Interval
  <2>. QED  BY <1>1, <2>1, FS_Subset
<1>5. CASE x = y
  <2>1. at(Append(s, y)) = at(s) \cup {n + 1} /\ n + 1 \notin at(s)
    BY <1>1, <1>2, <1>3, <1>5
  <2> HIDE DEF at, n
  <2>2. Cardinality(at(s) \cup {n + 1}) = Cardinality(at(s)) + 1 /\ Cardinality(at(s)) \in Nat
    BY <1>4, <2>1, FS_AddElement, FS_CardinalityType
  <2>. QED  BY <1>5, <2>1, <2>2 DEF Occurrences, at
<1>6. CASE x # y
  <2>1. at(Append(s, y)) = at(s)
    BY <1>1, <1>2, <1>3, <1>6
  <2>. QED  BY <1>4, <1>6, <2>1, FS_CardinalityType DEF Occurrences
<1>. QED  BY <1>5, <1>6

(* What Link does to each row.                                             *)
LEMMA LinkRows ==
    ASSUME NEW t \in Seq(PSEntry), NEW from \in 1..Len(t), NEW to \in 1..Len(t),
           NEW i \in 1..Len(t)
    PROVE  /\ Link(t, from, to)[i].succ
                 = IF i = from THEN Append(t[i].succ, to) ELSE t[i].succ
           /\ Link(t, from, to)[i].pred
                 = IF i = to THEN Append(t[i].pred, from) ELSE t[i].pred
<1> DEFINE u == [t EXCEPT ![from].succ = Append(@, to)]
<1>1. DOMAIN t = 1..Len(t) /\ t[i] \in PSEntry
  BY ElementOfSeq, LenProperties
<1>2. u[i] = (IF i = from THEN [t[i] EXCEPT !.succ = Append(t[i].succ, to)] ELSE t[i])
      /\ DOMAIN u = DOMAIN t
  BY <1>1
<1>3. u[i].pred = t[i].pred
      /\ u[i].succ = (IF i = from THEN Append(t[i].succ, to) ELSE t[i].succ)
      /\ DOMAIN u[i] = {"pred", "succ"}
  BY <1>1, <1>2 DEF PSEntry
<1>4. Link(t, from, to) = [u EXCEPT ![to].pred = Append(@, from)]
  BY DEF Link
<1> HIDE DEF u
<1>5. Link(t, from, to)[i]
        = IF i = to THEN [u[i] EXCEPT !.pred = Append(u[i].pred, from)] ELSE u[i]
  BY <1>1, <1>2, <1>4
<1>. QED  BY <1>3, <1>5

-----------------------------------------------------------------------------
(* How a step changes the edges.                                           *)

(* The row of a block, empty while there is none.                          *)
Row(i) == IF i \in 1..Len(psTable) THEN psTable[i] ELSE EmptyEntry

AddsEdge(to) ==
    /\ Len(psTable') \in {Len(psTable), Len(psTable) + 1}
    /\ \A i \in 1..Len(psTable') :
          /\ psTable'[i].succ = IF i = Top.block THEN Append(Row(i).succ, to) ELSE Row(i).succ
          /\ psTable'[i].pred = IF i = to THEN Append(Row(i).pred, Top.block) ELSE Row(i).pred

(* Entering an edge in the table, also in one with one more row.           *)
LEMMA LinkAddsEdge ==
    ASSUME TypeOK, NEW t, t = psTable \/ t = Append(psTable, EmptyEntry),
           NEW to \in 1..Len(t), Top.block \in 1..Len(t),
           psTable' = Link(t, Top.block, to)
    PROVE  AddsEdge(to)
<1>1. psTable \in Seq(PSEntry) /\ Len(psTable) \in Nat
  BY LenProperties DEF TypeOK
<1>2. /\ t \in Seq(PSEntry) /\ Len(t) \in {Len(psTable), Len(psTable) + 1}
      /\ \A i \in 1..Len(t) : t[i] = Row(i)
  <2>1. CASE t = psTable
    BY <1>1, <2>1 DEF Row
  <2>2. CASE t = Append(psTable, EmptyEntry)
    <3>1. EmptyEntry \in PSEntry
      BY DEF EmptyEntry, PSEntry
    <3>2. /\ t \in Seq(PSEntry) /\ Len(t) = Len(psTable) + 1
          /\ \A i \in 1..Len(psTable) : t[i] = psTable[i]
          /\ t[Len(psTable) + 1] = EmptyEntry
      BY <1>1, <2>2, <3>1, AppendProperties
    <3>. QED  BY <1>1, <3>2 DEF Row
  <2>. QED  BY <2>1, <2>2
<1>3. Len(psTable') = Len(t)
  BY <1>2, LinkType
<1>. QED  BY <1>2, <1>3, LinkRows DEF AddsEdge

(* An edge to a block that is made with it.                                *)
LEMMA NewBlockAddsEdge ==
    ASSUME IInv, stack # <<>>, NEW nb \in Block, LinkNew(Top.block, Top.pc, nb)
    PROVE  AddsEdge(Len(blocks) + 1)
<1>1. /\ Len(blocks) \in Nat /\ Top.block \in 1..Len(blocks) /\ TypeOK
      /\ Len(psTable) \in Nat /\ Len(blocks) <= Len(psTable)
  BY AtTop, LenProperties DEF IInv, TypeOK, TableCovers
<1>2. PICK t : t = Append(psTable, EmptyEntry)
  OBVIOUS
<1>3. Len(t) = Len(psTable) + 1
  BY <1>1, <1>2 DEF TypeOK, EmptyEntry, PSEntry
<1>4. psTable' = Link(t, Top.block, Len(blocks) + 1)
  BY <1>2 DEF LinkNew
<1>5. Len(blocks) + 1 \in 1..Len(t) /\ Top.block \in 1..Len(t)
  BY <1>1, <1>3
<1>. QED  BY <1>1, <1>2, <1>4, <1>5, LinkAddsEdge

(* tryCreateSuccessorInternal: the edge leads to a block at the target.    *)
LEMMA EnterAddsEdge ==
    ASSUME IInv, stack # <<>>, NEW target \in Nat, NEW phase \in {"branched", "returned"},
           Enter(target, phase)
    PROVE  \E to \in 1..Len(blocks') :
              AddsEdge(to) /\ blocks'[to].start = target /\ blocks'[to].type = "INTERNAL"
<1>1. /\ Len(blocks) \in Nat /\ Top.block \in 1..Len(blocks) /\ TypeOK
      /\ Len(psTable) \in Nat /\ Len(blocks) <= Len(psTable)
  BY AtTop, LenProperties DEF IInv, TypeOK, TableCovers
<1>2. PICK t : t = Append(psTable, EmptyEntry)
  OBVIOUS
<1>3. Len(t) = Len(psTable) + 1
  BY <1>1, <1>2 DEF TypeOK, EmptyEntry, PSEntry
<1>4. PICK existing : existing = findInternalBlockByPosition(target)
  OBVIOUS
<1>5. CASE existing # 0 /\ LinkExisting(Top.block, Top.pc, existing)
  <2>1. /\ existing \in 1..Len(blocks)
        /\ blocks[existing].start = target /\ blocks[existing].type = "INTERNAL"
    BY <1>1, <1>4, <1>5, FindInternal
  <2>2. AddsEdge(existing)
    <3>1. psTable' = Link(t, Top.block, existing)
      BY <1>2, <1>5 DEF LinkExisting
    <3>2. existing \in 1..Len(t) /\ Top.block \in 1..Len(t)
      BY <1>1, <1>3, <2>1
    <3>. QED  BY <1>1, <1>2, <3>1, <3>2, LinkAddsEdge
  <2>3. KeepsBlocks(Top.pc) /\ Len(blocks') = Len(blocks)
    BY <1>5, <2>1, LinkOldStays
  <2>. QED  BY <2>1, <2>2, <2>3 DEF KeepsBlocks
<1>6. CASE LinkNew(Top.block, Top.pc, NewBlock(target, "INTERNAL"))
  <2>1. NewBlock(target, "INTERNAL") \in Block
    BY DEF NewBlock, Block, BlockTypes
  <2>2. Len(blocks') = Len(blocks) + 1
        /\ blocks'[Len(blocks) + 1] = NewBlock(target, "INTERNAL")
    BY <1>6, <2>1, LinkNewGrows
  <2>3. AddsEdge(Len(blocks) + 1)
    BY <1>6, <2>1, NewBlockAddsEdge
  <2>. QED  BY <1>1, <2>2, <2>3 DEF NewBlock
<1>. QED  BY <1>4, <1>5, <1>6 DEF Enter

LEMMA FallAddsEdge ==
    ASSUME IInv, stack # <<>>, NEW to \in 1..Len(blocks),
           createSuccessorFallthrough(Top.block, Top.pc, to)
    PROVE  AddsEdge(to)
<1>1. /\ Len(blocks) \in Nat /\ Top.block \in 1..Len(blocks) /\ TypeOK
      /\ Len(psTable) \in Nat /\ Len(blocks) <= Len(psTable)
  BY AtTop, LenProperties DEF IInv, TypeOK, TableCovers
<1>2. to \in 1..Len(psTable) /\ Top.block \in 1..Len(psTable)
  BY <1>1
<1>. QED  BY <1>1, <1>2, LinkAddsEdge DEF createSuccessorFallthrough

-----------------------------------------------------------------------------
(* The two tables of edges.                                                *)

(* Edges are between blocks.                                               *)
RowsInGraph ==
    \A i \in DOMAIN psTable :
        psTable[i].succ \in Seq(DOMAIN blocks) /\ psTable[i].pred \in Seq(DOMAIN blocks)
EInv == RowsInGraph /\ EdgesMirrored

LEMMA OccurrencesNone ==
    ASSUME NEW S, NEW s \in Seq(S), NEW x, x \notin S
    PROVE  Occurrences(s, x) = 0
<1>1. {k \in DOMAIN s : s[k] = x} = {}
  BY ElementOfSeq, LenProperties
<1>. QED  BY <1>1, FS_EmptySet DEF Occurrences

LEMMA OccurrencesEmpty == \A x : Occurrences(<<>>, x) = 0
<1>1. \A x : {k \in DOMAIN <<>> : <<>>[k] = x} = {}
  OBVIOUS
<1>. QED  BY <1>1, FS_EmptySet DEF Occurrences

(* The rows of the table, the empty ones after it included.                *)
LEMMA RowsMirror ==
    ASSUME IInv, EInv, NEW n \in Nat, n \in {Len(psTable), Len(psTable) + 1},
           NEW i \in 1..n, NEW j \in 1..n
    PROVE  /\ Row(i).succ \in Seq(DOMAIN blocks)
           /\ Row(j).pred \in Seq(DOMAIN blocks)
           /\ Occurrences(Row(i).succ, j) = Occurrences(Row(j).pred, i)
           /\ Row(i).succ # <<>> => i \in DOMAIN blocks
<1>1. /\ DOMAIN psTable = 1..Len(psTable) /\ DOMAIN blocks = 1..Len(blocks)
      /\ Len(psTable) \in Nat /\ Len(blocks) \in Nat /\ Len(blocks) <= Len(psTable)
  BY LenProperties DEF IInv, TypeOK, TableCovers
<1>2. \A k : k \in 1..Len(psTable) \/ Row(k) = EmptyEntry
  BY DEF Row
<1>3. EmptyEntry.succ = <<>> /\ EmptyEntry.pred = <<>>
  BY DEF EmptyEntry
<1>4. \A S : <<>> \in Seq(S)
  OBVIOUS
<1>5. \A k \in DOMAIN blocks : k \in 1..Len(psTable)
  <2>1. PICK p, b : p = Len(psTable) /\ b = Len(blocks)
    OBVIOUS
  <2>2. p \in Nat /\ b \in Nat /\ b <= p /\ DOMAIN blocks = 1..b
    BY <1>1, <2>1
  <2>3. \A k \in 1..b : k \in 1..p
    BY <2>2
  <2>. QED  BY <2>1, <2>2, <2>3
<1>6. Row(i).succ \in Seq(DOMAIN blocks)
  <2>1. CASE i \in 1..Len(psTable)
    BY <1>1, <2>1 DEF EInv, RowsInGraph, Row
  <2>. QED  BY <1>2, <1>3, <1>4, <2>1
<1>7. Row(j).pred \in Seq(DOMAIN blocks)
  <2>1. CASE j \in 1..Len(psTable)
    BY <1>1, <2>1 DEF EInv, RowsInGraph, Row
  <2>. QED  BY <1>2, <1>3, <1>4, <2>1
<1>8. Row(i).succ # <<>> => i \in DOMAIN blocks
  <2>1. CASE i \in 1..Len(psTable)
    BY <1>1, <2>1 DEF EInv, EdgesMirrored, Row
  <2>. QED  BY <1>2, <1>3, <2>1
<1>9. Occurrences(<<>>, i) = 0 /\ Occurrences(<<>>, j) = 0
  BY OccurrencesEmpty
<1>10. CASE i \in 1..Len(psTable) /\ j \in 1..Len(psTable)
  BY <1>1, <1>6, <1>7, <1>8, <1>10 DEF EInv, EdgesMirrored, Row
<1>11. CASE i \notin 1..Len(psTable)
  <2>1. Row(i).succ = <<>> /\ i \notin DOMAIN blocks
    BY <1>2, <1>3, <1>5, <1>11
  <2>2. Occurrences(Row(j).pred, i) = 0
    BY <1>7, <2>1, OccurrencesNone
  <2>. QED  BY <1>6, <1>7, <1>8, <1>9, <2>1, <2>2
<1>12. CASE j \notin 1..Len(psTable)
  <2>1. Row(j).pred = <<>> /\ j \notin DOMAIN blocks
    BY <1>2, <1>3, <1>5, <1>12
  <2>2. Occurrences(Row(i).succ, j) = 0
    BY <1>6, <2>1, OccurrencesNone
  <2>. QED  BY <1>6, <1>7, <1>8, <1>9, <2>1, <2>2
<1>. QED  BY <1>10, <1>11, <1>12

LEMMA AddsEdgeKeeps ==
    ASSUME IInv, EInv, IInv', stack # <<>>, Len(blocks') \in {Len(blocks), Len(blocks) + 1},
           NEW to \in 1..Len(blocks'), AddsEdge(to)
    PROVE  EInv'
<1> DEFINE n == Len(psTable')
<1>1. /\ DOMAIN psTable' = 1..n /\ DOMAIN blocks' = 1..Len(blocks')
      /\ n \in Nat /\ Len(blocks') \in Nat
  BY LenProperties DEF IInv, TypeOK
<1>2. /\ n \in {Len(psTable), Len(psTable) + 1}
      /\ \A i \in 1..n :
            /\ psTable'[i].succ = IF i = Top.block THEN Append(Row(i).succ, to) ELSE Row(i).succ
            /\ psTable'[i].pred = IF i = to THEN Append(Row(i).pred, Top.block) ELSE Row(i).pred
  BY DEF AddsEdge
<1>3. DOMAIN blocks \subseteq DOMAIN blocks' /\ Top.block \in DOMAIN blocks /\ to \in DOMAIN blocks'
  <2>1. Len(blocks) \in Nat /\ Top.block \in 1..Len(blocks) /\ DOMAIN blocks = 1..Len(blocks)
    BY AtTop DEF IInv
  <2>2. PICK b, c : b = Len(blocks) /\ c = Len(blocks')
    OBVIOUS
  <2>3. b \in Nat /\ c \in {b, b + 1} /\ 1..b = DOMAIN blocks /\ 1..c = DOMAIN blocks'
    BY <1>1, <2>1, <2>2
  <2>4. \A k \in 1..b : k \in 1..c
    BY <2>3
  <2>. QED  BY <1>1, <2>1, <2>2, <2>3, <2>4
<1> HIDE DEF n
<1>4. \A i \in 1..n : Row(i).succ \in Seq(DOMAIN blocks') /\ Row(i).pred \in Seq(DOMAIN blocks')
  BY <1>1, <1>2, <1>3, RowsMirror, SeqGrows
<1>5. ASSUME NEW i \in 1..n, NEW j \in 1..n
      PROVE  Occurrences(psTable'[i].succ, j) = Occurrences(psTable'[j].pred, i)
  <2> DEFINE S == DOMAIN blocks'
             a == Occurrences(Row(i).succ, j)
             b == Occurrences(Row(j).pred, i)
  <2>1. a = b
    BY <1>1, <1>2, RowsMirror
  <2>2. to \in S /\ Top.block \in S /\ Row(i).succ \in Seq(S) /\ Row(j).pred \in Seq(S)
    BY <1>3, <1>4
  <2> HIDE DEF S
  <2>3. Occurrences(Append(Row(i).succ, to), j) = IF j = to THEN a + 1 ELSE a
    BY <2>2, OccurrencesAppend
  <2>4. Occurrences(Append(Row(j).pred, Top.block), i) = IF i = Top.block THEN b + 1 ELSE b
    BY <2>2, OccurrencesAppend
  <2> HIDE DEF a, b
  <2>5. Occurrences(psTable'[i].succ, j) = IF i = Top.block /\ j = to THEN a + 1 ELSE a
    BY <1>2, <2>3 DEF a
  <2>6. Occurrences(psTable'[j].pred, i) = IF i = Top.block /\ j = to THEN b + 1 ELSE b
    BY <1>2, <2>4 DEF b
  <2>. QED  BY <2>1, <2>5, <2>6
<1>6. ASSUME NEW i \in 1..n, psTable'[i].succ # <<>>
      PROVE  i \in DOMAIN blocks'
  <2>1. CASE i = Top.block
    BY <1>3, <2>1
  <2>2. CASE i # Top.block
    BY <1>1, <1>2, <1>3, <1>6, <2>2, RowsMirror
  <2>. QED  BY <2>1, <2>2
<1>7. RowsInGraph'
  <2>1. ASSUME NEW i \in 1..n
        PROVE  psTable'[i].succ \in Seq(DOMAIN blocks') /\ psTable'[i].pred \in Seq(DOMAIN blocks')
    <3> DEFINE S == DOMAIN blocks'
    <3>1. to \in S /\ Top.block \in S /\ Row(i).succ \in Seq(S) /\ Row(i).pred \in Seq(S)
      BY <1>3, <1>4
    <3> HIDE DEF S
    <3>2. Append(Row(i).succ, to) \in Seq(S) /\ Append(Row(i).pred, Top.block) \in Seq(S)
      BY <3>1
    <3>. QED  BY <1>2, <3>1, <3>2 DEF S
  <2>. QED  BY <1>1, <2>1 DEF RowsInGraph
<1>8. EdgesMirrored'
  BY <1>1, <1>5, <1>6 DEF EdgesMirrored
<1>. QED  BY <1>7, <1>8 DEF EInv

(* What a step does to the edges.                                          *)
EdgeAdded ==
    /\ stack # <<>> /\ Len(blocks') \in {Len(blocks), Len(blocks) + 1}
    /\ \E to \in 1..Len(blocks') : AddsEdge(to)
EdgesKept == psTable' = psTable /\ DOMAIN blocks' = DOMAIN blocks

LEMMA EnterEdges ==
    ASSUME IInv, stack # <<>>, NEW target \in Nat, NEW phase \in {"branched", "returned"},
           Enter(target, phase), UNCHANGED <<code, status>>
    PROVE  EdgeAdded
<1>1. Len(blocks') \in {Len(blocks), Len(blocks) + 1}
  BY EnterMoves DEF EntersOld, EntersNew
<1>. QED  BY <1>1, EnterAddsEdge DEF EdgeAdded

LEMMA PlaceholderEdges ==
    ASSUME IInv, stack # <<>>, NEW type \in {"EXTERNAL", "RUNTIME"},
           LinkNew(Top.block, Top.pc, NewBlock(Top.pc, type))
    PROVE  EdgeAdded
<1>1. NewBlock(Top.pc, type) \in Block /\ Len(blocks) \in Nat
  BY AtTop DEF NewBlock, Block, BlockTypes, Frame
<1>2. Len(blocks') = Len(blocks) + 1 /\ AddsEdge(Len(blocks) + 1)
  BY <1>1, LinkNewGrows, NewBlockAddsEdge
<1>. QED  BY <1>1, <1>2 DEF EdgeAdded

LEMMA FlagsEdges ==
    ASSUME IInv, stack # <<>>, WritesFlags
    PROVE  EdgesKept
<1>1. Len(blocks') = Len(blocks) /\ blocks' \in Seq(Block) /\ blocks \in Seq(Block)
  BY FlagsKeep DEF KeepsBlocks, IInv, TypeOK
<1>. QED  BY <1>1, LenProperties DEF EdgesKept, WritesFlags

LEMMA StepEdges == IInv /\ Next => EdgeAdded \/ EdgesKept
<1>. SUFFICES ASSUME IInv, Next PROVE EdgeAdded \/ EdgesKept
  OBVIOUS
<1>1. CASE ScanPlain
  <2>1. PICK next : next = findInternalBlockByPosition(Top.pc + 1)
    OBVIOUS
  <2>2. stack # <<>> /\ TypeOK
    BY <1>1 DEF ScanPlain, At, IInv
  <2>3. CASE next # 0 /\ createSuccessorFallthrough(Top.block, Top.pc, next)
    <3>1. next \in 1..Len(blocks)
      BY <2>1, <2>2, <2>3, FindInternal
    <3>2. Len(blocks') = Len(blocks)
      BY <2>2, <2>3, <3>1, LinkOldStays
    <3>. QED  BY <2>2, <2>3, <3>1, <3>2, FallAddsEdge DEF EdgeAdded
  <2>4. CASE UNCHANGED graph
    BY <2>4 DEF graph, EdgesKept
  <2>. QED  BY <1>1, <2>1, <2>3, <2>4 DEF ScanPlain
<1>2. CASE RunOffEnd
  BY <1>2 DEF RunOffEnd, graph, EdgesKept
<1>3. CASE HandleBranch
  <2>1. PICK target : target = code[Top.pc].target
    OBVIOUS
  <2>2. stack # <<>>
    BY <1>3 DEF HandleBranch, At
  <2>3. CASE target \in Positions /\ Enter(target, "branched") /\ UNCHANGED <<code, status>>
    <3>1. target \in Nat
      BY <2>3, LengthAssumption DEF Positions
    <3>. QED  BY <2>2, <2>3, <3>1, EnterEdges
  <2>4. CASE LinkNew(Top.block, Top.pc, NewBlock(Top.pc, "EXTERNAL"))
    BY <2>2, <2>4, PlaceholderEdges
  <2>5. CASE Stop("threw")
    BY <2>5 DEF Stop, EdgesKept
  <2>. QED  BY <1>3, <2>1, <2>3, <2>4, <2>5 DEF HandleBranch
<1>4. CASE RuntimeBranch
  BY <1>4, PlaceholderEdges DEF RuntimeBranch, At
<1>5. CASE AfterBranch
  <2>1. stack # <<>>
    BY <1>5 DEF AfterBranch, At
  <2>2. Top.pc + 1 \in Nat
    BY <2>1, AtTop DEF Frame
  <2>3. CASE Stop("aborted")
    BY <2>3 DEF Stop, EdgesKept
  <2>4. CASE Enter(Top.pc + 1, "returned") /\ UNCHANGED <<code, status>>
    BY <2>1, <2>2, <2>4, EnterEdges
  <2>. QED  BY <1>5, <2>3, <2>4 DEF AfterBranch
<1>6. CASE EndCall
  BY <1>6, EndCallFlags, FlagsEdges
<1>7. CASE EndBlock
  BY <1>7, EndBlockFlags, FlagsEdges
<1>8. CASE Terminated
  BY <1>8 DEF Terminated, vars, EdgesKept
<1>. QED  BY <1>1, <1>2, <1>3, <1>4, <1>5, <1>6, <1>7, <1>8 DEF Next

(* The first block has no edges.                                           *)
LEMMA InitEInv == Init => EInv
<1>. SUFFICES ASSUME Init PROVE EInv
  OBVIOUS
<1>1. psTable = <<EmptyEntry>> /\ DOMAIN psTable = {1} /\ psTable[1] = EmptyEntry
  BY DEF Init
<1>2. psTable[1].succ = <<>> /\ psTable[1].pred = <<>>
  BY <1>1 DEF EmptyEntry
<1>3. <<>> \in Seq(DOMAIN blocks) /\ 1 \in DOMAIN blocks
  BY DEF Init
<1>. QED  BY <1>1, <1>2, <1>3 DEF EInv, RowsInGraph, EdgesMirrored

(* Every step keeps EInv.                                                  *)
LEMMA StepEInv == IInv /\ EInv /\ IInv' /\ [Next]_vars => EInv'
<1>. SUFFICES ASSUME IInv, EInv, IInv', [Next]_vars PROVE EInv'
  OBVIOUS
<1>1. CASE EdgeAdded
  BY <1>1, AddsEdgeKeeps DEF EdgeAdded
<1>2. CASE EdgesKept
  BY <1>2 DEF EdgesKept, EInv, RowsInGraph, EdgesMirrored
<1>3. CASE UNCHANGED vars
  BY <1>3 DEF vars, EInv, RowsInGraph, EdgesMirrored
<1>. QED  BY <1>1, <1>2, <1>3, StepEdges

(* Whatever the function, in every state the two halves of psTable hold    *)
(* the same edges, all of them between blocks.                             *)
THEOREM EdgesAgree == Spec => [](RowsInGraph /\ EdgesMirrored)
<1>1. Init => EInv
  BY InitEInv
<1>2. IInv /\ EInv /\ IInv' /\ [Next]_vars => EInv'
  BY StepEInv
<1>. QED  BY <1>1, <1>2, Inductive, PTL DEF Spec, EInv

-----------------------------------------------------------------------------
(* The finished graph.                                                     *)

Inside(i) == SuccsOf(i) \cap Internal
Starts(i) == {blocks[j].start : j \in Inside(i)}

InsideTarget(insn) == HasTarget(insn) /\ insn.target \in Positions

(***************************************************************************)
(* The successors of the block an activation f is in: none while it scans, *)
(* then the target of its branch or a placeholder, then all its branch     *)
(* leads to.  Only the end of the activation marks the block as an exit or  *)
(* a call.                                                                 *)
(***************************************************************************)
FrameLinked(f) ==
    LET i == f.block
    IN  /\ ~blocks[i].isExit /\ ~blocks[i].endsInCall /\ ~blocks[i].endsInTailCall
        /\ f.phase = "scan" => SuccsOf(i) = {}
        /\ f.phase = "branched" =>
              IF InsideTarget(code[f.pc])
              THEN SuccsOf(i) = Inside(i) /\ Starts(i) = {code[f.pc].target}
              ELSE SuccsOf(i) # {} /\ Inside(i) = {}
        /\ f.phase = "returned" => Starts(i) = BranchSuccs(code, f.pc)

(* Those of a finished block: where its last instruction leads, unless     *)
(* control runs from it past the end of the function.                      *)
BlockLinked(i) ==
    \/ blocks[i].end \in Positions /\ Starts(i) = FlowSuccs(code, blocks[i].end)
    \/ \A q \in Positions : blocks[i].start <= q => ~IsBranch(code[q])

ExitLinked(i) ==
    /\ blocks[i].isExit => Inside(i) = {} /\ SuccsOf(i) # {}
    /\ blocks[i].endsInTailCall =>
          blocks[i].isExit /\ blocks[i].endsInCall /\ blocks[i].end = Length - 1
    /\ blocks[i].endsInCall => IsBranch(code[blocks[i].end])

(* Blocks start where control gets.                                        *)
GoodStart(s) == s \in Closure /\ (AssertsOn /\ Length # 0 => s < Length)

(* What these theorems need besides IInv, CInv and EInv.                   *)
GInv ==
    /\ 0 \in Leaders
    /\ \A s \in Leaders : GoodStart(s)
    /\ \A k \in DOMAIN stack : FrameLinked(stack[k])
    /\ \A i \in Finished : BlockLinked(i)
    /\ \A i \in DOMAIN blocks : ExitLinked(i)

-----------------------------------------------------------------------------
(* What control reaches.                                                   *)

LEMMA FlowStays ==
    ASSUME NEW p \in Positions
    PROVE  FlowSuccs(code, p) \subseteq 0..Length
<1>1. p + 1 \in 0..Length /\ Positions \subseteq 0..Length
  BY LengthAssumption DEF Positions
<1>. QED  BY <1>1 DEF FlowSuccs, BranchSuccs

LEMMA ClosureEntry == 0 \in Closure
<1>1. 0 \in 0..Length
  BY LengthAssumption
<1>. QED  BY <1>1 DEF Closure, ClosedUnderFlow

LEMMA ClosureFlows ==
    ASSUME NEW p \in Closure, p \in Positions
    PROVE  FlowSuccs(code, p) \subseteq Closure
<1>1. ASSUME NEW q \in FlowSuccs(code, p), NEW S \in SUBSET (0..Length), ClosedUnderFlow(S)
      PROVE  q \in S
  BY <1>1 DEF Closure, ClosedUnderFlow
<1>. QED  BY <1>1, FlowStays DEF Closure

(* Control that runs through a block reaches all of it.                    *)
LEMMA ClosureRuns ==
    ASSUME NEW s \in Closure, NEW p \in 0..Length, RunsTo(code, s, p)
    PROVE  p \in Closure
<1>. SUFFICES ASSUME NEW S \in SUBSET (0..Length), ClosedUnderFlow(S), p \notin S
              PROVE  FALSE
  BY DEF Closure
<1> DEFINE D == {q \in Nat : s <= q /\ q <= p /\ q \notin S}
<1>1. s \in S /\ s \in Nat /\ p \in Nat /\ s <= p /\ p <= Length
  BY LengthAssumption DEF Closure, RunsTo
<1>2. p \in D
  BY <1>1
<1>3. PICK q \in D : \A r \in D : q <= r
  BY <1>2, FirstIsLeast
<1>4. q \in Nat /\ s < q /\ q <= p /\ q \notin S
  BY <1>1, <1>3
<1>5. q - 1 \in Nat /\ s <= q - 1 /\ q - 1 < q /\ q - 1 \in Positions
  BY <1>1, <1>4, LengthAssumption DEF Positions
<1>6. q - 1 \in S
  BY <1>1, <1>3, <1>4, <1>5
<1>7. ~IsBranch(code[q - 1])
  BY <1>4, <1>5 DEF RunsTo
<1>8. q \in FlowSuccs(code, q - 1)
  BY <1>4, <1>7 DEF FlowSuccs
<1>. QED  BY <1>4, <1>5, <1>6, <1>8 DEF ClosedUnderFlow

LEMMA ClosureKept == code' = code => Closure' = Closure
BY DEF Closure, ClosedUnderFlow

-----------------------------------------------------------------------------
(* Successors from one state to the next.                                  *)

(* What GInv says of a block holds as long as it is not written.           *)
Same(i) ==
    /\ blocks'[i] = blocks[i] /\ SuccsOf(i)' = SuccsOf(i)
    /\ Inside(i)' = Inside(i) /\ Starts(i)' = Starts(i)

LEMMA SameLinks ==
    ASSUME NEW i, Same(i), code' = code
    PROVE  /\ \A f : f.block = i /\ FrameLinked(f) => FrameLinked(f)'
           /\ BlockLinked(i) => BlockLinked(i)'
           /\ ExitLinked(i) => ExitLinked(i)'
<1>1. ASSUME NEW f, f.block = i, FrameLinked(f)
      PROVE  FrameLinked(f)'
  BY <1>1 DEF FrameLinked, Same
<1>2. BlockLinked(i) => BlockLinked(i)'
  BY DEF BlockLinked, Same
<1>3. ExitLinked(i) => ExitLinked(i)'
  BY DEF ExitLinked, Same
<1>. QED  BY <1>1, <1>2, <1>3

(* The successors of a block are blocks.                                   *)
LEMMA SuccsAre ==
    ASSUME IInv, EInv, NEW i \in DOMAIN blocks
    PROVE  SuccsOf(i) \subseteq DOMAIN blocks /\ psTable[i].succ \in Seq(DOMAIN blocks)
<1>1. psTable[i].succ \in Seq(DOMAIN blocks)
  <2>1. PICK b, t : b = Len(blocks) /\ t = Len(psTable)
    OBVIOUS
  <2>2. DOMAIN blocks = 1..b /\ DOMAIN psTable = 1..t /\ b \in Nat /\ t \in Nat /\ b <= t
    BY <2>1, LenProperties DEF IInv, TypeOK, TableCovers
  <2>3. i \in DOMAIN psTable
    BY <2>2
  <2>. QED  BY <2>3 DEF EInv, RowsInGraph
<1>. QED  BY <1>1, ElementOfSeq, LenProperties DEF SuccsOf

(* Blocks that are there keep being where they are.                        *)
LEMMA OldBlocks ==
    ASSUME IInv, stack # <<>>, NEW e, Moves(e),
           Len(blocks') \in {Len(blocks), Len(blocks) + 1}
    PROVE  \A j \in DOMAIN blocks :
              /\ j \in DOMAIN blocks' /\ j \in 1..Len(blocks)
              /\ blocks'[j].start = blocks[j].start
              /\ j \in Internal' <=> j \in Internal
<1>1. PICK b, c : b = Len(blocks) /\ c = Len(blocks')
  OBVIOUS
<1>2. DOMAIN blocks = 1..b /\ DOMAIN blocks' = 1..c /\ b \in Nat /\ c \in {b, b + 1}
  BY <1>1, AtTop, LenProperties DEF Moves, KeepsBlocks
<1>3. \A j \in DOMAIN blocks : j \in DOMAIN blocks'
  BY <1>2
<1>. QED  BY <1>1, <1>2, <1>3 DEF Moves, KeepsBlocks, Internal

(* A block whose row is kept.                                              *)
LEMMA RowKept ==
    ASSUME IInv, EInv, stack # <<>>, NEW e, Moves(e),
           Len(blocks') \in {Len(blocks), Len(blocks) + 1},
           NEW i \in DOMAIN blocks, psTable'[i].succ = psTable[i].succ
    PROVE  /\ SuccsOf(i)' = SuccsOf(i)
           /\ Inside(i)' = Inside(i)
           /\ Starts(i)' = Starts(i)
<1>1. SuccsOf(i)' = SuccsOf(i)
  BY DEF SuccsOf
<1>2. Inside(i)' = Inside(i)
  BY <1>1, SuccsAre, OldBlocks DEF Inside
<1>3. Inside(i) \subseteq DOMAIN blocks
  BY SuccsAre DEF Inside
<1>. QED  BY <1>1, <1>2, <1>3, OldBlocks DEF Starts

(* All blocks but the one at work.                                         *)
LEMMA OthersSame ==
    ASSUME IInv, EInv, stack # <<>>, NEW e, Moves(e),
           Len(blocks') \in {Len(blocks), Len(blocks) + 1},
           NEW i \in DOMAIN blocks, i # Top.block
    PROVE  Same(i)
<1>1. blocks'[i] = blocks[i] /\ psTable'[i].succ = psTable[i].succ
  BY OldBlocks DEF Moves, Untouched
<1>. QED  BY <1>1, RowKept DEF Same

(* The block at work, with one more successor.                             *)
LEMMA SuccAdded ==
    ASSUME IInv, EInv, stack # <<>>, NEW e, Moves(e),
           Len(blocks') \in {Len(blocks), Len(blocks) + 1},
           NEW to \in DOMAIN blocks', AddsEdge(to), NEW b, b = Top.block
    PROVE  /\ SuccsOf(b)' = SuccsOf(b) \cup {to}
           /\ to \in Internal' => Inside(b)' = Inside(b) \cup {to}
                                  /\ Starts(b)' = Starts(b) \cup {blocks'[to].start}
           /\ to \notin Internal' => Inside(b)' = Inside(b) /\ Starts(b)' = Starts(b)
<1>1. b \in DOMAIN blocks
  BY AtTop
<1>2. PICK s : s = psTable[b].succ
  OBVIOUS
<1>3. s \in Seq(DOMAIN blocks) /\ SuccsOf(b) \subseteq DOMAIN blocks
  BY <1>1, <1>2, SuccsAre
<1>4. s \in Seq(DOMAIN blocks')
  BY <1>3, OldBlocks, SeqGrows
<1>5. psTable'[b].succ = Append(s, to)
  <2>1. PICK n, t : n = Len(blocks) /\ t = Len(psTable)
    OBVIOUS
  <2>2. n \in Nat /\ t \in Nat /\ n <= t /\ b \in 1..n /\ Len(psTable') \in {t, t + 1}
    BY <2>1, AtTop, LenProperties DEF IInv, TypeOK, TableCovers, AddsEdge
  <2>3. b \in 1..t /\ b \in 1..Len(psTable')
    BY <2>2
  <2>. QED  BY <1>2, <2>1, <2>3 DEF AddsEdge, Row
<1>6. SuccsOf(b)' = SuccsOf(b) \cup {to}
  <2>1. PICK n : n = Len(s)
    OBVIOUS
  <2>2. n \in Nat /\ DOMAIN s = 1..n
    BY <1>4, <2>1, LenProperties
  <2>3. PICK u : u = Append(s, to)
    OBVIOUS
  <2>4. /\ u \in Seq(DOMAIN blocks') /\ Len(u) = n + 1
        /\ \A k \in 1..n : u[k] = s[k]
        /\ u[n + 1] = to
    BY <1>4, <2>1, <2>3, AppendProperties
  <2>5. DOMAIN u = 1..n \cup {n + 1}
    <3>1. DOMAIN u = 1..(n + 1)
      BY <2>4, LenProperties
    <3>. QED  BY <2>2, <3>1
  <2>6. {u[k] : k \in DOMAIN u} = {s[k] : k \in DOMAIN s} \cup {to}
    BY <2>2, <2>4, <2>5
  <2>7. SuccsOf(b) = {s[k] : k \in DOMAIN s}
    BY <1>2 DEF SuccsOf
  <2>8. psTable'[b].succ = u
    BY <1>5, <2>3
  <2>9. SuccsOf(b)' = {psTable'[b].succ[k] : k \in DOMAIN psTable'[b].succ}
    BY DEF SuccsOf
  <2>10. SuccsOf(b)' = {u[k] : k \in DOMAIN u}
    BY <2>8, <2>9
  <2>. QED  BY <2>6, <2>7, <2>10
<1>7. SuccsOf(b) \cap Internal' = Inside(b)
  BY <1>3, OldBlocks DEF Inside
<1>8. \A j \in Inside(b) : blocks'[j].start = blocks[j].start
  BY <1>3, OldBlocks DEF Inside
<1>9. to \in Internal' => Inside(b)' = Inside(b) \cup {to}
  BY <1>6, <1>7 DEF Inside
<1>10. to \notin Internal' => Inside(b)' = Inside(b)
  BY <1>6, <1>7 DEF Inside
<1>11. Starts(b)' = {blocks'[j].start : j \in Inside(b)'}
  BY DEF Starts
<1>. QED  BY <1>6, <1>8, <1>9, <1>10, <1>11 DEF Starts

-----------------------------------------------------------------------------
(* GInv is inductive, together with IInv, CInv and EInv.                   *)

(* A step keeps GInv if it leaves the top activation and its block, and a  *)
(* new block and its activation, as GInv says.                             *)
LEMMA KeepsGInv ==
    ASSUME IInv, EInv, GInv, stack # <<>>, NEW e \in Nat, Moves(e),
           Len(blocks') \in {Len(blocks), Len(blocks) + 1},
           Len(stack') \in {Len(stack) - 1, Len(stack), Len(stack) + 1},
           NEW n, n = Len(stack), NEW b, b = Top.block, NEW m, m = Len(blocks) + 1,
           Len(stack') >= n => stack'[n].block = b,
           \A s \in Leaders' \ Leaders : GoodStart(s)',
           \A k \in {n, n + 1} : k \in DOMAIN stack' => FrameLinked(stack[k])',
           Len(stack') < n => BlockLinked(b)',
           ExitLinked(b)',
           m \in DOMAIN blocks' => ExitLinked(m)',
           m \in Internal' => m \in Scanning'
    PROVE  GInv'
<1>1. n \in Nat \ {0} /\ Top = stack[n] /\ Len(stack') \in {n - 1, n, n + 1}
  BY AtTop DEF Top
<1>2. /\ DOMAIN stack = 1..n /\ DOMAIN stack' = 1..Len(stack')
      /\ DOMAIN blocks = 1..Len(blocks) /\ code' = code
  BY AtTop, LenProperties DEF Moves, KeepsCallers
<1>3. \A k \in 1..(n - 1) : stack'[k] = stack[k] /\ stack[k].block # b
  BY AtTop DEF Moves, KeepsCallers
<1>4. /\ Internal' \subseteq Internal \cup {m}
      /\ Leaders \subseteq Leaders'
  BY LeadersGrow DEF Moves
<1>5. \A i \in DOMAIN blocks : i # b => Same(i)
  BY OthersSame
<1>6. 0 \in Leaders' /\ \A s \in Leaders' : GoodStart(s)'
  <2>1. \A s \in Leaders : GoodStart(s)'
    BY <1>2, ClosureKept DEF GInv, GoodStart
  <2>. QED  BY <1>4, <2>1 DEF GInv
<1>7. ASSUME NEW k \in DOMAIN stack'
      PROVE  FrameLinked(stack[k])'
  <2>1. k \in 1..(n - 1) \/ k \in {n, n + 1}
    <3>1. k \in 1..Len(stack')
      BY <1>2
    <3>. QED  BY <1>1, <3>1
  <2>2. CASE k \in 1..(n - 1)
    <3>1. k \in DOMAIN stack /\ stack'[k] = stack[k] /\ stack[k].block # b
      <4>1. k \in 1..n
        BY <1>1, <2>2
      <4>. QED  BY <1>2, <1>3, <2>2, <4>1
    <3>2. PICK f : f = stack[k]
      OBVIOUS
    <3>3. f.block \in DOMAIN blocks /\ FrameLinked(f)
      BY <3>1, <3>2 DEF IInv, FramesOwn, Internal, GInv
    <3>4. FrameLinked(f)'
      BY <1>2, <1>5, <3>1, <3>2, <3>3, SameLinks
    <3>5. stack'[k] = f
      BY <3>1, <3>2
    <3>. QED  BY <3>4, <3>5 DEF FrameLinked
  <2>. QED  BY <2>1, <2>2
<1>8. ASSUME NEW i \in Finished'
      PROVE  BlockLinked(i)'
  <2>1. i \in Internal' /\ i \notin Scanning'
    BY DEF Finished
  <2>2. i \in Internal
    BY <1>4, <2>1
  <2>3. CASE i = b
    <3>1. Len(stack') < n
      <4>1. ASSUME Len(stack') >= n
            PROVE  FALSE
        <5>1. n \in 1..Len(stack') /\ stack'[n].block = i
          BY <1>1, <2>3, <4>1
        <5>. QED  BY <1>2, <2>1, <5>1 DEF Scanning
      <4>. QED  BY <1>1, <4>1
    <3>. QED  BY <2>3, <3>1
  <2>4. CASE i # b
    <3>1. i \notin Scanning
      <4>. SUFFICES ASSUME NEW k \in DOMAIN stack, stack[k].block = i PROVE FALSE
        BY DEF Scanning
      <4>1. k \in 1..n /\ k # n
        BY <1>1, <1>2, <2>4
      <4>2. k \in 1..(n - 1) /\ k \in 1..Len(stack')
        BY <1>1, <4>1
      <4>3. stack'[k].block = i /\ k \in DOMAIN stack'
        BY <1>2, <1>3, <4>2
      <4>. QED  BY <2>1, <4>3 DEF Scanning
    <3>2. BlockLinked(i) /\ i \in DOMAIN blocks
      BY <2>2, <3>1 DEF GInv, Finished, Internal
    <3>. QED  BY <1>2, <1>5, <2>4, <3>2, SameLinks
  <2>. QED  BY <2>3, <2>4
<1>9. ASSUME NEW i \in DOMAIN blocks'
      PROVE  ExitLinked(i)'
  <2>1. i \in DOMAIN blocks \/ i = m
    <3>1. PICK c, d : c = Len(blocks) /\ d = Len(blocks')
      OBVIOUS
    <3>2. DOMAIN blocks = 1..c /\ DOMAIN blocks' = 1..d /\ c \in Nat /\ d \in {c, c + 1}
      BY <3>1, AtTop, LenProperties DEF Moves, KeepsBlocks
    <3>3. i \in 1..c \/ i = c + 1
      BY <3>2
    <3>. QED  BY <3>1, <3>2, <3>3
  <2>2. CASE i \in DOMAIN blocks /\ i # b
    BY <1>2, <1>5, <2>2, SameLinks DEF GInv
  <2>. QED  BY <2>1, <2>2
<1>. QED  BY <1>6, <1>7, <1>8, <1>9 DEF GInv

(* What the activation at work has found so far.                           *)
LEMMA TopLinked ==
    ASSUME IInv, GInv, stack # <<>>
    PROVE  FrameLinked(Top)
<1>1. PICK n : n = Len(stack)
  OBVIOUS
<1>2. n \in Nat \ {0} /\ DOMAIN stack = 1..n /\ Top = stack[n]
  BY <1>1, AtTop DEF Top
<1>3. n \in 1..n
  BY <1>2
<1>. QED  BY <1>2, <1>3 DEF GInv

LEMMA TopReaches ==
    ASSUME IInv, CInv, GInv, stack # <<>>, Top.pc < Length
    PROVE  Top.pc \in Positions /\ FlowSuccs(code, Top.pc) \subseteq Closure
<1>1. PICK s : s = blocks[Top.block].start
  OBVIOUS
<1>2. Top.pc \in Nat /\ s \in Leaders /\ RunsTo(code, s, Top.pc)
  BY <1>1, TopGood DEF GoodFrame
<1>3. s \in Closure
  BY <1>2 DEF GInv, GoodStart
<1>4. Top.pc \in 0..Length /\ Top.pc \in Positions
  BY <1>2, LengthAssumption DEF Positions
<1>. QED  BY <1>2, <1>3, <1>4, ClosureRuns, ClosureFlows

(* The graph's operations write the end of the block at work, and no flag. *)
LEMMA OnlyEnd ==
    ASSUME IInv, stack # <<>>,
           \/ \E nb \in Block : LinkNew(Top.block, Top.pc, nb)
           \/ \E to \in 1..Len(blocks) :
                 \/ LinkExisting(Top.block, Top.pc, to)
                 \/ createSuccessorFallthrough(Top.block, Top.pc, to)
    PROVE  blocks'[Top.block] = [blocks[Top.block] EXCEPT !.end = Top.pc]
<1>1. /\ Len(blocks) \in Nat /\ Top.block \in 1..Len(blocks)
      /\ TypeOK /\ Top \in Frame
  BY AtTop DEF IInv
<1>2. Top.pc \in Nat
  BY <1>1 DEF Frame
<1>3. PICK B : B = [blocks EXCEPT ![Top.block].end = Top.pc]
  OBVIOUS
<1>4. /\ B \in Seq(Block) /\ Len(B) = Len(blocks)
      /\ B[Top.block] = [blocks[Top.block] EXCEPT !.end = Top.pc]
  BY <1>1, <1>2, <1>3, SetEnd
<1>5. CASE \E nb \in Block : LinkNew(Top.block, Top.pc, nb)
  <2>1. PICK nb \in Block : blocks' = Append(B, nb)
    BY <1>3, <1>5 DEF LinkNew
  <2>. QED  BY <1>1, <1>4, <2>1, AppendProperties
<1>6. CASE blocks' = B
  BY <1>4, <1>6
<1>. QED  BY <1>3, <1>5, <1>6 DEF LinkExisting, createSuccessorFallthrough

(* A new block has no successors yet.                                      *)
LEMMA NewRow ==
    ASSUME IInv, EInv, IInv', stack # <<>>, Len(blocks') = Len(blocks) + 1,
           NEW to, AddsEdge(to), NEW m, m = Len(blocks) + 1
    PROVE  SuccsOf(m)' = {}
<1>1. PICK b, t : b = Len(blocks) /\ t = Len(psTable)
  OBVIOUS
<1>2. /\ b \in Nat /\ t \in Nat /\ DOMAIN blocks = 1..b /\ DOMAIN psTable = 1..t
      /\ Top.block \in 1..b /\ m = b + 1
      /\ Len(psTable') \in Nat /\ m <= Len(psTable')
  BY <1>1, AtTop, LenProperties DEF IInv, TypeOK, TableCovers
<1>3. m \in 1..Len(psTable') /\ m # Top.block /\ m \notin DOMAIN blocks
  BY <1>2
<1>4. Row(m).succ = <<>>
  <2>1. CASE m \in 1..t
    BY <1>1, <1>2, <1>3, <2>1 DEF EInv, EdgesMirrored, Row
  <2>2. CASE m \notin 1..t
    BY <1>1, <2>2 DEF Row, EmptyEntry
  <2>. QED  BY <2>1, <2>2
<1>5. psTable'[m].succ = <<>>
  BY <1>3, <1>4 DEF AddsEdge
<1>. QED  BY <1>5 DEF SuccsOf

(* tryCreateSuccessorInternal: one more of the places control goes to.     *)
LEMMA EnterGInv ==
    ASSUME IInv, CInv, EInv, GInv, IInv', stack # <<>>, status = "running",
           NEW target \in Nat, NEW phase \in {"branched", "returned"},
           Enter(target, phase), UNCHANGED <<code, status>>,
           Top.pc < Length, IsBranch(code[Top.pc]),
           target \in BranchSuccs(code, Top.pc), AssertsOn => target < Length,
           phase = "branched" =>
              /\ Top.phase = "scan"
              /\ InsideTarget(code[Top.pc]) /\ target = code[Top.pc].target,
           phase = "returned" =>
              /\ Top.phase = "branched"
              /\ ComesBack(code[Top.pc]) /\ target = Top.pc + 1
    PROVE  GInv'
<1>1. PICK f : f = [Top EXCEPT !.phase = phase]
  OBVIOUS
<1>2. PICK b, m, n : b = Top.block /\ m = Len(blocks) + 1 /\ n = Len(stack)
  OBVIOUS
<1>3. Moves(Top.pc) /\ (EntersOld(target, f) \/ EntersNew(target, f))
  BY <1>1, EnterMoves
<1>4. Len(blocks') \in {Len(blocks), Len(blocks) + 1}
  BY <1>3 DEF EntersOld, EntersNew
<1>5. PICK to \in 1..Len(blocks') :
          AddsEdge(to) /\ blocks'[to].start = target /\ blocks'[to].type = "INTERNAL"
  BY EnterAddsEdge
<1>6. DOMAIN blocks' = 1..Len(blocks') /\ to \in Internal'
  BY <1>3, <1>5, LenProperties DEF Moves, KeepsBlocks, Internal
<1>7. /\ Top \in Frame /\ n \in Nat \ {0} /\ Top.pc \in Nat
      /\ Len(blocks) \in Nat /\ b \in 1..Len(blocks) /\ blocks[b] \in Block
  BY <1>2, AtTop, TopGood
<1>8. f.block = b /\ f.pc = Top.pc /\ f.phase = phase
  BY <1>1, <1>2, <1>7 DEF Frame
<1>9. /\ SuccsOf(b)' = SuccsOf(b) \cup {to}
      /\ Inside(b)' = Inside(b) \cup {to}
      /\ Starts(b)' = Starts(b) \cup {target}
  BY <1>2, <1>3, <1>4, <1>5, <1>6, SuccAdded
<1>10. FrameLinked(Top)
  BY TopLinked
<1>11. ~blocks'[b].isExit /\ ~blocks'[b].endsInCall /\ ~blocks'[b].endsInTailCall
  <2>1. blocks'[b] = [blocks[b] EXCEPT !.end = Top.pc]
    <3>1. TypeOK
      BY DEF IInv
    <3>2. NewBlock(target, "INTERNAL") \in Block
      BY DEF NewBlock, Block, BlockTypes
    <3>3. PICK old : old = findInternalBlockByPosition(target)
      OBVIOUS
    <3>4. old # 0 => old \in 1..Len(blocks)
      BY <3>1, <3>3, FindInternal
    <3>. QED  BY <1>2, <3>2, <3>3, <3>4, OnlyEnd DEF Enter
  <2>. QED  BY <1>2, <1>7, <1>10, <2>1 DEF FrameLinked, Block
<1>12. FrameLinked(f)'
  <2>1. CASE phase = "branched"
    <3>1. SuccsOf(b) = {} /\ Inside(b) = {} /\ Starts(b) = {}
      BY <1>2, <1>10, <2>1 DEF FrameLinked, Inside, Starts
    <3>. QED  BY <1>2, <1>8, <1>9, <1>11, <2>1, <3>1 DEF FrameLinked
  <2>2. CASE phase = "returned"
    <3>1. Starts(b) = IF InsideTarget(code[Top.pc]) THEN {code[Top.pc].target} ELSE {}
      BY <1>2, <1>10, <2>2 DEF FrameLinked, Starts
    <3>2. BranchSuccs(code, Top.pc)
            = (IF InsideTarget(code[Top.pc]) THEN {code[Top.pc].target} ELSE {}) \cup {target}
      BY <2>2 DEF BranchSuccs, InsideTarget
    <3>3. Starts(b)' = BranchSuccs(code, Top.pc)
      BY <1>9, <3>1, <3>2
    <3>. QED  BY <1>8, <1>11, <2>2, <3>3 DEF FrameLinked
  <2>. QED  BY <2>1, <2>2
<1>13. GoodStart(target)'
  <2>1. target \in Closure
    BY TopReaches DEF FlowSuccs
  <2>. QED  BY <2>1, ClosureKept DEF GoodStart
<1>14. ExitLinked(b)'
  BY <1>11 DEF ExitLinked
<1>15. CASE EntersOld(target, f)
  <2>1. Len(blocks') = Len(blocks) /\ Len(stack') = n /\ stack'[n] = f
    BY <1>2, <1>15 DEF EntersOld, Stays
  <2>2. m \notin DOMAIN blocks'
    BY <1>2, <1>6, <1>7, <2>1
  <2>3. Leaders' \subseteq Leaders
    <3>1. m \notin Internal'
      BY <2>2 DEF Internal
    <3>. QED  BY <1>2, <1>3, <1>4, <3>1, LeadersGrow DEF Moves
  <2>4. ASSUME NEW k \in {n, n + 1}, k \in DOMAIN stack'
        PROVE  FrameLinked(stack[k])'
    <3>1. k = n
      <4>1. DOMAIN stack' = 1..n
        BY <1>3, <2>1, LenProperties DEF Moves, KeepsCallers
      <4>. QED  BY <1>7, <2>4, <4>1
    <3>. QED  BY <1>12, <2>1, <3>1 DEF FrameLinked
  <2>5. ~(Len(stack') < n) /\ Len(stack') \in {Len(stack) - 1, Len(stack), Len(stack) + 1}
    BY <1>2, <1>7, <2>1
  <2>. QED
    BY <1>2, <1>3, <1>4, <1>7, <1>8, <1>14, <2>1, <2>2, <2>3, <2>4, <2>5, KeepsGInv
    DEF Internal
<1>16. CASE EntersNew(target, f)
  <2>1. PICK g : g = [block |-> m, pc |-> target, phase |-> "scan"]
    OBVIOUS
  <2>2. /\ Len(blocks') = m /\ blocks'[m] = NewBlock(target, "INTERNAL")
        /\ Len(stack') = n + 1 /\ stack'[n] = f /\ stack'[n + 1] = g
    BY <1>2, <1>16, <2>1 DEF EntersNew
  <2>3. DOMAIN stack' = 1..(n + 1)
    BY <1>3, <2>2, LenProperties DEF Moves, KeepsCallers
  <2>4. ~blocks'[m].isExit /\ ~blocks'[m].endsInCall /\ ~blocks'[m].endsInTailCall
    BY <2>2 DEF NewBlock
  <2>5. SuccsOf(m)' = {}
    BY <1>2, <1>5, <2>2, NewRow
  <2>6. FrameLinked(g)'
    BY <2>1, <2>4, <2>5 DEF FrameLinked
  <2>7. \A k \in {n, n + 1} : FrameLinked(stack[k])'
    BY <1>12, <2>2, <2>6 DEF FrameLinked
  <2>8. m \in Scanning'
    <3>1. n + 1 \in 1..(n + 1)
      BY <1>7
    <3>. QED  BY <2>1, <2>2, <2>3, <3>1 DEF Scanning
  <2>9. ExitLinked(m)'
    BY <2>4 DEF ExitLinked
  <2>10. Leaders' = Leaders \cup {target}
    BY <1>3, <1>16, NewLeader
  <2>11. ~(Len(stack') < n) /\ Len(stack') \in {Len(stack) - 1, Len(stack), Len(stack) + 1}
    BY <1>2, <1>7, <2>2
  <2>. QED
    BY <1>2, <1>3, <1>4, <1>7, <1>8, <1>13, <1>14, <2>2, <2>7, <2>8, <2>9, <2>10, <2>11,
       KeepsGInv
<1>. QED  BY <1>3, <1>15, <1>16

(* createSuccessorExternal and createSuccessorRuntime: a placeholder is a  *)
(* successor outside the function.                                         *)
LEMMA PlaceholderGInv ==
    ASSUME IInv, CInv, EInv, GInv, IInv', stack # <<>>, status = "running",
           Top.phase = "scan", ~InsideTarget(code[Top.pc]),
           NEW type \in {"EXTERNAL", "RUNTIME"},
           LinkNew(Top.block, Top.pc, NewBlock(Top.pc, type)),
           stack' = SetTop([Top EXCEPT !.phase = "branched"]), UNCHANGED <<code, status>>
    PROVE  GInv'
<1>1. PICK f : f = [Top EXCEPT !.phase = "branched"]
  OBVIOUS
<1>2. PICK b, m, n : b = Top.block /\ m = Len(blocks) + 1 /\ n = Len(stack)
  OBVIOUS
<1>3. Moves(Top.pc) /\ Places(f)
  BY <1>1, PlaceholderMoves
<1>4. /\ Top \in Frame /\ n \in Nat \ {0} /\ Top.pc \in Nat
      /\ Len(blocks) \in Nat /\ b \in 1..Len(blocks) /\ blocks[b] \in Block
  BY <1>2, AtTop, TopGood
<1>5. f.block = b /\ f.pc = Top.pc /\ f.phase = "branched"
  BY <1>1, <1>2, <1>4 DEF Frame
<1>6. PICK nb \in Block : nb = NewBlock(Top.pc, type)
  BY <1>4 DEF NewBlock, Block, BlockTypes
<1>7. Len(blocks') = m /\ blocks'[m] = nb /\ AddsEdge(m)
  BY <1>2, <1>6, LinkNewGrows, NewBlockAddsEdge
<1>8. m \in DOMAIN blocks' /\ m \notin Internal'
  <2>1. DOMAIN blocks' = 1..m /\ m \in 1..m
    BY <1>2, <1>3, <1>4, <1>7, LenProperties DEF Moves, KeepsBlocks
  <2>. QED  BY <1>6, <1>7, <2>1 DEF Internal, NewBlock
<1>9. SuccsOf(b)' = SuccsOf(b) \cup {m} /\ Inside(b)' = Inside(b)
  BY <1>2, <1>3, <1>7, <1>8, SuccAdded
<1>10. FrameLinked(Top)
  BY TopLinked
<1>11. ~blocks'[b].isExit /\ ~blocks'[b].endsInCall /\ ~blocks'[b].endsInTailCall
  <2>1. blocks'[b] = [blocks[b] EXCEPT !.end = Top.pc]
    BY <1>2, <1>6, OnlyEnd
  <2>. QED  BY <1>2, <1>4, <1>10, <2>1 DEF FrameLinked, Block
<1>12. FrameLinked(f)'
  <2>1. Inside(b) = {}
    BY <1>2, <1>10 DEF FrameLinked, Inside
  <2>2. SuccsOf(b)' # {} /\ Inside(b)' = {}
    BY <1>9, <2>1
  <2>. QED  BY <1>5, <1>11, <2>2 DEF FrameLinked
<1>13. Len(stack') = n /\ stack'[n] = f
  BY <1>2, <1>3 DEF Places, Stays
<1>14. ASSUME NEW k \in {n, n + 1}, k \in DOMAIN stack'
       PROVE  FrameLinked(stack[k])'
  <2>1. DOMAIN stack' = 1..n
    BY <1>3, <1>13, LenProperties DEF Moves, KeepsCallers
  <2>2. k = n
    BY <1>4, <1>14, <2>1
  <2>. QED  BY <1>12, <1>13, <2>2 DEF FrameLinked
<1>15. ExitLinked(b)' /\ ExitLinked(m)'
  BY <1>6, <1>7, <1>11 DEF ExitLinked, NewBlock
<1>16. Leaders' \subseteq Leaders
  BY <1>2, <1>3, <1>7, <1>8, LeadersGrow DEF Moves
<1>17. ~(Len(stack') < n) /\ Len(stack') \in {Len(stack) - 1, Len(stack), Len(stack) + 1}
  BY <1>2, <1>4, <1>13
<1>. QED
  BY <1>2, <1>3, <1>4, <1>5, <1>7, <1>8, <1>13, <1>14, <1>15, <1>16, <1>17, KeepsGInv

(* A step that ends the top activation.                                    *)
LEMMA ReturnsGInv ==
    ASSUME IInv, EInv, GInv, stack # <<>>, NEW e \in Nat, Moves(e), Returns,
           Len(blocks') = Len(blocks), NEW b, b = Top.block,
           BlockLinked(b)', ExitLinked(b)'
    PROVE  GInv'
<1>1. PICK m, n : m = Len(blocks) + 1 /\ n = Len(stack)
  OBVIOUS
<1>2. n \in Nat \ {0} /\ Len(blocks) \in Nat
  BY <1>1, AtTop
<1>3. Len(stack') = n - 1
  BY <1>1 DEF Returns
<1>4. m \notin DOMAIN blocks'
  <2>1. DOMAIN blocks' = 1..Len(blocks')
    BY LenProperties DEF Moves, KeepsBlocks
  <2>. QED  BY <1>1, <1>2, <2>1
<1>5. n \notin DOMAIN stack' /\ n + 1 \notin DOMAIN stack'
  <2>1. DOMAIN stack' = 1..Len(stack')
    BY LenProperties DEF Moves, KeepsCallers
  <2>. QED  BY <1>2, <1>3, <2>1
<1>6. m \notin Internal'
  BY <1>4 DEF Internal
<1>7. Leaders' \subseteq Leaders
  BY <1>1, <1>6, LeadersGrow DEF Moves
<1>8. ~(Len(stack') >= n) /\ Len(stack') \in {Len(stack) - 1, Len(stack), Len(stack) + 1}
  BY <1>1, <1>2, <1>3
<1>. QED  BY <1>1, <1>2, <1>4, <1>5, <1>6, <1>7, <1>8, KeepsGInv

(* The fall-through into a block that is there already.                    *)
LEMMA FallGInv ==
    ASSUME IInv, CInv, EInv, GInv, stack # <<>>, NEW to \in 1..Len(blocks), code' = code,
           createSuccessorFallthrough(Top.block, Top.pc, to), Return,
           Top.phase = "scan", Top.pc < Length, ~IsBranch(code[Top.pc]),
           blocks[to].start = Top.pc + 1, blocks[to].type = "INTERNAL"
    PROVE  GInv'
<1>1. PICK b : b = Top.block
  OBVIOUS
<1>2. /\ Moves(Top.pc) /\ Len(blocks') = Len(blocks) /\ Returns
      /\ AddsEdge(to)
      /\ blocks'[b] = [blocks[b] EXCEPT !.end = Top.pc]
  BY <1>1, FallMoves, FallAddsEdge, OnlyEnd
<1>3. /\ Top.pc \in Nat /\ DOMAIN blocks = 1..Len(blocks)
      /\ b \in 1..Len(blocks) /\ blocks[b] \in Block
  BY <1>1, AtTop, TopGood
<1>4. to \in DOMAIN blocks' /\ to \in Internal' /\ blocks'[to].start = Top.pc + 1
  BY <1>2, <1>3, OldBlocks DEF Internal
<1>5. FrameLinked(Top)
  BY TopLinked
<1>6. /\ ~blocks'[b].isExit /\ ~blocks'[b].endsInCall /\ ~blocks'[b].endsInTailCall
      /\ blocks'[b].end = Top.pc
  BY <1>1, <1>2, <1>3, <1>5 DEF FrameLinked, Block
<1>7. Starts(b)' = {Top.pc + 1}
  <2>1. Starts(b) = {}
    BY <1>1, <1>5 DEF FrameLinked, Inside, Starts
  <2>2. Starts(b)' = Starts(b) \cup {Top.pc + 1}
    BY <1>1, <1>2, <1>4, SuccAdded
  <2>. QED  BY <2>1, <2>2
<1>8. BlockLinked(b)'
  <2>1. Top.pc \in Positions
    BY <1>3, LengthAssumption DEF Positions
  <2>2. FlowSuccs(code, Top.pc) = {Top.pc + 1}
    BY DEF FlowSuccs
  <2>. QED  BY <1>6, <1>7, <2>1, <2>2 DEF BlockLinked
<1>9. ExitLinked(b)'
  BY <1>6 DEF ExitLinked
<1>. QED  BY <1>1, <1>2, <1>3, <1>8, <1>9, ReturnsGInv

(* The next instruction.                                                   *)
LEMMA AdvanceGInv ==
    ASSUME IInv, CInv, EInv, GInv, stack # <<>>, Top.phase = "scan",
           stack' = SetTop([Top EXCEPT !.pc = @ + 1]), UNCHANGED <<code, graph, status>>
    PROVE  GInv'
<1>1. PICK f : f = [Top EXCEPT !.pc = @ + 1]
  OBVIOUS
<1>2. PICK b, m, n : b = Top.block /\ m = Len(blocks) + 1 /\ n = Len(stack)
  OBVIOUS
<1>3. /\ Top \in Frame /\ n \in Nat \ {0} /\ Top.pc \in Nat
      /\ Len(blocks) \in Nat /\ DOMAIN blocks = 1..Len(blocks)
      /\ b \in 1..Len(blocks) /\ blocks[b] \in Block
  BY <1>2, AtTop, TopGood
<1>4. f \in Frame /\ f.block = b /\ f.phase = "scan"
  BY <1>1, <1>2, <1>3 DEF Frame
<1>5. PICK e : e = blocks[b].end
  OBVIOUS
<1>6. e \in Nat /\ Moves(e) /\ Len(blocks') = Len(blocks) /\ Stays(f)
  BY <1>1, <1>2, <1>3, <1>4, <1>5, AdvanceMoves DEF Block
<1>7. blocks' = blocks /\ psTable' = psTable
  BY DEF graph
<1>8. FrameLinked(Top)
  BY TopLinked
<1>9. FrameLinked(f)' /\ ExitLinked(b)'
  <2>1. SuccsOf(b)' = SuccsOf(b)
    BY <1>7 DEF SuccsOf
  <2>. QED  BY <1>2, <1>4, <1>7, <1>8, <2>1 DEF FrameLinked, ExitLinked
<1>10. Len(stack') = n /\ stack'[n] = f
  BY <1>2, <1>6 DEF Stays
<1>11. ASSUME NEW k \in {n, n + 1}, k \in DOMAIN stack'
       PROVE  FrameLinked(stack[k])'
  <2>1. DOMAIN stack' = 1..n
    BY <1>6, <1>10, LenProperties DEF Moves, KeepsCallers
  <2>2. k = n
    BY <1>3, <1>11, <2>1
  <2>. QED  BY <1>9, <1>10, <2>2 DEF FrameLinked
<1>12. m \notin DOMAIN blocks' /\ m \notin Internal' /\ Leaders' = Leaders
  <2>1. m \notin DOMAIN blocks
    BY <1>2, <1>3
  <2>. QED  BY <1>7, <2>1 DEF Internal, Leaders
<1>13. ~(Len(stack') < n) /\ Len(stack') \in {Len(stack) - 1, Len(stack), Len(stack) + 1}
  BY <1>2, <1>3, <1>10
<1>. QED
  BY <1>2, <1>3, <1>4, <1>6, <1>9, <1>10, <1>11, <1>12, <1>13, KeepsGInv

(* The ends of an activation write flags of its block only.                *)
LEMMA FlagsRow ==
    ASSUME IInv, EInv, stack # <<>>, WritesFlags, NEW b, b = Top.block
    PROVE  /\ blocks[b].end \in Nat /\ Moves(blocks[b].end) /\ Returns
           /\ Len(blocks') = Len(blocks)
           /\ blocks'[b].start = blocks[b].start /\ blocks'[b].end = blocks[b].end
           /\ SuccsOf(b)' = SuccsOf(b) /\ Inside(b)' = Inside(b) /\ Starts(b)' = Starts(b)
<1>1. PICK e : e = blocks[b].end
  OBVIOUS
<1>2. e \in Nat /\ Moves(e) /\ Len(blocks') = Len(blocks) /\ Returns
  BY <1>1, FlagsMove, FlagsKeep
<1>3. b \in DOMAIN blocks /\ b \in 1..Len(blocks)
  BY AtTop
<1>4. psTable'[b].succ = psTable[b].succ
  BY DEF WritesFlags
<1>5. SuccsOf(b)' = SuccsOf(b) /\ Inside(b)' = Inside(b) /\ Starts(b)' = Starts(b)
  BY <1>2, <1>3, <1>4, RowKept
<1>6. blocks'[b].start = blocks[b].start /\ blocks'[b].end = e
  BY <1>2, <1>3 DEF Moves, KeepsBlocks
<1>. QED  BY <1>1, <1>2, <1>5, <1>6

(* At the end of an activation all its branch leads to has been entered.   *)
LEMMA EndLinked ==
    ASSUME IInv, CInv, GInv, stack # <<>>, Top.phase # "scan",
           ComesBack(code[Top.pc]) => Top.phase = "returned", NEW b, b = Top.block
    PROVE  /\ Top.pc \in Nat /\ Top.pc < Length /\ blocks[b].end = Top.pc
           /\ BlockLinked(b) /\ IsBranch(code[Top.pc])
<1>1. /\ Top.pc \in Nat /\ Top.pc < Length /\ IsBranch(code[Top.pc])
      /\ blocks[b].end = Top.pc /\ Top.phase \in {"branched", "returned"}
  BY TopGood, AtTop DEF GoodFrame, Frame
<1>2. FrameLinked(Top)
  BY TopLinked
<1>3. Starts(b) = BranchSuccs(code, Top.pc)
  <2>1. CASE Top.phase = "returned"
    BY <1>2, <2>1 DEF FrameLinked
  <2>2. CASE Top.phase = "branched"
    <3>1. ~ComesBack(code[Top.pc])
      BY <2>2
    <3>2. Starts(b) = IF InsideTarget(code[Top.pc]) THEN {code[Top.pc].target} ELSE {}
      BY <1>2, <2>2 DEF FrameLinked, Starts
    <3>. QED  BY <3>1, <3>2 DEF BranchSuccs, InsideTarget
  <2>. QED  BY <1>1, <2>1, <2>2
<1>4. Top.pc \in Positions
  BY <1>1, LengthAssumption DEF Positions
<1>. QED  BY <1>1, <1>3, <1>4 DEF BlockLinked, FlowSuccs

(* The links of a block after a step that writes its flags.                *)
LEMMA FlagsGInv ==
    ASSUME IInv, EInv, GInv, stack # <<>>, WritesFlags, NEW b, b = Top.block,
           BlockLinked(b), ExitLinked(b)', code' = code
    PROVE  GInv'
<1>1. /\ blocks[b].end \in Nat /\ Moves(blocks[b].end) /\ Returns
      /\ Len(blocks') = Len(blocks)
  BY FlagsRow
<1>2. BlockLinked(b)'
  BY FlagsRow DEF BlockLinked
<1>. QED  BY <1>1, <1>2, ReturnsGInv

LEMMA RunOffEndGInv == IInv /\ CInv /\ EInv /\ GInv /\ RunOffEnd => GInv'
<1>. SUFFICES ASSUME IInv, CInv, EInv, GInv, RunOffEnd PROVE GInv'
  OBVIOUS
<1>1. /\ stack # <<>> /\ WritesFlags /\ Top.pc >= Length
      /\ code' = code /\ blocks' = blocks
  BY RunOffEndFlags DEF RunOffEnd, At, graph
<1>2. PICK b : b = Top.block
  OBVIOUS
<1>3. Top.pc \in Nat /\ RunsTo(code, blocks[b].start, Top.pc)
  BY <1>1, <1>2, TopGood DEF GoodFrame
<1>4. \A q \in Positions : q < Top.pc
  BY <1>1, <1>3, LengthAssumption DEF Positions
<1>5. BlockLinked(b)
  BY <1>3, <1>4 DEF RunsTo, BlockLinked
<1>6. FrameLinked(Top)
  BY <1>1, TopLinked
<1>7. ExitLinked(b)'
  BY <1>1, <1>2, <1>6 DEF FrameLinked, ExitLinked
<1>. QED  BY <1>1, <1>2, <1>5, <1>7, FlagsGInv

LEMMA EndCallGInv == IInv /\ CInv /\ EInv /\ GInv /\ EndCall => GInv'
<1>. SUFFICES ASSUME IInv, CInv, EInv, GInv, EndCall PROVE GInv'
  OBVIOUS
<1>1. stack # <<>> /\ WritesFlags /\ Top.phase = "returned" /\ code' = code
  BY EndCallFlags DEF EndCall, At
<1>2. PICK b, c : b = Top.block /\ c = (blocks[b].endsInCall \/ code[Top.pc].link)
  OBVIOUS
<1>3. /\ BlockLinked(b) /\ FrameLinked(Top)
      /\ IsBranch(code[Top.pc]) /\ blocks[b].end = Top.pc
  BY <1>1, <1>2, EndLinked, TopLinked
<1>4. b \in DOMAIN blocks /\ blocks[b] \in Block
  BY <1>1, <1>2, AtTop
<1>5. blocks' = [blocks EXCEPT ![b] = [blocks[b] EXCEPT !.endsInCall = c]]
  BY <1>2, Zenon DEF EndCall
<1>6. /\ blocks'[b].isExit = blocks[b].isExit
      /\ blocks'[b].endsInTailCall = blocks[b].endsInTailCall
      /\ blocks'[b].end = blocks[b].end
  BY <1>4, <1>5 DEF Block
<1>7. ExitLinked(b)'
  BY <1>1, <1>2, <1>3, <1>6 DEF FrameLinked, ExitLinked
<1>. QED  BY <1>1, <1>2, <1>3, <1>7, FlagsGInv

LEMMA EndBlockGInv == IInv /\ CInv /\ EInv /\ GInv /\ EndBlock => GInv'
<1>. SUFFICES ASSUME IInv, CInv, EInv, GInv, EndBlock PROVE GInv'
  OBVIOUS
<1>1. /\ stack # <<>> /\ WritesFlags /\ Top.phase = "branched"
      /\ ~ComesBack(code[Top.pc]) /\ code' = code
  BY EndBlockFlags DEF EndBlock, At
<1>2. PICK b : b = Top.block
  OBVIOUS
<1>3. /\ Top.pc \in Nat /\ blocks[b].end = Top.pc
      /\ BlockLinked(b) /\ FrameLinked(Top) /\ IsBranch(code[Top.pc])
  BY <1>1, <1>2, EndLinked, TopLinked
<1>4. /\ b \in 1..Len(blocks) /\ DOMAIN blocks = 1..Len(blocks)
      /\ blocks[b] \in Block /\ blocks \in Seq(Block)
  BY <1>1, <1>2, AtTop DEF IInv, TypeOK
<1>5. ~InsideTarget(code[Top.pc]) => Inside(b) = {} /\ SuccsOf(b) # {}
  BY <1>1, <1>2, <1>3 DEF FrameLinked
<1>6. blocks'[b].end = blocks[b].end /\ Inside(b)' = Inside(b) /\ SuccsOf(b)' = SuccsOf(b)
  BY <1>1, <1>2, FlagsRow
<1>7. ExitLinked(b)'
  <2>1. CASE /\ code[Top.pc].kind = "bclr"
             /\ blocks' = [blocks EXCEPT ![b].isExit = TRUE]
    <3>1. Inside(b) = {} /\ SuccsOf(b) # {}
      BY <1>5, <2>1 DEF InsideTarget, HasTarget
    <3>2. /\ blocks'[b].endsInTailCall = blocks[b].endsInTailCall
          /\ blocks'[b].endsInCall = blocks[b].endsInCall
      BY <1>4, <2>1 DEF Block
    <3>3. ~blocks[b].endsInTailCall /\ ~blocks[b].endsInCall
      BY <1>2, <1>3 DEF FrameLinked
    <3>. QED  BY <1>6, <3>1, <3>2, <3>3 DEF ExitLinked
  <2>2. CASE /\ Top.pc + 1 = Length /\ hasExternalSuccessor(b)
             /\ blocks' = [blocks EXCEPT ![b].isExit = TRUE, ![b].endsInCall = TRUE,
                                         ![b].endsInTailCall = TRUE]
    <3>1. \E j \in SuccsOf(b) : j \notin Internal
      BY <2>2 DEF hasExternalSuccessor, SuccsOf, Internal
    <3>2. ~InsideTarget(code[Top.pc])
      BY <1>1, <1>2, <1>3, <3>1 DEF FrameLinked, Inside
    <3>3. PICK new : new = [blocks[b] EXCEPT !.isExit = TRUE, !.endsInCall = TRUE,
                                             !.endsInTailCall = TRUE]
      OBVIOUS
    <3>4. new.isExit /\ new.endsInCall
      BY <1>4, <3>3 DEF Block
    <3>5. blocks'[b] = new
      BY <1>4, <2>2, <3>3
    <3>6. Top.pc = Length - 1
      BY <1>3, <2>2, LengthAssumption
    <3>. QED  BY <1>1, <1>3, <1>5, <1>6, <3>2, <3>4, <3>5, <3>6 DEF ExitLinked
  <2>3. CASE blocks' = blocks
    BY <1>2, <1>3, <2>3 DEF FrameLinked, ExitLinked
  <2>. QED  BY <1>2, <2>1, <2>2, <2>3 DEF EndBlock
<1>. QED  BY <1>1, <1>2, <1>3, <1>7, FlagsGInv

LEMMA ScanPlainGInv == IInv /\ CInv /\ EInv /\ GInv /\ ScanPlain => GInv'
<1>. SUFFICES ASSUME IInv, CInv, EInv, GInv, ScanPlain PROVE GInv'
  OBVIOUS
<1>1. /\ stack # <<>> /\ Top.phase = "scan" /\ Top.pc < Length
      /\ ~IsBranch(code[Top.pc]) /\ code' = code /\ TypeOK
  BY DEF ScanPlain, At, IInv
<1>2. PICK next : next = findInternalBlockByPosition(Top.pc + 1)
  OBVIOUS
<1>3. CASE next # 0 /\ createSuccessorFallthrough(Top.block, Top.pc, next) /\ Return
  <2>1. next \in 1..Len(blocks) /\ blocks[next].start = Top.pc + 1 /\ blocks[next].type = "INTERNAL"
    BY <1>1, <1>2, <1>3, FindInternal
  <2>. QED  BY <1>1, <1>3, <2>1, FallGInv
<1>4. CASE stack' = SetTop([Top EXCEPT !.pc = @ + 1]) /\ UNCHANGED <<graph, status>>
  BY <1>1, <1>4, AdvanceGInv
<1>. QED  BY <1>2, <1>3, <1>4 DEF ScanPlain

LEMMA StopGInv ==
    ASSUME GInv, UNCHANGED <<code, blocks, psTable, stack>>
    PROVE  GInv'
<1>1. Internal' = Internal /\ Scanning' = Scanning /\ Leaders' = Leaders /\ Closure' = Closure
  BY ClosureKept DEF Internal, Scanning, Leaders
<1>2. \A i : SuccsOf(i)' = SuccsOf(i)
  BY DEF SuccsOf
<1>3. \A i : Inside(i)' = Inside(i) /\ Starts(i)' = Starts(i)
  BY <1>1, <1>2 DEF Inside, Starts
<1>4. \A i : Same(i)
  BY <1>2, <1>3 DEF Same
<1>5. \A k \in DOMAIN stack : FrameLinked(stack[k])'
  <2>. SUFFICES ASSUME NEW k \in DOMAIN stack PROVE FrameLinked(stack[k])'
    OBVIOUS
  <2>1. PICK f : f = stack[k]
    OBVIOUS
  <2>2. FrameLinked(f)'
    BY <1>4, <2>1, SameLinks DEF GInv
  <2>. QED  BY <2>1, <2>2 DEF FrameLinked
<1>6. \A i \in Finished' : BlockLinked(i)'
  BY <1>1, <1>4, SameLinks DEF GInv, Finished
<1>7. \A i \in DOMAIN blocks : ExitLinked(i)'
  BY <1>4, SameLinks DEF GInv
<1>. QED  BY <1>1, <1>5, <1>6, <1>7 DEF GInv, GoodStart

LEMMA HandleBranchGInv == IInv /\ CInv /\ EInv /\ GInv /\ IInv' /\ HandleBranch => GInv'
<1>. SUFFICES ASSUME IInv, CInv, EInv, GInv, IInv', HandleBranch PROVE GInv'
  OBVIOUS
<1>1. /\ stack # <<>> /\ status = "running" /\ Top.phase = "scan"
      /\ Top.pc < Length /\ HasTarget(code[Top.pc]) /\ IsBranch(code[Top.pc])
  BY DEF HandleBranch, At, IsBranch
<1>2. PICK target : target = code[Top.pc].target
  OBVIOUS
<1>3. CASE target \in Positions /\ Enter(target, "branched") /\ UNCHANGED <<code, status>>
  <2>1. target \in Nat /\ target < Length
    BY <1>3, LengthAssumption DEF Positions
  <2>2. InsideTarget(code[Top.pc]) /\ target \in BranchSuccs(code, Top.pc)
    BY <1>1, <1>2, <1>3 DEF InsideTarget, BranchSuccs
  <2>. QED  BY <1>1, <1>2, <1>3, <2>1, <2>2, EnterGInv
<1>4. CASE /\ target = External
           /\ LinkNew(Top.block, Top.pc, NewBlock(Top.pc, "EXTERNAL"))
           /\ stack' = SetTop([Top EXCEPT !.phase = "branched"])
           /\ UNCHANGED <<code, status>>
  <2>1. ~InsideTarget(code[Top.pc])
    BY <1>2, <1>4, LengthAssumption DEF External, Positions, InsideTarget
  <2>. QED  BY <1>1, <1>4, <2>1, PlaceholderGInv
<1>5. CASE Stop("threw")
  BY <1>5, StopGInv DEF Stop
<1>. QED  BY <1>2, <1>3, <1>4, <1>5 DEF HandleBranch

LEMMA RuntimeBranchGInv == IInv /\ CInv /\ EInv /\ GInv /\ IInv' /\ RuntimeBranch => GInv'
<1>. SUFFICES ASSUME IInv, CInv, EInv, GInv, IInv', RuntimeBranch PROVE GInv'
  OBVIOUS
<1>1. /\ stack # <<>> /\ status = "running" /\ Top.phase = "scan"
      /\ ~InsideTarget(code[Top.pc])
  BY DEF RuntimeBranch, At, InsideTarget, HasTarget, AtRuntime
<1>. QED  BY <1>1, PlaceholderGInv DEF RuntimeBranch

LEMMA AfterBranchGInv == IInv /\ CInv /\ EInv /\ GInv /\ IInv' /\ AfterBranch => GInv'
<1>. SUFFICES ASSUME IInv, CInv, EInv, GInv, IInv', AfterBranch PROVE GInv'
  OBVIOUS
<1>1. /\ stack # <<>> /\ status = "running" /\ Top.phase = "branched"
      /\ ComesBack(code[Top.pc])
  BY DEF AfterBranch, At
<1>2. Top.pc \in Nat /\ Top.pc < Length /\ IsBranch(code[Top.pc])
  BY <1>1, TopGood DEF GoodFrame
<1>3. CASE Stop("aborted")
  BY <1>3, StopGInv DEF Stop
<1>4. CASE /\ ~(AssertsOn /\ Top.pc + 1 >= Length)
           /\ Enter(Top.pc + 1, "returned") /\ UNCHANGED <<code, status>>
  <2>1. Top.pc + 1 \in BranchSuccs(code, Top.pc) /\ Top.pc + 1 \in Nat
    BY <1>1, <1>2 DEF BranchSuccs
  <2>2. AssertsOn => Top.pc + 1 < Length
    BY <1>2, <1>4, LengthAssumption
  <2>. QED  BY <1>1, <1>2, <1>4, <2>1, <2>2, EnterGInv
<1>. QED  BY <1>3, <1>4 DEF AfterBranch

LEMMA InitGInv == Init => GInv
<1>. SUFFICES ASSUME Init PROVE GInv
  OBVIOUS
<1>1. PICK b, f : b = NewBlock(0, "INTERNAL") /\ f = [block |-> 1, pc |-> 0, phase |-> "scan"]
  OBVIOUS
<1>2. /\ b.start = 0 /\ b.type = "INTERNAL"
      /\ ~b.isExit /\ ~b.endsInCall /\ ~b.endsInTailCall
  BY <1>1 DEF NewBlock
<1>3. blocks = <<b>> /\ stack = <<f>>
  <2>1. Append(<<>>, f) = <<f>>
    OBVIOUS
  <2>. QED  BY <1>1, <2>1 DEF Init, Call
<1>4. DOMAIN blocks = {1} /\ blocks[1] = b /\ DOMAIN stack = {1} /\ stack[1] = f
  BY <1>3
<1>5. Internal = {1} /\ Scanning = {1} /\ Leaders = {0}
  BY <1>1, <1>2, <1>4 DEF Internal, Scanning, Leaders
<1>6. SuccsOf(1) = {}
  <2>1. psTable[1].succ = <<>>
    BY DEF Init, EmptyEntry
  <2>. QED  BY <2>1 DEF SuccsOf
<1>7. FrameLinked(f) /\ ExitLinked(1)
  BY <1>1, <1>2, <1>4, <1>6 DEF FrameLinked, ExitLinked
<1>8. GoodStart(0)
  BY ClosureEntry, LengthAssumption DEF GoodStart
<1>. QED  BY <1>4, <1>5, <1>7, <1>8 DEF GInv, Finished

-----------------------------------------------------------------------------
(* Every step keeps GInv.                                                  *)
LEMMA StepGInv == IInv /\ CInv /\ EInv /\ GInv /\ IInv' /\ [Next]_vars => GInv'
<1>. SUFFICES ASSUME IInv, CInv, EInv, GInv, IInv', [Next]_vars PROVE GInv'
  OBVIOUS
<1>1. CASE ScanPlain
  BY <1>1, ScanPlainGInv
<1>2. CASE RunOffEnd
  BY <1>2, RunOffEndGInv
<1>3. CASE HandleBranch
  BY <1>3, HandleBranchGInv
<1>4. CASE RuntimeBranch
  BY <1>4, RuntimeBranchGInv
<1>5. CASE AfterBranch
  BY <1>5, AfterBranchGInv
<1>6. CASE EndCall
  BY <1>6, EndCallGInv
<1>7. CASE EndBlock
  BY <1>7, EndBlockGInv
<1>8. CASE UNCHANGED vars
  BY <1>8, StopGInv DEF vars
<1>. QED  BY <1>1, <1>2, <1>3, <1>4, <1>5, <1>6, <1>7, <1>8 DEF Next, Terminated

(* Whatever the function, and in both builds, the analysis keeps GInv: the *)
(* successors it has entered are those the code has so far.                *)
THEOREM FlowLinked == Spec => []GInv
<1>1. IInv /\ CInv /\ EInv /\ GInv /\ IInv' /\ [Next]_vars => GInv'
  BY StepGInv
<1>. QED  BY <1>1, InitGInv, Inductive, Tended, EdgesAgree, PTL DEF Spec, EInv

(* A block marked as an exit really leaves the function, and one marked as *)
(* a tail call ends with the function's last instruction.                  *)
THEOREM ExitsDoLeave == Spec => []ExitsLeave
<1>1. GInv => ExitsLeave
  BY DEF GInv, ExitLinked, Inside, ExitsLeave
<1>. QED  BY <1>1, FlowLinked, PTL

(* Blocks start inside every function that has an instruction: where the   *)
(* assertions are compiled in, and else where the function is well ended.  *)
THEOREM StartInside == Spec => [](Length # 0 => StartsInFunction)
<1>1. ASSUME GInv, Length # 0, AssertsOn \/ WellEnded, NEW i \in Internal
      PROVE  blocks[i].start < Length
  <2>1. GoodStart(blocks[i].start)
    BY <1>1 DEF GInv, Leaders
  <2>2. CASE AssertsOn
    BY <1>1, <2>1, <2>2 DEF GoodStart
  <2>3. CASE WellEnded
    <3>1. blocks[i].start \in Positions
      BY <2>1, <2>3 DEF GoodStart, WellEnded
    <3>2. \A s \in Positions : s < Length
      BY LengthAssumption DEF Positions
    <3>. QED  BY <3>1, <3>2
  <2>. QED  BY <1>1, <2>2, <2>3
<1>2. GInv => (Length # 0 => StartsInFunction)
  BY <1>1 DEF StartsInFunction
<1>. QED  BY <1>2, FlowLinked, PTL

(* When the analysis of a well-ended function is done, each of its blocks  *)
(* ends with an instruction that leads exactly to its successors.          *)
LEMMA DoneBlocks ==
    ASSUME IInv, CInv, GInv, status = "done", WellEnded, NEW i \in Internal
    PROVE  /\ blocks[i].start \in Closure /\ blocks[i].end \in Positions
           /\ blocks[i].start \in Nat /\ blocks[i].end \in Nat
           /\ RunsTo(code, blocks[i].start, blocks[i].end)
           /\ Starts(i) = FlowSuccs(code, blocks[i].end)
<1>1. blocks[i].start \in Closure /\ blocks[i].start \in Nat /\ blocks[i].end \in Nat
  <2>1. blocks[i] \in Block
    BY ElementOfSeq, LenProperties DEF Internal, IInv, TypeOK
  <2>2. GoodStart(blocks[i].start)
    BY DEF GInv, Leaders
  <2>. QED  BY <2>1, <2>2 DEF GoodStart, Block
<1>2. i \in Finished
  BY DEF CInv, Finished, Scanning
<1>3. RunsTo(code, blocks[i].start, blocks[i].end)
  BY <1>2 DEF CInv, GoodBlock
<1>4. ~ \A q \in Positions : blocks[i].start <= q => ~IsBranch(code[q])
  <2>. SUFFICES ASSUME \A q \in Positions : blocks[i].start <= q => ~IsBranch(code[q])
                PROVE  FALSE
    OBVIOUS
  <2>1. blocks[i].start <= Length
    BY <1>1, LengthAssumption DEF Closure
  <2>2. RunsTo(code, blocks[i].start, Length)
    BY <2>1 DEF RunsTo
  <2>3. Length \in Closure
    BY <1>1, <2>2, ClosureRuns, LengthAssumption
  <2>. QED  BY <2>3, LengthAssumption DEF WellEnded, Positions
<1>5. BlockLinked(i)
  BY <1>2 DEF GInv
<1>. QED  BY <1>1, <1>3, <1>4, <1>5 DEF BlockLinked

(* Of the blocks of a function that ends well.                             *)
LEMMA ExactHere == IInv /\ CInv /\ GInv => GraphExact
<1> DEFINE S == UNION {blocks[i].start..blocks[i].end : i \in Internal}
<1>. SUFFICES ASSUME IInv, CInv, GInv PROVE GraphExact
  OBVIOUS
<1>1. ASSUME status = "done", WellEnded
      PROVE  S \subseteq Closure
  <2>. SUFFICES ASSUME NEW i \in Internal, NEW p \in blocks[i].start..blocks[i].end
                PROVE  p \in Closure
    OBVIOUS
  <2>1. PICK s, e : s = blocks[i].start /\ e = blocks[i].end
    OBVIOUS
  <2>2. s \in Closure /\ s \in Nat /\ e \in Nat /\ e \in Positions /\ RunsTo(code, s, e)
    BY <1>1, <2>1, DoneBlocks
  <2>3. p \in Nat /\ s <= p /\ p <= e
    BY <2>1, <2>2
  <2>4. p \in 0..Length
    BY <2>2, <2>3, LengthAssumption DEF Positions
  <2>5. RunsTo(code, s, p)
    BY <2>2, <2>3, LengthAssumption DEF RunsTo, Positions
  <2>. QED  BY <2>2, <2>4, <2>5, ClosureRuns
<1>2. ASSUME status = "done", WellEnded
      PROVE  ClosedUnderFlow(S)
  <2>1. \A j \in Internal : blocks[j].start \in S
    <3>. SUFFICES ASSUME NEW j \in Internal PROVE blocks[j].start \in S
      OBVIOUS
    <3>1. /\ blocks[j].start \in Nat /\ blocks[j].end \in Nat
          /\ blocks[j].start <= blocks[j].end
      BY <1>2, DoneBlocks DEF RunsTo
    <3>2. blocks[j].start \in blocks[j].start..blocks[j].end
      BY <3>1
    <3>. QED  BY <3>2
  <2>2. 0 \in S
    BY <1>2, <2>1 DEF GInv, Leaders
  <2>3. ASSUME NEW p \in S, p \in Positions
        PROVE  FlowSuccs(code, p) \subseteq S
    <3>1. PICK i \in Internal : p \in blocks[i].start..blocks[i].end
      OBVIOUS
    <3>2. PICK s, e : s = blocks[i].start /\ e = blocks[i].end
      OBVIOUS
    <3>3. s \in Nat /\ e \in Nat /\ RunsTo(code, s, e) /\ Starts(i) = FlowSuccs(code, e)
      BY <1>2, <3>2, DoneBlocks
    <3>4. p \in Nat /\ s <= p /\ p <= e
      BY <3>1, <3>2, <3>3
    <3>5. CASE p = e
      <4>1. Starts(i) \subseteq S
        BY <2>1 DEF Starts, Inside
      <4>. QED  BY <3>3, <3>5, <4>1
    <3>6. CASE p # e
      <4>1. ~IsBranch(code[p])
        BY <2>3, <3>3, <3>4, <3>6 DEF RunsTo
      <4>2. p + 1 \in s..e
        BY <3>3, <3>4, <3>6
      <4>3. p + 1 \in S
        BY <3>2, <4>2
      <4>. QED  BY <4>1, <4>3 DEF FlowSuccs
    <3>. QED  BY <3>5, <3>6
  <2>. QED  BY <2>2, <2>3 DEF ClosedUnderFlow
<1>3. ASSUME status = "done", WellEnded
      PROVE  /\ S = Closure
             /\ \A i \in Internal :
                   {blocks[j].start : j \in SuccsOf(i) \cap Internal}
                       = FlowSuccs(code, blocks[i].end)
  <2>1. S \subseteq Closure
    BY <1>1, <1>3
  <2>2. Closure \subseteq S
    <3>1. S \in SUBSET (0..Length)
      BY <2>1 DEF Closure
    <3>2. ClosedUnderFlow(S)
      BY <1>2, <1>3
    <3> HIDE DEF S
    <3>. QED  BY <3>1, <3>2 DEF Closure
  <2>3. \A i \in Internal : Starts(i) = FlowSuccs(code, blocks[i].end)
    BY <1>3, DoneBlocks
  <2>. QED  BY <2>1, <2>2, <2>3 DEF Starts, Inside
<1>. QED  BY <1>3 DEF GraphExact

(* When the analysis of a well-ended function is done, its blocks hold     *)
(* exactly the instructions control reaches, and the successors of a block *)
(* are exactly where its last instruction leads.                           *)
THEOREM GraphIsExact == Spec => []GraphExact
BY ExactHere, Inductive, Tended, FlowLinked, PTL

(* No branch that control reaches is left unresolved: it ends a block, and *)
(* that block's activation has dealt with its target.                      *)
LEMMA ReachedResolved ==
    ASSUME IInv, CInv, GInv, status = "done", WellEnded,
           NEW p \in Positions, p \in Closure, HasTarget(code[p])
    PROVE  code[p].target # Unresolved
<1>1. p \in UNION {blocks[i].start..blocks[i].end : i \in Internal}
  BY ExactHere DEF GraphExact
<1>2. PICK i \in Internal : p \in blocks[i].start..blocks[i].end
  BY <1>1
<1>3. /\ blocks[i].start \in Nat /\ blocks[i].end \in Nat
      /\ RunsTo(code, blocks[i].start, blocks[i].end)
  BY DoneBlocks
<1>4. p \in Nat /\ blocks[i].start <= p /\ p <= blocks[i].end /\ IsBranch(code[p])
  BY <1>2, <1>3 DEF IsBranch
<1>5. p = blocks[i].end
  BY <1>3, <1>4 DEF RunsTo
<1>6. GoodBlock(code, Leaders, blocks[i].start, blocks[i].end)
  BY DEF CInv, Finished, Scanning
<1>7. Leads(code[p], Leaders)
  BY <1>4, <1>5, <1>6 DEF GoodBlock
<1>8. \A l \in Leaders : l \in Nat
  BY DoneBlocks DEF Leaders
<1>. QED  BY <1>7, <1>8 DEF Leads, External, Unresolved

-----------------------------------------------------------------------------
(* Every block but the first has been entered from an earlier one, and     *)
(* only a block of the function has successors.                            *)

Rooted ==
    /\ \A i \in Internal \ {1} : \E j \in Internal : j < i /\ i \in SuccsOf(j)
    /\ \A i \in DOMAIN blocks : SuccsOf(i) # {} => i \in Internal

(* A step that enters an edge, to the new block if it makes one.           *)
LEMMA EdgeRooted ==
    ASSUME IInv, EInv, Rooted, IInv', stack # <<>>, NEW e, Moves(e),
           Len(blocks') \in {Len(blocks), Len(blocks) + 1},
           NEW to \in DOMAIN blocks', AddsEdge(to),
           Len(blocks) + 1 \in Internal' => to = Len(blocks) + 1
    PROVE  Rooted'
<1>1. PICK b, m : b = Top.block /\ m = Len(blocks) + 1
  OBVIOUS
<1>2. /\ Internal \subseteq Internal' /\ Internal' \subseteq Internal \cup {m}
      /\ b \in Internal /\ b \in Nat /\ b < m
  <2>1. b \in 1..Len(blocks) /\ Len(blocks) \in Nat /\ b \in Internal
    BY <1>1, AtTop DEF Internal
  <2>. QED  BY <1>1, <2>1, LeadersGrow DEF Moves
<1>3. to \in SuccsOf(b)' /\ \A j \in Internal : SuccsOf(j) \subseteq SuccsOf(j)'
  <2>1. SuccsOf(b)' = SuccsOf(b) \cup {to}
    BY <1>1, SuccAdded
  <2>2. \A j \in Internal : j # b => SuccsOf(j)' = SuccsOf(j)
    BY <1>1, OthersSame DEF Same, Internal
  <2>. QED  BY <2>1, <2>2
<1>4. ASSUME NEW i \in Internal', i # 1
      PROVE  \E j \in Internal' : j < i /\ i \in SuccsOf(j)'
  <2>1. CASE i \in Internal
    <3>1. PICK j \in Internal : j < i /\ i \in SuccsOf(j)
      BY <1>4, <2>1 DEF Rooted
    <3>. QED  BY <1>2, <1>3, <3>1
  <2>2. CASE i \notin Internal
    <3>1. i = m /\ to = m
      BY <1>1, <1>2, <1>4, <2>2
    <3>. QED  BY <1>2, <1>3, <3>1
  <2>. QED  BY <2>1, <2>2
<1>5. ASSUME NEW i \in DOMAIN blocks', SuccsOf(i)' # {}
      PROVE  i \in Internal'
  <2>1. CASE i = b
    BY <1>2, <2>1
  <2>2. CASE i \in DOMAIN blocks /\ i # b
    BY <1>1, <1>2, <1>5, <2>2, OthersSame DEF Same, Rooted
  <2>3. CASE i \notin DOMAIN blocks
    <3>1. PICK n, k : n = Len(blocks) /\ k = Len(blocks')
      OBVIOUS
    <3>2. /\ n \in Nat /\ DOMAIN blocks = 1..n /\ DOMAIN blocks' = 1..k
          /\ k \in {n, n + 1}
      BY <3>1, AtTop, LenProperties DEF IInv, TypeOK
    <3>3. k = n + 1 /\ i = n + 1
      BY <2>3, <3>2
    <3>. QED  BY <1>5, <3>1, <3>3, NewRow
  <2>. QED  BY <2>1, <2>2, <2>3
<1>. QED  BY <1>4, <1>5 DEF Rooted

LEMMA EnterRooted ==
    ASSUME IInv, EInv, Rooted, IInv', stack # <<>>,
           NEW target \in Nat, NEW phase \in {"branched", "returned"},
           Enter(target, phase), UNCHANGED <<code, status>>
    PROVE  Rooted'
<1>1. PICK f : f = [Top EXCEPT !.phase = phase]
  OBVIOUS
<1>2. Moves(Top.pc) /\ (EntersOld(target, f) \/ EntersNew(target, f))
  BY <1>1, EnterMoves
<1>3. PICK to \in 1..Len(blocks') :
          AddsEdge(to) /\ blocks'[to].start = target /\ blocks'[to].type = "INTERNAL"
  BY EnterAddsEdge
<1>4. PICK m : m = Len(blocks) + 1
  OBVIOUS
<1>5. /\ Len(blocks') \in {Len(blocks), m} /\ Len(blocks) \in Nat
      /\ DOMAIN blocks' = 1..Len(blocks') /\ DOMAIN blocks = 1..Len(blocks)
  BY <1>2, <1>4, AtTop, LenProperties DEF EntersOld, EntersNew, Moves, KeepsBlocks
<1>6. ASSUME m \in Internal' PROVE to = m
  <2>1. Len(blocks') = m /\ Len(blocks') # Len(blocks)
    <3>1. PICK k, l : k = Len(blocks') /\ l = Len(blocks)
      OBVIOUS
    <3>2. m \in 1..k /\ k \in {l, m} /\ l \in Nat /\ m = l + 1
      BY <1>4, <1>5, <1>6, <3>1 DEF Internal
    <3>. QED  BY <3>1, <3>2
  <2>2. EntersNew(target, f)
    BY <1>2, <2>1 DEF EntersOld
  <2>3. target \notin Leaders
    BY <2>2 DEF EntersNew
  <2>4. to \notin 1..Len(blocks)
    <3>. SUFFICES ASSUME to \in 1..Len(blocks) PROVE FALSE
      OBVIOUS
    <3>1. blocks[to].start = target /\ blocks[to].type = "INTERNAL"
      BY <1>2, <1>3 DEF Moves, KeepsBlocks
    <3>2. to \in Internal
      BY <1>5, <3>1 DEF Internal
    <3>. QED  BY <2>3, <3>1, <3>2 DEF Leaders
  <2>. QED
    <3>1. PICK l : l = Len(blocks)
      OBVIOUS
    <3>2. l \in Nat /\ m = l + 1 /\ to \in 1..m /\ to \notin 1..l
      BY <1>4, <1>5, <2>1, <2>4, <3>1
    <3>. QED  BY <3>2
<1>. QED  BY <1>2, <1>3, <1>4, <1>5, <1>6, EdgeRooted

LEMMA PlaceholderRooted ==
    ASSUME IInv, EInv, Rooted, IInv', stack # <<>>, NEW type \in {"EXTERNAL", "RUNTIME"},
           LinkNew(Top.block, Top.pc, NewBlock(Top.pc, type)),
           stack' = SetTop([Top EXCEPT !.phase = "branched"]), UNCHANGED <<code, status>>
    PROVE  Rooted'
<1>1. Moves(Top.pc)
  BY PlaceholderMoves
<1>2. PICK nb \in Block : nb = NewBlock(Top.pc, type)
  BY AtTop DEF NewBlock, Block, BlockTypes, Frame
<1>3. PICK m : m = Len(blocks) + 1
  OBVIOUS
<1>4. Len(blocks') = m /\ blocks'[m] = nb /\ AddsEdge(m)
  BY <1>2, <1>3, LinkNewGrows, NewBlockAddsEdge
<1>5. m \in DOMAIN blocks'
  <2>1. DOMAIN blocks' = 1..m /\ m \in Nat \ {0}
    BY <1>1, <1>3, <1>4, AtTop, LenProperties DEF Moves, KeepsBlocks
  <2>. QED  BY <2>1
<1>. QED  BY <1>1, <1>3, <1>4, <1>5, EdgeRooted

(* A step that enters none.                                                *)
LEMMA KeptRooted ==
    ASSUME Rooted, Internal' = Internal, psTable' = psTable, DOMAIN blocks' = DOMAIN blocks
    PROVE  Rooted'
<1>1. \A i : SuccsOf(i)' = SuccsOf(i)
  BY DEF SuccsOf
<1>2. \A i \in Internal' \ {1} : \E j \in Internal' : j < i /\ i \in SuccsOf(j)'
  BY <1>1 DEF Rooted
<1>3. \A i \in DOMAIN blocks' : SuccsOf(i)' # {} => i \in Internal'
  BY <1>1 DEF Rooted
<1>. QED  BY <1>2, <1>3 DEF Rooted

LEMMA FlagsRooted ==
    ASSUME IInv, EInv, Rooted, stack # <<>>, WritesFlags
    PROVE  Rooted'
<1>1. Moves(blocks[Top.block].end) /\ Len(blocks') = Len(blocks)
  BY FlagsRow
<1>2. Internal' = Internal /\ DOMAIN blocks' = DOMAIN blocks
  BY <1>1, LeadersGrow DEF Moves, WritesFlags
<1>. QED  BY <1>2, KeptRooted DEF WritesFlags

LEMMA InitRooted == Init => Rooted
<1>. SUFFICES ASSUME Init PROVE Rooted
  OBVIOUS
<1>1. DOMAIN blocks = {1} /\ psTable[1].succ = <<>>
  BY DEF Init, EmptyEntry
<1>2. Internal \subseteq {1} /\ SuccsOf(1) = {}
  BY <1>1 DEF Internal, SuccsOf
<1>. QED  BY <1>1, <1>2 DEF Rooted

LEMMA StepRooted == IInv /\ EInv /\ Rooted /\ IInv' /\ [Next]_vars => Rooted'
<1>. SUFFICES ASSUME IInv, EInv, Rooted, IInv', [Next]_vars PROVE Rooted'
  OBVIOUS
<1>1. UNCHANGED <<blocks, psTable>> => Rooted'
  BY KeptRooted DEF Internal
<1>2. CASE ScanPlain
  <2>1. PICK next : next = findInternalBlockByPosition(Top.pc + 1)
    OBVIOUS
  <2>2. stack # <<>> /\ TypeOK /\ code' = code
    BY <1>2 DEF ScanPlain, At, IInv
  <2>3. CASE next # 0 /\ createSuccessorFallthrough(Top.block, Top.pc, next) /\ Return
    <3>1. next \in 1..Len(blocks)
      BY <2>1, <2>2, <2>3, FindInternal
    <3>2. Moves(Top.pc) /\ Len(blocks') = Len(blocks) /\ AddsEdge(next)
      BY <2>2, <2>3, <3>1, FallMoves, FallAddsEdge
    <3>3. next \in DOMAIN blocks' /\ Len(blocks) + 1 \notin Internal'
      <4>1. DOMAIN blocks' = 1..Len(blocks) /\ Len(blocks) \in Nat
        BY <2>2, <3>2, AtTop, LenProperties DEF Moves, KeepsBlocks
      <4>2. Len(blocks) + 1 \notin 1..Len(blocks)
        BY <4>1
      <4>. QED  BY <3>1, <4>1, <4>2 DEF Internal
    <3>. QED  BY <2>2, <3>2, <3>3, EdgeRooted
  <2>4. CASE UNCHANGED graph
    BY <1>1, <2>4 DEF graph
  <2>. QED  BY <1>2, <2>1, <2>3, <2>4 DEF ScanPlain
<1>3. CASE RunOffEnd
  BY <1>1, <1>3 DEF RunOffEnd, graph
<1>4. CASE HandleBranch
  <2>1. PICK target : target = code[Top.pc].target
    OBVIOUS
  <2>2. stack # <<>>
    BY <1>4 DEF HandleBranch, At
  <2>3. CASE target \in Positions /\ Enter(target, "branched") /\ UNCHANGED <<code, status>>
    <3>1. target \in Nat
      BY <2>3, LengthAssumption DEF Positions
    <3>. QED  BY <2>2, <2>3, <3>1, EnterRooted
  <2>4. CASE /\ LinkNew(Top.block, Top.pc, NewBlock(Top.pc, "EXTERNAL"))
             /\ stack' = SetTop([Top EXCEPT !.phase = "branched"])
             /\ UNCHANGED <<code, status>>
    BY <2>2, <2>4, PlaceholderRooted
  <2>5. CASE Stop("threw")
    BY <1>1, <2>5 DEF Stop
  <2>. QED  BY <1>4, <2>1, <2>3, <2>4, <2>5 DEF HandleBranch
<1>5. CASE RuntimeBranch
  BY <1>5, PlaceholderRooted DEF RuntimeBranch, At
<1>6. CASE AfterBranch
  <2>1. stack # <<>>
    BY <1>6 DEF AfterBranch, At
  <2>2. Top.pc + 1 \in Nat
    BY <2>1, AtTop DEF Frame
  <2>3. CASE Stop("aborted")
    BY <1>1, <2>3 DEF Stop
  <2>4. CASE Enter(Top.pc + 1, "returned") /\ UNCHANGED <<code, status>>
    BY <2>1, <2>2, <2>4, EnterRooted
  <2>. QED  BY <1>6, <2>3, <2>4 DEF AfterBranch
<1>7. CASE EndCall
  BY <1>7, EndCallFlags, FlagsRooted
<1>8. CASE EndBlock
  BY <1>8, EndBlockFlags, FlagsRooted
<1>9. CASE UNCHANGED vars
  BY <1>1, <1>9 DEF vars
<1>. QED  BY <1>2, <1>3, <1>4, <1>5, <1>6, <1>7, <1>8, <1>9 DEF Next, Terminated

-----------------------------------------------------------------------------
(* Straight functions: calls of other functions and plain instructions,    *)
(* then a return.                                                          *)

CallIn(c, p) == c[p].kind = "b" /\ c[p].link /\ c[p].target = External
IsStraight(c) ==
    /\ Length # 0 /\ c \in [Positions -> Insn]
    /\ c[Length - 1].kind = "bclr" /\ ~c[Length - 1].link /\ c[Length - 1].always
    /\ \A p \in 0..(Length - 2) : c[p].kind = "plain" \/ CallIn(c, p)

(* The calls before position p.                                            *)
CallsUpTo(c, p) == {q \in 0..(p - 1) : CallIn(c, q)}
Calls(c, p) == Cardinality(CallsUpTo(c, p))

(* What an instruction of such a function is.                              *)
PlainAt(c, p) == p + 1 < Length /\ ~IsBranch(c[p]) /\ ~CallIn(c, p)
CallAt(c, p) ==
    /\ p + 1 < Length /\ CallIn(c, p) /\ IsBranch(c[p]) /\ ComesBack(c[p])
    /\ HasTarget(c[p]) /\ ~AtRuntime(c[p]) /\ c[p].target = External
ReturnAt(c, p) ==
    /\ p + 1 = Length /\ ~CallIn(c, p) /\ IsBranch(c[p]) /\ ~ComesBack(c[p])
    /\ ~HasTarget(c[p]) /\ AtRuntime(c[p]) /\ c[p].kind = "bclr"

LEMMA StraightAt ==
    ASSUME NEW c, IsStraight(c), NEW p \in Positions
    PROVE  PlainAt(c, p) \/ CallAt(c, p) \/ ReturnAt(c, p)
<1>1. p \in Nat /\ p < Length /\ Length \in Nat
  BY LengthAssumption DEF Positions
<1>2. CASE p = Length - 1
  <2>1. c[p].kind = "bclr" /\ ~c[p].link /\ c[p].always
    BY <1>2 DEF IsStraight
  <2>. QED  BY <1>1, <1>2, <2>1
       DEF ReturnAt, CallIn, IsBranch, HasTarget, AtRuntime, ComesBack
<1>3. CASE p # Length - 1
  <2>1. p \in 0..(Length - 2) /\ p + 1 < Length
    BY <1>1, <1>3
  <2>2. c[p].kind = "plain" \/ CallIn(c, p)
    BY <2>1 DEF IsStraight
  <2>. QED  BY <2>1, <2>2
       DEF PlainAt, CallAt, CallIn, IsBranch, HasTarget, AtRuntime, ComesBack
<1>. QED  BY <1>2, <1>3

(* The calls are counted along the function.                               *)
LEMMA CallsCount ==
    ASSUME NEW c, NEW p \in Nat
    PROVE  /\ Calls(c, p) \in Nat /\ Calls(c, 0) = 0
           /\ Calls(c, p + 1) = IF CallIn(c, p) THEN Calls(c, p) + 1 ELSE Calls(c, p)
           /\ \A q \in Nat : p <= q => Calls(c, p) <= Calls(c, q)
           /\ IsFiniteSet(CallsUpTo(c, p))
<1>1. \A q \in Nat : IsFiniteSet(CallsUpTo(c, q)) /\ Calls(c, q) \in Nat
  <2>. TAKE q \in Nat
  <2>1. IsFiniteSet(0..(q - 1))
    BY FS_Interval
  <2>2. CallsUpTo(c, q) \subseteq 0..(q - 1)
    BY DEF CallsUpTo
  <2>. QED  BY <2>1, <2>2, FS_Subset, FS_CardinalityType DEF Calls
<1>2. Calls(c, 0) = 0
  <2>1. CallsUpTo(c, 0) = {}
    BY DEF CallsUpTo
  <2>. QED  BY <2>1, FS_EmptySet DEF Calls
<1>3. CASE CallIn(c, p)
  <2>1. CallsUpTo(c, p + 1) = CallsUpTo(c, p) \cup {p} /\ p \notin CallsUpTo(c, p)
    BY <1>3 DEF CallsUpTo
  <2>2. Calls(c, p + 1) = Calls(c, p) + 1
    BY <1>1, <2>1, FS_AddElement DEF Calls
  <2>3. \A q \in Nat : p <= q => CallsUpTo(c, p) \subseteq CallsUpTo(c, q)
    BY DEF CallsUpTo
  <2>. QED  BY <1>1, <1>2, <1>3, <2>2, <2>3, FS_Subset DEF Calls
<1>4. CASE ~CallIn(c, p)
  <2>1. CallsUpTo(c, p + 1) = CallsUpTo(c, p)
    BY <1>4 DEF CallsUpTo
  <2>3. \A q \in Nat : p <= q => CallsUpTo(c, p) \subseteq CallsUpTo(c, q)
    BY DEF CallsUpTo
  <2>. QED  BY <1>1, <1>2, <1>4, <2>1, <2>3, FS_Subset DEF Calls
<1>. QED  BY <1>3, <1>4

(* There are none where no branch is.                                      *)
LEMMA CallsRun ==
    ASSUME NEW c, NEW s \in Nat, NEW p \in 0..Length, RunsTo(c, s, p)
    PROVE  Calls(c, p) = Calls(c, s)
<1>1. \A q \in Nat : s <= q /\ q < p => ~CallIn(c, q)
  <2>. SUFFICES ASSUME NEW q \in Nat, s <= q, q < p PROVE ~CallIn(c, q)
    OBVIOUS
  <2>1. q \in Positions
    BY LengthAssumption DEF Positions
  <2>. QED  BY <2>1 DEF RunsTo, CallIn, IsBranch, HasTarget
<1>2. CallsUpTo(c, p) = CallsUpTo(c, s)
  BY <1>1, LengthAssumption DEF CallsUpTo, RunsTo
<1>. QED  BY <1>2 DEF Calls

-----------------------------------------------------------------------------
(***************************************************************************)
(* The blocks of a straight function are made in pairs, as the calls are   *)
(* passed: block 2n + 1 starts after n calls and block 2n + 2 is the       *)
(* placeholder of the call, or the return, that ends it.                   *)
(***************************************************************************)
ChainAt(n) ==
    LET i == 2 * n + 1
        b == blocks[i]
    IN  /\ b.type = "INTERNAL" /\ Calls(code, b.start) = n
        /\ i = Len(blocks) => psTable[i].succ = <<>>
        /\ i < Len(blocks) => blocks[i + 1].type # "INTERNAL" /\ psTable[i + 1].succ = <<>>
        /\ i + 1 = Len(blocks) => psTable[i].succ = <<i + 1>>
        /\ i + 1 < Len(blocks) =>
              /\ b.end \in Positions /\ CallIn(code, b.end)
              /\ blocks[i + 2].start = b.end + 1
              /\ psTable[i].succ = <<i + 1, i + 2>>
        /\ Len(stack) <= n =>
              /\ i < Len(blocks)
              /\ (b.endsInCall <=> i + 1 < Len(blocks)) /\ (b.isExit <=> i + 1 = Len(blocks))
              /\ i + 1 = Len(blocks) => b.end + 1 = Length

(* The activations are in the first of these blocks, one in each.  The     *)
(* last one makes the blocks, until it returns.                            *)
Paired(n) == \E k \in Nat : n = 2 * k
ChainStack ==
    /\ \A k \in 1..Len(stack) :
          /\ stack[k].block = 2 * k - 1
          /\ k < Len(stack) => stack[k].phase = "returned"
    /\ stack # <<>> /\ Top.phase = "scan" =>
          Len(blocks) = 2 * Len(stack) - 1 /\ Top.pc < Length
    /\ stack # <<>> /\ Top.phase = "branched" => Len(blocks) = 2 * Len(stack)
    /\ stack # <<>> /\ Top.phase = "returned" =>
          Paired(Len(blocks)) /\ Len(blocks) > 2 * Len(stack)
    /\ stack = <<>> => Paired(Len(blocks))
    /\ stack # <<>> /\ Top.phase # "returned" =>
          \A i \in Internal : blocks[i].start <= Top.pc

Chained ==
    IsStraight(code) /\ status \in {"running", "done"} =>
        /\ Len(blocks) # 0 /\ blocks[1].start = 0
        /\ \A n \in Nat : 2 * n + 1 <= Len(blocks) => ChainAt(n)
        /\ ChainStack

(* What the invariants say of the activation at work.                      *)
LEMMA ChainTop ==
    ASSUME IInv, CInv, GInv, Chained, IsStraight(code), status = "running", stack # <<>>,
           NEW m, m = Len(stack)
    PROVE  /\ m \in Nat \ {0} /\ Len(blocks) \in Nat /\ Top \in Frame
           /\ DOMAIN blocks = 1..Len(blocks) /\ ChainStack
           /\ Top.block = 2 * m - 1 /\ Top.block \in 1..Len(blocks)
           /\ Top.pc \in Positions /\ Top.pc \in Nat /\ Top.pc < Length
           /\ blocks[Top.block].start \in Nat /\ blocks[Top.block].start <= Top.pc
           /\ blocks[Top.block].type = "INTERNAL"
           /\ Calls(code, Top.pc) = m - 1 /\ Calls(code, blocks[Top.block].start) = m - 1
           /\ ~blocks[Top.block].isExit /\ ~blocks[Top.block].endsInCall
           /\ Top.phase # "scan" => blocks[Top.block].end = Top.pc /\ IsBranch(code[Top.pc])
<1>1. /\ m \in Nat \ {0} /\ Len(blocks) \in Nat /\ Top \in Frame
      /\ DOMAIN blocks = 1..Len(blocks)
      /\ Top.block \in 1..Len(blocks) /\ blocks[Top.block].type = "INTERNAL"
  BY AtTop
<1>2. ChainStack /\ \A n \in Nat : 2 * n + 1 <= Len(blocks) => ChainAt(n)
  BY DEF Chained
<1>3. Top.block = 2 * m - 1
  <2>1. m \in 1..Len(stack) /\ Top = stack[m]
    BY <1>1 DEF Top
  <2>. QED  BY <1>2, <2>1 DEF ChainStack
<1>4. PICK n \in Nat : n = m - 1
  BY <1>1
<1>5. 2 * n + 1 = Top.block /\ 2 * n + 1 <= Len(blocks)
  BY <1>1, <1>3, <1>4
<1>6. Calls(code, blocks[Top.block].start) = n
  BY <1>2, <1>5 DEF ChainAt
<1>7. /\ Top.pc \in Nat /\ blocks[Top.block].start \in Nat
      /\ blocks[Top.block].start <= Top.pc
      /\ GoodFrame(code, Leaders, blocks[Top.block].start, blocks[Top.block].end, Top)
  BY TopGood
<1>8. /\ RunsTo(code, blocks[Top.block].start, Top.pc)
      /\ Top.phase # "scan" => Top.pc < Length /\ IsBranch(code[Top.pc])
                               /\ blocks[Top.block].end = Top.pc
  BY <1>7 DEF GoodFrame
<1>9. Top.pc < Length
  BY <1>2, <1>8 DEF ChainStack
<1>10. Top.pc \in Positions /\ Top.pc \in 0..Length
  BY <1>7, <1>9, LengthAssumption DEF Positions
<1>11. Calls(code, Top.pc) = n
  BY <1>6, <1>7, <1>8, <1>10, CallsRun
<1>12. FrameLinked(Top)
  BY TopLinked
<1>. QED
  BY <1>1, <1>2, <1>3, <1>4, <1>6, <1>7, <1>8, <1>9, <1>10, <1>11, <1>12 DEF FrameLinked

(* A block that is not at work stays as it is.                             *)
LEMMA ChainKept ==
    ASSUME IInv, NEW m \in Nat \ {0}, Top.block = 2 * m - 1, stack # <<>>,
           NEW e, KeepsBlocks(e), Untouched, code' = code,
           NEW n \in Nat, 2 * n + 1 <= Len(blocks), n # m - 1, ChainAt(n),
           \/ Len(blocks') = Len(blocks)
           \/ Len(blocks') = Len(blocks) + 1 /\ 2 * n + 2 < Len(blocks),
           Len(stack') <= n => Len(stack) <= n
    PROVE  ChainAt(n)'
<1>1. Len(blocks) \in Nat /\ Len(stack) \in Nat
  BY AtTop
<1>2. PICK i, N, M : i = 2 * n + 1 /\ N = Len(blocks) /\ M = Len(blocks')
  OBVIOUS
<1>3. /\ i \in Nat /\ N \in Nat /\ i <= N /\ i \in 1..N /\ i # Top.block
      /\ i + 1 # Top.block /\ (M = N \/ (M = N + 1 /\ i + 1 < N))
  BY <1>1, <1>2
<1>4. blocks'[i] = blocks[i] /\ psTable'[i].succ = psTable[i].succ
  BY <1>2, <1>3 DEF Untouched
<1>5. i < N => /\ blocks'[i + 1] = blocks[i + 1]
               /\ psTable'[i + 1].succ = psTable[i + 1].succ
  <2>1. i < N => i + 1 \in 1..N
    BY <1>3
  <2>. QED  BY <1>2, <1>3, <2>1 DEF Untouched
<1>6. i + 1 < N => blocks'[i + 2].start = blocks[i + 2].start
  <2>1. i + 1 < N => i + 2 \in 1..N
    BY <1>3
  <2>. QED  BY <1>2, <2>1 DEF KeepsBlocks
<1>7. /\ (i < M <=> i < N) /\ (i = M <=> i = N)
      /\ (i + 1 = M <=> i + 1 = N) /\ (i + 1 < M <=> i + 1 < N)
  BY <1>3
<1> DEFINE b == blocks[i]
<1>8. /\ b.type = "INTERNAL" /\ Calls(code, b.start) = n
      /\ i = N => psTable[i].succ = <<>>
      /\ i < N => blocks[i + 1].type # "INTERNAL" /\ psTable[i + 1].succ = <<>>
      /\ i + 1 = N => psTable[i].succ = <<i + 1>>
      /\ i + 1 < N =>
            /\ b.end \in Positions /\ CallIn(code, b.end)
            /\ blocks[i + 2].start = b.end + 1
            /\ psTable[i].succ = <<i + 1, i + 2>>
      /\ Len(stack) <= n =>
            /\ i < N
            /\ (b.endsInCall <=> i + 1 < N) /\ (b.isExit <=> i + 1 = N)
            /\ i + 1 = N => b.end + 1 = Length
  BY <1>2 DEF ChainAt
<1>9. LET d == blocks'[i]
      IN  /\ d.type = "INTERNAL" /\ Calls(code, d.start) = n
          /\ i = M => psTable'[i].succ = <<>>
          /\ i < M => blocks'[i + 1].type # "INTERNAL" /\ psTable'[i + 1].succ = <<>>
          /\ i + 1 = M => psTable'[i].succ = <<i + 1>>
          /\ i + 1 < M =>
                /\ d.end \in Positions /\ CallIn(code, d.end)
                /\ blocks'[i + 2].start = d.end + 1
                /\ psTable'[i].succ = <<i + 1, i + 2>>
          /\ Len(stack') <= n =>
                /\ i < M
                /\ (d.endsInCall <=> i + 1 < M) /\ (d.isExit <=> i + 1 = M)
                /\ i + 1 = M => d.end + 1 = Length
  <2> HIDE DEF b
  <2>1. blocks'[i] = b
    BY <1>4 DEF b
  <2>. QED  BY <1>4, <1>5, <1>6, <1>7, <1>8, <2>1
<1>. QED  BY <1>2, <1>9 DEF ChainAt

(* The activations below the top one, after a step.                        *)
LEMMA ChainCallers ==
    ASSUME IInv, ChainStack, NEW m \in Nat \ {0}, m = Len(stack), KeepsCallers,
           NEW k \in Nat \ {0}, k < m
    PROVE  stack'[k].block = 2 * k - 1 /\ stack'[k].phase = "returned"
<1>1. k \in 1..Len(stack) /\ k \in 1..(Len(stack) - 1) /\ k < Len(stack)
  OBVIOUS
<1>2. stack'[k] = stack[k]
  BY <1>1 DEF KeepsCallers
<1>. QED  BY <1>1, <1>2 DEF ChainStack

(* A plain instruction is passed.                                          *)
LEMMA ChainAdvances ==
    ASSUME IInv, CInv, GInv, Chained, IsStraight(code), status = "running", stack # <<>>,
           Top.phase = "scan", ScanPlain
    PROVE  Chained'
<1>1. PICK m : m = Len(stack)
  OBVIOUS
<1>2. /\ m \in Nat \ {0} /\ Len(blocks) \in Nat /\ Top \in Frame
      /\ DOMAIN blocks = 1..Len(blocks) /\ ChainStack
      /\ Top.block = 2 * m - 1 /\ Top.block \in 1..Len(blocks)
      /\ Top.pc \in Positions /\ Top.pc \in Nat
  BY <1>1, ChainTop
<1>3. Len(blocks) = 2 * m - 1 /\ \A i \in Internal : blocks[i].start <= Top.pc
  BY <1>1, <1>2 DEF ChainStack
<1>4. Top.pc + 1 < Length
  BY <1>2, StraightAt DEF ScanPlain, PlainAt, CallAt, ReturnAt
<1>5. findInternalBlockByPosition(Top.pc + 1) = 0
  <2>. SUFFICES ASSUME findInternalBlockByPosition(Top.pc + 1) # 0 PROVE FALSE
    OBVIOUS
  <2>1. PICK i \in 1..Len(blocks) : blocks[i].start = Top.pc + 1 /\ blocks[i].type = "INTERNAL"
    BY FindInternal DEF IInv
  <2>2. i \in Internal
    BY <1>2, <2>1 DEF Internal
  <2>. QED  BY <1>2, <1>3, <2>1, <2>2
<1>6. PICK f : f = [Top EXCEPT !.pc = Top.pc + 1]
  OBVIOUS
<1>7. f \in Frame /\ f.block = Top.block /\ f.pc = Top.pc + 1 /\ f.phase = "scan"
  BY <1>2, <1>6 DEF Frame
<1>8. stack' = SetTop(f) /\ UNCHANGED <<code, graph, status>>
  BY <1>5, <1>6 DEF ScanPlain
<1>9. KeepsCallers /\ Len(stack') = m /\ stack'[m] = f /\ blocks' = blocks /\ psTable' = psTable
  BY <1>1, <1>7, <1>8, AdvanceMoves DEF Moves, Stays, graph
<1>10. stack' # <<>> /\ Top' = f
  BY <1>2, <1>9 DEF Top
<1>11. ASSUME NEW n \in Nat, 2 * n + 1 <= Len(blocks)
       PROVE  ChainAt(n)'
  <2>1. ChainAt(n)
    BY <1>11 DEF Chained
  <2>. QED  BY <1>1, <1>8, <1>9, <2>1 DEF ChainAt
<1>12. ASSUME NEW k \in 1..m
       PROVE  stack'[k].block = 2 * k - 1 /\ (k < m => stack'[k].phase = "returned")
  <2>1. CASE k = m
    BY <1>2, <1>7, <1>9, <2>1
  <2>2. CASE k < m
    <3>1. k \in Nat \ {0}
      BY <1>2, <2>2
    <3>. QED  BY <1>1, <1>2, <1>7, <1>9, <2>2, <3>1, ChainCallers
  <2>. QED  BY <1>2, <2>1, <2>2
<1>13. Internal' = Internal /\ \A i \in Internal : blocks'[i].start <= Top.pc + 1
  <2>1. Internal' = Internal
    BY <1>9 DEF Internal
  <2>2. \A i \in Internal : blocks[i] \in Block
    BY ElementOfSeq, <1>2 DEF IInv, TypeOK, Internal
  <2>3. \A i \in Internal : blocks[i].start \in Nat
    BY <2>2 DEF Block
  <2>. QED  BY <1>2, <1>3, <1>9, <2>1, <2>3
<1>14. ChainStack'
  BY <1>3, <1>4, <1>7, <1>9, <1>10, <1>12, <1>13 DEF ChainStack
<1>. QED  BY <1>8, <1>9, <1>11, <1>14 DEF Chained

(* A branch is met: its placeholder is made.                               *)
LEMMA ChainLeaves ==
    ASSUME IInv, CInv, EInv, GInv, IInv', Chained, IsStraight(code), status = "running",
           stack # <<>>, Top.phase = "scan", NEW type \in {"EXTERNAL", "RUNTIME"},
           LinkNew(Top.block, Top.pc, NewBlock(Top.pc, type)),
           stack' = SetTop([Top EXCEPT !.phase = "branched"]), UNCHANGED <<code, status>>
    PROVE  Chained'
<1>1. PICK m : m = Len(stack)
  OBVIOUS
<1>2. /\ m \in Nat \ {0} /\ Len(blocks) \in Nat /\ Top \in Frame
      /\ DOMAIN blocks = 1..Len(blocks) /\ ChainStack
      /\ Top.block = 2 * m - 1 /\ Top.block \in 1..Len(blocks)
      /\ Top.pc \in Positions /\ Top.pc \in Nat
      /\ blocks[Top.block].type = "INTERNAL"
      /\ Calls(code, blocks[Top.block].start) = m - 1
  BY <1>1, ChainTop
<1>3. Len(blocks) = 2 * m - 1 /\ \A i \in Internal : blocks[i].start <= Top.pc
  BY <1>1, <1>2 DEF ChainStack
<1>4. PICK f : f = [Top EXCEPT !.phase = "branched"]
  OBVIOUS
<1>5. f \in Frame /\ f.block = Top.block /\ f.pc = Top.pc /\ f.phase = "branched"
  BY <1>2, <1>4 DEF Frame
<1>6. Moves(Top.pc) /\ Places(f)
  BY <1>4, PlaceholderMoves
<1>7. /\ KeepsBlocks(Top.pc) /\ KeepsCallers /\ Untouched /\ Len(blocks') = 2 * m
      /\ Len(stack') = m /\ stack'[m] = f /\ blocks'[2 * m].type # "INTERNAL"
  BY <1>1, <1>2, <1>3, <1>6 DEF Moves, Places, Stays
<1>8. NewBlock(Top.pc, type) \in Block
  BY <1>2 DEF NewBlock, Block, BlockTypes
<1>9. AddsEdge(2 * m)
  <2>1. AddsEdge(Len(blocks) + 1)
    BY <1>8, NewBlockAddsEdge
  <2>2. Len(blocks) + 1 = 2 * m
    BY <1>2, <1>3
  <2>. QED  BY <2>1, <2>2
<1>10. psTable'[2 * m].succ = <<>>
  <2>1. SuccsOf(2 * m)' = {}
    BY <1>2, <1>3, <1>7, <1>9, NewRow
  <2>2. Len(psTable') \in Nat /\ 2 * m \in 1..Len(psTable')
    BY <1>2, <1>7, LenProperties DEF IInv, TypeOK, TableCovers
  <2>3. psTable'[2 * m] \in PSEntry
    BY <2>2, ElementOfSeq DEF IInv, TypeOK
  <2>4. PICK s : s = psTable'[2 * m].succ
    OBVIOUS
  <2>5. s \in Seq(Nat \ {0}) /\ {s[k] : k \in DOMAIN s} = {}
    BY <2>1, <2>3, <2>4 DEF PSEntry, SuccsOf
  <2>6. s = <<>>
    <3>1. DOMAIN s = 1..Len(s) /\ Len(s) \in Nat
      BY <2>5, LenProperties
    <3>2. DOMAIN s = {}
      BY <2>5
    <3>3. Len(s) = 0
      BY <3>1, <3>2
    <3>. QED  BY <2>5, <3>3, EmptySeq
  <2>. QED  BY <2>4, <2>6
<1>11. psTable'[2 * m - 1].succ = <<2 * m>>
  <2>1. PICK n \in Nat : n = m - 1
    BY <1>2
  <2>2. 2 * n + 1 = 2 * m - 1 /\ 2 * n + 1 = Len(blocks)
    BY <1>2, <1>3, <2>1
  <2>3. ChainAt(n)
    BY <2>2 DEF Chained
  <2>4. psTable[2 * m - 1].succ = <<>>
    BY <2>2, <2>3 DEF ChainAt
  <2>5. Len(psTable) \in Nat /\ Len(psTable') \in Nat /\ 2 * m - 1 \in 1..Len(psTable)
        /\ 2 * m - 1 \in 1..Len(psTable')
    BY <1>2, <1>3, <1>9, LenProperties DEF IInv, TypeOK, TableCovers, AddsEdge
  <2>6. Row(2 * m - 1).succ = <<>>
    BY <2>4, <2>5 DEF Row
  <2>7. psTable'[2 * m - 1].succ = Append(<<>>, 2 * m)
    BY <1>2, <1>9, <2>5, <2>6 DEF AddsEdge
  <2>. QED  BY <2>7
<1>12. ASSUME NEW n \in Nat, 2 * n + 1 <= 2 * m
       PROVE  ChainAt(n)'
  <2>1. 2 * n + 1 <= Len(blocks)
    BY <1>2, <1>3, <1>12
  <2>2. ChainAt(n)
    BY <2>1 DEF Chained
  <2>3. CASE n # m - 1
    <3>1. 2 * n + 2 < Len(blocks) /\ Len(blocks') = Len(blocks) + 1
      BY <1>2, <1>3, <1>7, <2>1, <2>3
    <3>. QED  BY <1>1, <1>2, <1>6, <1>7, <2>1, <2>2, <2>3, <3>1, ChainKept DEF Moves
  <2>4. CASE n = m - 1
    <3>1. 2 * n + 1 = 2 * m - 1 /\ 2 * n + 2 = 2 * m /\ ~(Len(stack') <= n)
      BY <1>2, <1>7, <2>4
    <3>2. /\ blocks'[2 * m - 1].type = "INTERNAL"
          /\ Calls(code', blocks'[2 * m - 1].start) = n
      BY <1>2, <1>7, <2>4 DEF KeepsBlocks
    <3>. QED  BY <1>2, <1>7, <1>10, <1>11, <3>1, <3>2 DEF ChainAt
  <2>. QED  BY <2>3, <2>4
<1>13. ASSUME NEW k \in 1..m
       PROVE  stack'[k].block = 2 * k - 1 /\ (k < m => stack'[k].phase = "returned")
  <2>1. CASE k = m
    BY <1>2, <1>5, <1>7, <2>1
  <2>2. CASE k < m
    <3>1. k \in Nat \ {0}
      BY <1>2, <2>2
    <3>. QED  BY <1>1, <1>2, <1>5, <1>7, <2>2, <3>1, ChainCallers
  <2>. QED  BY <1>2, <2>1, <2>2
<1>14. Top' = f /\ stack' # <<>>
  BY <1>2, <1>7 DEF Top
<1>15. \A i \in Internal' : blocks'[i].start <= Top.pc
  <2>1. DOMAIN blocks' = 1..(2 * m)
    BY <1>7, LenProperties DEF KeepsBlocks
  <2>2. \A i \in Internal' : i \in 1..Len(blocks)
    BY <1>2, <1>3, <1>7, <2>1 DEF Internal
  <2>3. \A i \in Internal' : i \in Internal /\ blocks'[i].start = blocks[i].start
    BY <1>2, <1>7, <2>2 DEF KeepsBlocks, Internal
  <2>. QED  BY <1>3, <2>3
<1>16. ChainStack'
  BY <1>5, <1>7, <1>13, <1>14, <1>15 DEF ChainStack
<1>17. blocks'[1].start = 0
  <2>1. 1 \in 1..Len(blocks) /\ blocks[1].start = 0
    BY <1>2, <1>3 DEF Chained
  <2>. QED  BY <1>7, <2>1 DEF KeepsBlocks
<1>. QED  BY <1>2, <1>7, <1>12, <1>16, <1>17 DEF Chained

LEMMA AppendedPair ==
    ASSUME NEW x, NEW y
    PROVE  Append(<<x>>, y) = <<x, y>>
<1>1. PICK S : S = {x, y}
  OBVIOUS
<1>2. PICK s : s = Append(<<x>>, y)
  OBVIOUS
<1>3. <<x>> \in Seq(S) /\ Len(<<x>>) = 1 /\ <<x>>[1] = x /\ y \in S
  BY <1>1
<1>4. /\ s \in Seq(S) /\ Len(s) = 2 /\ s[2] = y /\ s[1] = x
  <2>1. s \in Seq(S) /\ Len(s) = 1 + 1 /\ s[1 + 1] = y /\ s[1] = <<x>>[1]
    BY <1>2, <1>3, AppendProperties
  <2>. QED  BY <1>3, <2>1
<1>5. s = [k \in 1..2 |-> s[k]]
  BY <1>4, LenProperties
<1>6. s = <<x, y>>
  BY <1>4, <1>5
<1>. QED  BY <1>2, <1>6

(* The block after a call is made and entered.                             *)
LEMMA ChainEnters ==
    ASSUME IInv, CInv, EInv, GInv, IInv', Chained, IsStraight(code), status = "running",
           stack # <<>>, Top.phase = "branched", ComesBack(code[Top.pc]),
           Enter(Top.pc + 1, "returned"), UNCHANGED <<code, status>>
    PROVE  Chained'
<1>1. PICK m : m = Len(stack)
  OBVIOUS
<1>2. /\ m \in Nat \ {0} /\ Len(blocks) \in Nat /\ Top \in Frame
      /\ DOMAIN blocks = 1..Len(blocks) /\ ChainStack
      /\ Top.block = 2 * m - 1 /\ Top.block \in 1..Len(blocks)
      /\ Top.pc \in Positions /\ Top.pc \in Nat
      /\ blocks[Top.block].type = "INTERNAL"
      /\ Calls(code, Top.pc) = m - 1 /\ Calls(code, blocks[Top.block].start) = m - 1
      /\ IsBranch(code[Top.pc])
  BY <1>1, ChainTop
<1>3. Len(blocks) = 2 * m /\ \A i \in Internal : blocks[i].start <= Top.pc
  BY <1>1, <1>2 DEF ChainStack
<1>4. Top.pc + 1 < Length /\ CallIn(code, Top.pc)
  BY <1>2, StraightAt DEF PlainAt, CallAt, ReturnAt
<1>5. PICK f, g : /\ f = [Top EXCEPT !.phase = "returned"]
                  /\ g = [block |-> 2 * m + 1, pc |-> Top.pc + 1, phase |-> "scan"]
  OBVIOUS
<1>6. f \in Frame /\ f.block = Top.block /\ f.pc = Top.pc /\ f.phase = "returned"
  BY <1>2, <1>5 DEF Frame
<1>7. Moves(Top.pc) /\ EntersNew(Top.pc + 1, f)
  <2>1. Top.pc + 1 \in Nat
    BY <1>2
  <2>2. Top.pc + 1 \notin Leaders
    <3>1. \A s \in Leaders : s <= Top.pc
      BY <1>3 DEF Leaders
    <3>. QED  BY <1>2, <3>1
  <2>. QED  BY <1>5, <2>1, <2>2, EnterMoves DEF EntersOld
<1>8. /\ KeepsBlocks(Top.pc) /\ KeepsCallers /\ Untouched /\ Len(blocks') = 2 * m + 1
      /\ Len(stack') = m + 1 /\ stack'[m] = f /\ stack'[m + 1] = g
      /\ blocks'[2 * m + 1].type = "INTERNAL" /\ blocks'[2 * m + 1].start = Top.pc + 1
  BY <1>1, <1>3, <1>5, <1>7 DEF Moves, EntersNew, NewBlock
<1>9. AddsEdge(2 * m + 1)
  <2>1. PICK to \in 1..Len(blocks') :
           AddsEdge(to) /\ blocks'[to].start = Top.pc + 1 /\ blocks'[to].type = "INTERNAL"
    BY <1>2, EnterAddsEdge
  <2>2. to = 2 * m + 1
    <3>. SUFFICES ASSUME to # 2 * m + 1 PROVE FALSE
      OBVIOUS
    <3>1. to \in 1..Len(blocks)
      BY <1>2, <1>3, <1>8, <2>1
    <3>2. to \in Internal /\ blocks[to].start = Top.pc + 1
      BY <1>2, <1>8, <2>1, <3>1 DEF KeepsBlocks, Internal
    <3>. QED  BY <1>2, <1>3, <3>2
  <2>. QED  BY <2>1, <2>2
<1>10. psTable'[2 * m + 1].succ = <<>>
  <2>1. SuccsOf(2 * m + 1)' = {}
    BY <1>2, <1>3, <1>8, <1>9, NewRow
  <2>2. Len(psTable') \in Nat /\ 2 * m + 1 \in 1..Len(psTable')
    BY <1>2, <1>8, LenProperties DEF IInv, TypeOK, TableCovers
  <2>3. psTable'[2 * m + 1] \in PSEntry
    BY <2>2, ElementOfSeq DEF IInv, TypeOK
  <2>4. PICK s : s = psTable'[2 * m + 1].succ
    OBVIOUS
  <2>5. s \in Seq(Nat \ {0}) /\ {s[k] : k \in DOMAIN s} = {}
    BY <2>1, <2>3, <2>4 DEF PSEntry, SuccsOf
  <2>6. s = <<>>
    <3>1. DOMAIN s = 1..Len(s) /\ Len(s) \in Nat
      BY <2>5, LenProperties
    <3>2. DOMAIN s = {}
      BY <2>5
    <3>3. Len(s) = 0
      BY <3>1, <3>2
    <3>. QED  BY <2>5, <3>3, EmptySeq
  <2>. QED  BY <2>4, <2>6
<1>11. PICK n \in Nat : n = m - 1
  BY <1>2
<1>12. /\ 2 * n + 1 = 2 * m - 1 /\ 2 * n + 1 <= Len(blocks) /\ ChainAt(n)
       /\ 2 * n + 2 = 2 * m /\ 2 * n + 3 = 2 * m + 1
  <2>1. 2 * n + 1 = 2 * m - 1 /\ 2 * n + 1 <= Len(blocks)
    BY <1>2, <1>3, <1>11
  <2>. QED  BY <1>2, <1>11, <2>1 DEF Chained
<1>13. /\ psTable[2 * m - 1].succ = <<2 * m>> /\ psTable[2 * m].succ = <<>>
       /\ blocks[2 * m].type # "INTERNAL"
  <2>1. 2 * n + 1 < Len(blocks) /\ 2 * n + 2 = Len(blocks)
    BY <1>2, <1>3, <1>11
  <2>2. 2 * n + 1 + 1 = 2 * m
    BY <1>2, <1>11
  <2>. QED  BY <1>3, <1>12, <2>1, <2>2 DEF ChainAt
<1>14. /\ psTable'[2 * m - 1].succ = <<2 * m, 2 * m + 1>>
       /\ psTable'[2 * m].succ = <<>> /\ blocks'[2 * m].type # "INTERNAL"
  <2>1. /\ Len(psTable) \in Nat /\ Len(psTable') \in Nat
        /\ 2 * m - 1 \in 1..Len(psTable) /\ 2 * m - 1 \in 1..Len(psTable')
        /\ 2 * m \in 1..Len(psTable) /\ 2 * m \in 1..Len(psTable')
    BY <1>2, <1>3, <1>9, LenProperties DEF IInv, TypeOK, TableCovers, AddsEdge
  <2>2. Row(2 * m - 1).succ = <<2 * m>> /\ Row(2 * m).succ = <<>>
    BY <1>13, <2>1 DEF Row
  <2>3. psTable'[2 * m - 1].succ = Append(<<2 * m>>, 2 * m + 1)
    BY <1>2, <1>9, <2>1, <2>2 DEF AddsEdge
  <2>4. 2 * m # Top.block /\ 2 * m \in 1..Len(blocks)
    BY <1>2, <1>3
  <2>5. psTable'[2 * m].succ = <<>>
    BY <1>9, <2>1, <2>2, <2>4 DEF AddsEdge
  <2>6. blocks'[2 * m].type # "INTERNAL"
    BY <1>8, <1>13, <2>4 DEF KeepsBlocks
  <2>7. Append(<<2 * m>>, 2 * m + 1) = <<2 * m, 2 * m + 1>>
    BY AppendedPair
  <2>. QED  BY <2>3, <2>5, <2>6, <2>7
<1>15. ASSUME NEW k \in Nat, 2 * k + 1 <= 2 * m + 1
       PROVE  ChainAt(k)'
  <2>1. CASE k < n
    <3>1. 2 * k + 1 <= Len(blocks) /\ k # m - 1 /\ 2 * k + 2 < Len(blocks)
          /\ Len(blocks') = Len(blocks) + 1 /\ (Len(stack') <= k => Len(stack) <= k)
      BY <1>1, <1>2, <1>3, <1>8, <1>11, <2>1
    <3>2. ChainAt(k)
      BY <3>1 DEF Chained
    <3>. QED  BY <1>2, <1>7, <1>8, <3>1, <3>2, ChainKept DEF Moves
  <2>2. CASE k = n
    <3>0. m \in Nat /\ k = m - 1 /\ Len(stack') = m + 1
      BY <1>2, <1>8, <1>11, <2>2
    <3>1. 2 * k + 1 = 2 * m - 1 /\ (2 * m - 1) + 1 = 2 * m /\ (2 * m - 1) + 2 = 2 * m + 1
          /\ ~(Len(stack') <= k)
      BY <3>0
    <3>2. /\ blocks'[2 * m - 1].type = "INTERNAL"
          /\ blocks'[2 * m - 1].end = Top.pc
          /\ Calls(code', blocks'[2 * m - 1].start) = k
      BY <1>2, <1>8, <1>11, <2>2 DEF KeepsBlocks
    <3>3. CallIn(code', Top.pc)
      BY <1>4
    <3>4. /\ 2 * m - 1 < Len(blocks') /\ 2 * m # Len(blocks') /\ 2 * m < Len(blocks')
          /\ 2 * m - 1 # Len(blocks')
      BY <1>2, <1>8
    <3>. QED  BY <1>2, <1>8, <1>14, <3>1, <3>2, <3>3, <3>4 DEF ChainAt
  <2>3. CASE k > n
    <3>1. k = m /\ 2 * k + 1 = 2 * m + 1 /\ ~(Len(stack') <= k)
      BY <1>2, <1>8, <1>11, <1>15, <2>3
    <3>2. Calls(code, Top.pc + 1) = m
      BY <1>2, <1>4, CallsCount
    <3>3. Calls(code', blocks'[2 * m + 1].start) = m
      BY <1>8, <3>2
    <3>4. 2 * m + 1 = Len(blocks') /\ ~(2 * m + 1 < Len(blocks'))
          /\ 2 * m + 1 + 1 # Len(blocks') /\ ~(2 * m + 1 + 1 < Len(blocks'))
      BY <1>2, <1>8
    <3>. QED  BY <1>8, <1>10, <3>1, <3>3, <3>4 DEF ChainAt
  <2>. QED  BY <1>11, <2>1, <2>2, <2>3
<1>16. ASSUME NEW k \in 1..(m + 1)
       PROVE  stack'[k].block = 2 * k - 1 /\ (k < m + 1 => stack'[k].phase = "returned")
  <2>1. CASE k = m + 1
    <3>1. g.block = 2 * m + 1
      BY <1>5
    <3>2. 2 * m + 1 = 2 * k - 1 /\ ~(k < m + 1)
      BY <1>2, <2>1
    <3>. QED  BY <1>8, <2>1, <3>1, <3>2
  <2>2. CASE k = m
    <3>1. f.block = 2 * k - 1
      BY <1>2, <1>6, <2>2
    <3>. QED  BY <1>6, <1>8, <2>2, <3>1
  <2>3. CASE k < m
    <3>1. k \in Nat \ {0}
      BY <1>2, <2>3
    <3>. QED  BY <1>1, <1>2, <1>8, <2>3, <3>1, ChainCallers
  <2>. QED  BY <1>2, <2>1, <2>2, <2>3
<1>17. Top' = g /\ stack' # <<>>
  BY <1>2, <1>8 DEF Top
<1>18. \A i \in Internal' : blocks'[i].start <= Top.pc + 1
  <2>. SUFFICES ASSUME NEW i \in Internal' PROVE blocks'[i].start <= Top.pc + 1
    OBVIOUS
  <2>1. i \in 1..(2 * m + 1) /\ blocks'[i].type = "INTERNAL"
    <3>1. DOMAIN blocks' = 1..(2 * m + 1)
      BY <1>8, LenProperties DEF KeepsBlocks
    <3>. QED  BY <3>1 DEF Internal
  <2>2. CASE i = 2 * m + 1
    BY <1>2, <1>8, <2>2
  <2>3. CASE i # 2 * m + 1
    <3>1. i \in 1..Len(blocks)
      BY <1>2, <1>3, <2>1, <2>3
    <3>2. i \in Internal /\ blocks'[i].start = blocks[i].start
      BY <1>2, <1>8, <2>1, <3>1 DEF KeepsBlocks, Internal
    <3>3. blocks[i] \in Block
      BY <3>1, ElementOfSeq DEF IInv, TypeOK
    <3>. QED  BY <1>2, <1>3, <3>2, <3>3 DEF Block
  <2>. QED  BY <2>2, <2>3
<1>19. ChainStack'
  <2>1. Len(blocks') = 2 * (m + 1) - 1
    BY <1>2, <1>8
  <2>2. g.phase = "scan" /\ g.pc = Top.pc + 1
    BY <1>5
  <2>. QED  BY <1>4, <1>8, <1>16, <1>17, <1>18, <2>1, <2>2 DEF ChainStack
<1>20. blocks'[1].start = 0 /\ Len(blocks') # 0
  <2>1. 1 \in 1..Len(blocks) /\ blocks[1].start = 0
    BY <1>2, <1>3 DEF Chained
  <2>. QED  BY <1>2, <1>8, <2>1 DEF KeepsBlocks
<1>. QED  BY <1>8, <1>15, <1>19, <1>20 DEF Chained

(* An activation returns to the one before it.                             *)
LEMMA ChainReturns ==
    ASSUME IInv, CInv, GInv, Chained, IsStraight(code), status = "running", stack # <<>>,
           Top.phase # "scan", NEW m, m = Len(stack), WritesFlags,
           Paired(Len(blocks)), 2 * m <= Len(blocks),
           (blocks'[Top.block].endsInCall <=> 2 * m < Len(blocks)),
           (blocks'[Top.block].isExit <=> 2 * m = Len(blocks)),
           2 * m = Len(blocks) => Top.pc + 1 = Length
    PROVE  Chained'
<1>1. /\ m \in Nat \ {0} /\ Len(blocks) \in Nat /\ Top \in Frame
      /\ ChainStack /\ Top.block = 2 * m - 1 /\ Top.block \in 1..Len(blocks)
      /\ blocks[Top.block].end = Top.pc
  BY ChainTop
<1>2. /\ KeepsBlocks(Top.pc) /\ KeepsCallers /\ Untouched /\ Len(blocks') = Len(blocks)
      /\ Len(stack') = m - 1 /\ code' = code /\ psTable' = psTable
      /\ stack' \in Seq(Frame)
  BY <1>1, FlagsMove DEF Moves, Returns, WritesFlags, KeepsCallers
<1>3. ASSUME NEW n \in Nat, 2 * n + 1 <= Len(blocks)
      PROVE  ChainAt(n)'
  <2>1. ChainAt(n)
    BY <1>3 DEF Chained
  <2>2. CASE n # m - 1
    <3>1. Len(stack') <= n => Len(stack) <= n
      BY <1>1, <1>2, <2>2
    <3>. QED  BY <1>1, <1>2, <1>3, <2>1, <2>2, <3>1, ChainKept
  <2>3. CASE n = m - 1
    <3>1. PICK i, N : i = 2 * m - 1 /\ N = Len(blocks)
      OBVIOUS
    <3>2. /\ i = 2 * n + 1 /\ i + 1 = 2 * m /\ i \in Nat /\ N \in Nat /\ i < N
          /\ i = Top.block /\ i \in 1..N /\ i + 1 \in 1..N /\ i + 1 # Top.block
          /\ i + 1 < N => i + 2 \in 1..N
      BY <1>1, <2>3, <3>1
    <3>3. /\ blocks'[i].type = blocks[i].type /\ blocks'[i].start = blocks[i].start
          /\ blocks'[i].end = blocks[i].end
          /\ blocks'[i + 1] = blocks[i + 1]
          /\ i + 1 < N => blocks'[i + 2].start = blocks[i + 2].start
      BY <1>1, <1>2, <3>1, <3>2 DEF KeepsBlocks, Untouched
    <3>4. (blocks'[i].endsInCall <=> i + 1 < N) /\ (blocks'[i].isExit <=> i + 1 = N)
          /\ (i + 1 = N => blocks'[i].end + 1 = Length)
      BY <1>1, <3>1, <3>2, <3>3
    <3>5. /\ blocks[i].type = "INTERNAL" /\ Calls(code, blocks[i].start) = n
          /\ i < N => blocks[i + 1].type # "INTERNAL" /\ psTable[i + 1].succ = <<>>
          /\ i + 1 = N => psTable[i].succ = <<i + 1>>
          /\ i + 1 < N =>
              /\ blocks[i].end \in Positions /\ CallIn(code, blocks[i].end)
              /\ blocks[i + 2].start = blocks[i].end + 1
              /\ psTable[i].succ = <<i + 1, i + 2>>
      BY <2>1, <3>1, <3>2 DEF ChainAt
    <3>6. i # N
      BY <3>2
    <3>. QED  BY <1>2, <3>1, <3>2, <3>3, <3>4, <3>5, <3>6 DEF ChainAt
  <2>. QED  BY <2>2, <2>3
<1>4. ASSUME NEW k \in 1..(m - 1)
      PROVE  stack'[k].block = 2 * k - 1 /\ stack'[k].phase = "returned"
  <2>1. k \in Nat \ {0} /\ k < m
    BY <1>1
  <2>. QED  BY <1>1, <1>2, <2>1, ChainCallers
<1>5. stack' # <<>> => Top'.phase = "returned" /\ Len(blocks) > 2 * (m - 1)
  <2>1. stack' # <<>> => m - 1 \in 1..(m - 1)
    BY <1>1, <1>2, EmptySeq
  <2>2. Top' = stack'[m - 1]
    BY <1>2 DEF Top
  <2>. QED  BY <1>1, <1>4, <2>1, <2>2
<1>6. ChainStack'
  <2>1. ~("returned" = "scan") /\ ~("returned" = "branched")
    OBVIOUS
  <2>2. Paired(Len(blocks))'
    BY <1>2 DEF Paired
  <2>. QED  BY <1>1, <1>2, <1>4, <1>5, <2>1, <2>2 DEF ChainStack
<1>7. blocks'[1].start = 0 /\ Len(blocks') # 0
  <2>1. 1 \in 1..Len(blocks) /\ blocks[1].start = 0
    BY <1>1 DEF Chained
  <2>. QED  BY <1>1, <1>2, <2>1 DEF KeepsBlocks
<1>. QED  BY <1>2, <1>3, <1>6, <1>7 DEF Chained

LEMMA EndCallChained ==
    ASSUME IInv, CInv, GInv, Chained, IsStraight(code), EndCall
    PROVE  Chained'
<1>1. stack # <<>> /\ WritesFlags /\ Top.phase = "returned" /\ status = "running"
  BY EndCallFlags DEF EndCall, At
<1>2. PICK m, n, b : m = Len(stack) /\ n = m - 1 /\ b = Top.block
  OBVIOUS
<1>3. /\ m \in Nat \ {0} /\ Len(blocks) \in Nat /\ ChainStack
      /\ b = 2 * m - 1 /\ b \in 1..Len(blocks)
      /\ ~blocks[b].isExit /\ ~blocks[b].endsInCall /\ blocks[b].end = Top.pc
  BY <1>1, <1>2, ChainTop
<1>4. Paired(Len(blocks)) /\ Len(blocks) > 2 * m
  BY <1>1, <1>2, <1>3 DEF ChainStack
<1>5. n \in Nat /\ b = 2 * n + 1 /\ 2 * n + 1 <= Len(blocks) /\ b + 1 < Len(blocks)
  BY <1>2, <1>3, <1>4
<1>6. CallIn(code, blocks[b].end)
  <2>1. ChainAt(n)
    BY <1>1, <1>5 DEF Chained
  <2>. QED  BY <1>5, <2>1 DEF ChainAt
<1>7. code[Top.pc].link
  BY <1>3, <1>6 DEF CallIn
<1>8. blocks[b] \in Block /\ blocks \in Seq(Block)
  BY <1>1, <1>2, AtTop DEF IInv, TypeOK
<1>9. PICK c : c = (blocks[b].endsInCall \/ code[Top.pc].link)
  OBVIOUS
<1>10. c = TRUE
  BY <1>7, <1>9
<1>11. blocks' = [blocks EXCEPT ![b] = [blocks[b] EXCEPT !.endsInCall = c]]
  BY <1>2, <1>9, Zenon DEF EndCall
<1>12. blocks'[b].isExit = blocks[b].isExit /\ blocks'[b].endsInCall
  BY <1>3, <1>8, <1>10, <1>11 DEF Block
<1>13. /\ (blocks'[b].endsInCall <=> 2 * m < Len(blocks))
       /\ (blocks'[b].isExit <=> 2 * m = Len(blocks))
       /\ (2 * m = Len(blocks) => Top.pc + 1 = Length) /\ 2 * m <= Len(blocks)
  <2>1. blocks'[b] \in Block
    <3>1. blocks' \in Seq(Block) /\ Len(blocks') = Len(blocks)
      BY <1>1, FlagsKeep DEF KeepsBlocks
    <3>. QED  BY <1>3, <3>1, ElementOfSeq
  <2>2. blocks'[b].endsInCall = TRUE /\ blocks'[b].isExit = FALSE
    BY <1>3, <1>8, <1>12, <2>1 DEF Block
  <2>. QED  BY <1>3, <1>4, <2>2
<1>. QED  BY <1>1, <1>2, <1>4, <1>13, ChainReturns

LEMMA EndBlockChained ==
    ASSUME IInv, CInv, GInv, Chained, IsStraight(code), EndBlock
    PROVE  Chained'
<1>1. /\ stack # <<>> /\ WritesFlags /\ Top.phase = "branched" /\ status = "running"
      /\ ~ComesBack(code[Top.pc])
  BY EndBlockFlags DEF EndBlock, At
<1>2. PICK m, b : m = Len(stack) /\ b = Top.block
  OBVIOUS
<1>3. /\ m \in Nat \ {0} /\ Len(blocks) \in Nat /\ ChainStack
      /\ b \in 1..Len(blocks) /\ Top.pc \in Positions
      /\ ~blocks[b].isExit /\ ~blocks[b].endsInCall /\ IsBranch(code[Top.pc])
  BY <1>1, <1>2, ChainTop
<1>4. Len(blocks) = 2 * m
  BY <1>1, <1>2, <1>3 DEF ChainStack
<1>5. Top.pc + 1 = Length /\ code[Top.pc].kind = "bclr"
  BY <1>1, <1>3, StraightAt DEF PlainAt, CallAt, ReturnAt
<1>6. blocks[b] \in Block /\ blocks \in Seq(Block)
  BY <1>1, <1>2, AtTop DEF IInv, TypeOK
<1>7. blocks' = [blocks EXCEPT ![b].isExit = TRUE]
  BY <1>2, <1>5 DEF EndBlock
<1>8. blocks'[b].isExit = TRUE /\ blocks'[b].endsInCall = FALSE
  BY <1>3, <1>6, <1>7 DEF Block
<1>9. Paired(Len(blocks))
  BY <1>3, <1>4 DEF Paired
<1>10. /\ (blocks'[b].endsInCall <=> 2 * m < Len(blocks))
       /\ (blocks'[b].isExit <=> 2 * m = Len(blocks))
       /\ 2 * m <= Len(blocks)
  BY <1>3, <1>4, <1>8
<1>. QED  BY <1>1, <1>2, <1>5, <1>9, <1>10, ChainReturns

(* Every step keeps the chain.                                             *)
LEMMA StepChained ==
    ASSUME IInv, CInv, EInv, GInv, IInv', Chained, [Next]_vars
    PROVE  Chained'
<1>1. CASE UNCHANGED vars
  <2>1. Chained' = Chained
    BY <1>1 DEF vars, Chained, ChainAt, ChainStack, Internal, Top
  <2>. QED  BY <2>1
<1>. SUFFICES ASSUME Next, ~UNCHANGED vars PROVE Chained'
  BY <1>1
<1>2. status = "running" /\ code' = code
  BY DEF Next, Terminated, ScanPlain, RunOffEnd, HandleBranch, RuntimeBranch, AfterBranch,
         EndCall, EndBlock, At, Stop
<1>. SUFFICES ASSUME IsStraight(code), status' \in {"running", "done"} PROVE Chained'
  BY <1>2 DEF Chained
<1>3. stack # <<>> =>
        Top.pc \in Positions /\ Top.pc < Length /\ (Top.phase = "scan" \/ IsBranch(code[Top.pc]))
  BY <1>2, ChainTop
<1>4. CASE ScanPlain
  BY <1>4, ChainAdvances DEF ScanPlain, At
<1>5. CASE RunOffEnd
  BY <1>3, <1>5, LengthAssumption DEF RunOffEnd, At, Positions
<1>6. CASE HandleBranch
  <2>1. stack # <<>> /\ Top.phase = "scan" /\ HasTarget(code[Top.pc])
    BY <1>6 DEF HandleBranch, At
  <2>2. code[Top.pc].target = External
    BY <1>3, <2>1, StraightAt DEF PlainAt, CallAt, ReturnAt, IsBranch
  <2>3. External \notin Positions /\ External # Unresolved
    BY LengthAssumption DEF External, Unresolved, Positions
  <2>4. /\ LinkNew(Top.block, Top.pc, NewBlock(Top.pc, "EXTERNAL"))
        /\ stack' = SetTop([Top EXCEPT !.phase = "branched"])
        /\ UNCHANGED <<code, status>>
    BY <1>6, <2>2, <2>3 DEF HandleBranch
  <2>. QED  BY <1>2, <2>1, <2>4, ChainLeaves
<1>7. CASE RuntimeBranch
  <2>1. /\ stack # <<>> /\ Top.phase = "scan"
        /\ LinkNew(Top.block, Top.pc, NewBlock(Top.pc, "RUNTIME"))
        /\ stack' = SetTop([Top EXCEPT !.phase = "branched"])
        /\ UNCHANGED <<code, status>>
    BY <1>7 DEF RuntimeBranch, At
  <2>. QED  BY <1>2, <2>1, ChainLeaves
<1>8. CASE AfterBranch
  <2>1. stack # <<>> /\ Top.phase = "branched" /\ ComesBack(code[Top.pc])
    BY <1>8 DEF AfterBranch, At
  <2>2. Enter(Top.pc + 1, "returned") /\ UNCHANGED <<code, status>>
    BY <1>8 DEF AfterBranch, Stop
  <2>. QED  BY <1>2, <2>1, <2>2, ChainEnters
<1>9. CASE EndCall
  BY <1>9, EndCallChained
<1>10. CASE EndBlock
  BY <1>10, EndBlockChained
<1>. QED  BY <1>4, <1>5, <1>6, <1>7, <1>8, <1>9, <1>10 DEF Next, Terminated

LEMMA InitChained == Init => Chained
<1>. SUFFICES ASSUME Init, IsStraight(code) PROVE Chained
  BY DEF Chained
<1>1. PICK b, f : b = NewBlock(0, "INTERNAL") /\ f = [block |-> 1, pc |-> 0, phase |-> "scan"]
  OBVIOUS
<1>2. b.start = 0 /\ b.type = "INTERNAL" /\ f.block = 1 /\ f.pc = 0 /\ f.phase = "scan"
  BY <1>1 DEF NewBlock
<1>3. blocks = <<b>> /\ stack = <<f>> /\ psTable = <<EmptyEntry>>
  <2>1. Append(<<>>, f) = <<f>>
    OBVIOUS
  <2>. QED  BY <1>1, <2>1 DEF Init, Call
<1>4. /\ Len(blocks) = 1 /\ blocks[1] = b /\ Len(stack) = 1 /\ stack[1] = f
      /\ psTable[1].succ = <<>> /\ DOMAIN blocks = {1} /\ stack # <<>>
  BY <1>3 DEF EmptyEntry
<1>5. Top = f
  BY <1>4 DEF Top
<1>6. ASSUME NEW n \in Nat, 2 * n + 1 <= 1 PROVE ChainAt(n)
  <2>1. n = 0 /\ 2 * n + 1 = 1 /\ ~(1 <= n) /\ ~(1 + 1 <= 1) /\ ~(1 < 1) /\ 1 + 1 # 1
    BY <1>6
  <2>2. Calls(code, 0) = 0
    BY CallsCount
  <2>. QED  BY <1>2, <1>4, <2>1, <2>2 DEF ChainAt
<1>7. ChainStack
  <2>1. 0 < Length
    BY LengthAssumption DEF IsStraight
  <2>2. \A i \in Internal : blocks[i].start <= 0
    BY <1>2, <1>4 DEF Internal
  <2>3. ~("scan" = "branched") /\ ~("scan" = "returned")
    OBVIOUS
  <2>4. \A k \in 1..1 : stack[k].block = 2 * k - 1 /\ ~(k < 1)
    BY <1>2, <1>4
  <2>. QED  BY <1>2, <1>4, <1>5, <2>1, <2>2, <2>3, <2>4 DEF ChainStack
<1>. QED  BY <1>2, <1>4, <1>6, <1>7 DEF Chained

(* Whatever straight function is analysed, its blocks are in the order of  *)
(* the code, one for each call and one for the return, with a placeholder  *)
(* after each.                                                             *)
THEOREM StraightChained == Spec => []Chained
<1>1. IInv /\ CInv /\ EInv /\ GInv /\ IInv' /\ Chained /\ [Next]_vars => Chained'
  BY StepChained
<1>. QED
  BY <1>1, InitChained, Inductive, Tended, EdgesAgree, FlowLinked, PTL DEF Spec, EInv

-----------------------------------------------------------------------------
(* The finished graph of a straight function.                              *)

(* Control reaches every instruction of it, and nothing past the last one. *)
LEMMA StraightReached ==
    ASSUME IsStraight(code), code \in [Positions -> Insn]
    PROVE  WellEnded /\ Closure = Positions
<1>1. Length \in Nat \ {0} /\ 0 \in Positions /\ Positions \subseteq 0..Length
  BY LengthAssumption DEF IsStraight, Positions
<1>2. \A p \in Positions : p + 1 < Length => p + 1 \in FlowSuccs(code, p)
  BY <1>1, StraightAt DEF PlainAt, CallAt, ReturnAt, FlowSuccs, BranchSuccs
<1>3. \A p \in Positions : FlowSuccs(code, p) \subseteq Positions
  <2>. SUFFICES ASSUME NEW p \in Positions PROVE FlowSuccs(code, p) \subseteq Positions
    OBVIOUS
  <2>1. p + 1 < Length => p + 1 \in Positions
    BY <1>1 DEF Positions
  <2>2. External \notin Positions
    BY DEF External, Positions
  <2>3. CASE PlainAt(code, p)
    BY <2>1, <2>3 DEF PlainAt, FlowSuccs
  <2>4. CASE CallAt(code, p)
    BY <2>1, <2>2, <2>4 DEF CallAt, FlowSuccs, BranchSuccs
  <2>5. CASE ReturnAt(code, p)
    BY <2>5 DEF ReturnAt, FlowSuccs, BranchSuccs
  <2>. QED  BY <2>3, <2>4, <2>5, StraightAt
<1>4. ClosedUnderFlow(Positions)
  BY <1>1, <1>3 DEF ClosedUnderFlow
<1>5. Closure \subseteq Positions
  BY <1>1, <1>4 DEF Closure
<1>6. Positions \subseteq Closure
  <2> DEFINE D == {p \in Nat : p \in Positions /\ p \notin Closure}
  <2>. SUFFICES ASSUME D # {} PROVE FALSE
    BY <1>1 DEF Positions
  <2>1. PICK p \in D : \A q \in D : p <= q
    BY FirstIsLeast
  <2>2. p # 0 /\ p \in Nat /\ p \in Positions /\ p \notin Closure /\ p < Length
    BY <1>1, <2>1, ClosureEntry DEF Positions
  <2>3. p - 1 \in Nat /\ p - 1 \in Positions /\ (p - 1) + 1 = p /\ ~(p <= p - 1)
    BY <1>1, <2>2 DEF Positions
  <2>4. p - 1 \in Closure
    BY <2>1, <2>3
  <2>. QED  BY <1>2, <2>2, <2>3, <2>4, ClosureFlows
<1>. QED  BY <1>5, <1>6 DEF WellEnded

(***************************************************************************)
(* Block 2n + 1 holds the instructions after n calls, up to the next call  *)
(* or the return; with it goes the placeholder of what ends it.            *)
(***************************************************************************)
ChainBlock(n) ==
    LET i == 2 * n + 1
        b == blocks[i]
    IN  /\ i \in Internal /\ i + 1 \in DOMAIN blocks /\ i + 1 \notin Internal
        /\ b.start \in Nat /\ b.end \in Nat /\ b.end \in Positions /\ b.start <= b.end
        /\ \A p \in Positions : b.start <= p /\ p <= b.end <=> Calls(code, p) = n
        /\ psTable[i + 1].succ = <<>>
        /\ n = Calls(code, Length) =>
              /\ b.end + 1 = Length /\ psTable[i].succ = <<i + 1>>
              /\ ~b.endsInCall /\ b.isExit
        /\ n # Calls(code, Length) =>
              /\ CallIn(code, b.end) /\ psTable[i].succ = <<i + 1, i + 2>>
              /\ b.endsInCall /\ ~b.isExit
              /\ i + 2 \in Internal /\ blocks[i + 2].start = b.end + 1
ChainGraph ==
    LET K == Calls(code, Length)
    IN  /\ Len(blocks) = 2 * K + 2 /\ blocks[1].start = 0
        /\ Calls(code, Length - 1) = K
        /\ \A n \in 0..K : ChainBlock(n)
        /\ \A p \in Positions :
              Calls(code, p) \in 0..K /\ findBlockByInsnIdx(p) = 2 * Calls(code, p) + 1

LEMMA ChainDone ==
    ASSUME IInv, CInv, GInv, Chained, IsStraight(code), status = "done"
    PROVE  ChainGraph
<1>1. code \in [Positions -> Insn] /\ Length \in Nat \ {0}
  BY InsnsAssumption, LengthAssumption DEF IInv, TypeOK, IsStraight
<1>2. WellEnded /\ Closure = Positions
  BY <1>1, StraightReached
<1>3. stack = <<>> /\ Len(stack) = 0
  BY DEF CInv
<1>4. /\ Len(blocks) \in Nat /\ DOMAIN blocks = 1..Len(blocks) /\ Len(blocks) # 0
      /\ blocks[1].start = 0 /\ Paired(Len(blocks))
      /\ \A n \in Nat : 2 * n + 1 <= Len(blocks) => ChainAt(n)
  BY <1>3, LenProperties DEF IInv, TypeOK, Chained, ChainStack
<1>5. PICK k \in Nat : Len(blocks) = 2 * k + 2
  <2>1. PICK h \in Nat : Len(blocks) = 2 * h
    BY <1>4 DEF Paired
  <2>2. h - 1 \in Nat /\ Len(blocks) = 2 * (h - 1) + 2
    BY <1>4, <2>1
  <2>. QED  BY <2>2
<1>6. ASSUME NEW n \in 0..k
      PROVE  LET i == 2 * n + 1
                 b == blocks[i]
             IN  /\ i \in Internal /\ i + 1 \in DOMAIN blocks /\ i + 1 \notin Internal
                 /\ b.start \in Nat /\ b.end \in Nat /\ b.end \in Positions
                 /\ b.start <= b.end
                 /\ Calls(code, b.start) = n /\ RunsTo(code, b.start, b.end)
                 /\ psTable[i + 1].succ = <<>>
                 /\ n = k => /\ b.end + 1 = Length /\ psTable[i].succ = <<i + 1>>
                             /\ ~b.endsInCall /\ b.isExit
                 /\ n # k => /\ CallIn(code, b.end) /\ psTable[i].succ = <<i + 1, i + 2>>
                             /\ b.endsInCall /\ ~b.isExit
                             /\ i + 2 \in Internal /\ blocks[i + 2].start = b.end + 1
  <2>1. PICK i, N : i = 2 * n + 1 /\ N = 2 * k + 2
    OBVIOUS
  <2>2. /\ i \in 1..N /\ i + 1 \in 1..N /\ n \in Nat /\ i < N /\ i # N
        /\ (i + 1 = N <=> n = k) /\ (i + 1 < N <=> n # k)
        /\ n # k => /\ i + 2 \in 1..N
                    /\ n + 1 \in Nat /\ 2 * (n + 1) + 1 = i + 2 /\ i + 2 <= N
    BY <1>6, <2>1
  <2>3. ChainAt(n) /\ Len(blocks) = N /\ 0 <= n
    BY <1>4, <1>5, <2>1, <2>2
  <2>4. i \in Internal /\ i + 1 \notin Internal /\ i + 1 \in DOMAIN blocks
    BY <1>4, <2>1, <2>2, <2>3 DEF ChainAt, Internal
  <2>5. n # k => i + 2 \in Internal
    <3>. SUFFICES ASSUME n # k PROVE i + 2 \in Internal
      OBVIOUS
    <3>1. ChainAt(n + 1)
      BY <1>4, <2>2, <2>3
    <3>2. blocks[i + 2].type = "INTERNAL"
      BY <2>2, <3>1 DEF ChainAt
    <3>. QED  BY <1>4, <2>2, <2>3, <3>2 DEF Internal
  <2>6. /\ blocks[i].end \in Positions /\ blocks[i].start \in Nat /\ blocks[i].end \in Nat
        /\ RunsTo(code, blocks[i].start, blocks[i].end)
    BY <1>2, <2>4, DoneBlocks
  <2>7. blocks[i].start <= blocks[i].end
    BY <2>6 DEF RunsTo
  <2>. QED  BY <1>3, <2>1, <2>2, <2>3, <2>4, <2>5, <2>6, <2>7 DEF ChainAt
<1>7. ASSUME NEW n \in 0..k, NEW p \in Positions,
             blocks[2 * n + 1].start <= p, p <= blocks[2 * n + 1].end
      PROVE  Calls(code, p) = n
  <2>1. PICK s, e : s = blocks[2 * n + 1].start /\ e = blocks[2 * n + 1].end
    OBVIOUS
  <2>2. /\ s \in Nat /\ e \in Nat /\ e \in Positions /\ Calls(code, s) = n
        /\ RunsTo(code, s, e)
    BY <1>6, <2>1
  <2>3. p \in 0..Length /\ s <= p /\ p <= e
    BY <1>1, <1>7, <2>1 DEF Positions
  <2>4. RunsTo(code, s, p)
    BY <1>1, <2>2, <2>3 DEF RunsTo, Positions
  <2>. QED  BY <2>2, <2>3, <2>4, CallsRun
<1>8. Calls(code, Length) = k /\ Calls(code, Length - 1) = k
  <2>1. k \in 0..k
    BY <1>5
  <2>2. blocks[2 * k + 1].end = Length - 1 /\ Length - 1 \in Positions /\ Length - 1 \in Nat
        /\ blocks[2 * k + 1].start <= Length - 1
    <3>1. PICK b : b = blocks[2 * k + 1]
      OBVIOUS
    <3>2. b.end \in Nat /\ b.end + 1 = Length /\ b.end \in Positions /\ b.start <= b.end
      BY <1>6, <2>1, <3>1
    <3>3. b.end = Length - 1
      BY <1>1, <3>2
    <3>. QED  BY <3>1, <3>2, <3>3
  <2>3. Calls(code, Length - 1) = k
    BY <1>7, <2>1, <2>2
  <2>4. ~CallIn(code, Length - 1)
    BY <1>1, <2>2, StraightAt DEF PlainAt, CallAt, ReturnAt
  <2>5. (Length - 1) + 1 = Length
    BY <1>1
  <2>. QED  BY <2>2, <2>3, <2>4, <2>5, CallsCount
<1>9. ASSUME NEW p \in Positions
      PROVE  \E n \in 0..k : /\ findBlockByInsnIdx(p) = 2 * n + 1
                             /\ blocks[2 * n + 1].start <= p /\ p <= blocks[2 * n + 1].end
  <2>1. p \in UNION {blocks[i].start..blocks[i].end : i \in Internal}
    BY <1>2, ExactHere DEF GraphExact
  <2>2. PICK S : S = {i \in DOMAIN blocks : blocks[i].start <= p /\ p <= blocks[i].end}
    OBVIOUS
  <2>3. PICK f : f = findBlockByInsnIdx(p)
    OBVIOUS
  <2>4. S # {}
    <3>1. PICK i \in Internal : p \in blocks[i].start..blocks[i].end
      BY <2>1
    <3>2. blocks[i].start \in Nat /\ blocks[i].end \in Nat
      BY <1>2, DoneBlocks
    <3>3. blocks[i].start <= p /\ p <= blocks[i].end /\ i \in DOMAIN blocks
      BY <3>1, <3>2 DEF Internal
    <3>. QED  BY <2>2, <3>3
  <2>5. f = First(S)
    BY <2>2, <2>3, <2>4 DEF findBlockByInsnIdx, FirstOrNone
  <2>6. f \in S
    <3>1. S \subseteq Nat
      BY <1>4, <2>2
    <3>. QED  BY <2>4, <2>5, <3>1, FirstIsLeast
  <2>7. f # 0 /\ f \in 1..Len(blocks) /\ blocks[f].start <= p /\ p <= blocks[f].end
    BY <1>4, <2>2, <2>6
  <2>8. f \in Internal
    <3>1. p \in 0..Length
      BY <1>1 DEF Positions
    <3>. QED  BY <2>3, <2>7, <3>1, LookupHere DEF LookupIsInternal
  <2>9. PICK n \in 0..k : f = 2 * n + 1 \/ f = 2 * n + 2
    <3> DEFINE T == {n \in Nat : f <= 2 * n + 2}
    <3>1. k \in T
      BY <1>5, <2>7
    <3>2. PICK n \in T : \A q \in T : n <= q
      BY <3>1, FirstIsLeast
    <3>3. n = 0 \/ ~(f <= 2 * (n - 1) + 2)
      <4>. SUFFICES ASSUME n # 0, f <= 2 * (n - 1) + 2 PROVE FALSE
        OBVIOUS
      <4>1. n - 1 \in T /\ n \in Nat
        OBVIOUS
      <4>. QED  BY <3>2, <4>1
    <3>4. n \in 0..k /\ n \in Nat /\ f <= 2 * n + 2
      BY <3>1, <3>2
    <3>5. f \in Nat /\ f # 0
      BY <1>4, <2>7
    <3>6. f > 2 * n
      BY <3>3, <3>4, <3>5
    <3>7. f = 2 * n + 1 \/ f = 2 * n + 2
      BY <3>4, <3>5, <3>6
    <3>. QED  BY <3>4, <3>7
  <2>10. f # 2 * n + 2
    <3>1. 2 * n + 1 + 1 \notin Internal
      BY <1>6
    <3>2. 2 * n + 1 + 1 = 2 * n + 2
      OBVIOUS
    <3>. QED  BY <2>8, <3>1, <3>2
  <2>. QED  BY <2>3, <2>7, <2>9, <2>10
<1>10. ASSUME NEW p \in Positions
       PROVE  /\ Calls(code, p) \in 0..k
              /\ findBlockByInsnIdx(p) = 2 * Calls(code, p) + 1
              /\ blocks[2 * Calls(code, p) + 1].start <= p
              /\ p <= blocks[2 * Calls(code, p) + 1].end
  <2>1. PICK n \in 0..k : /\ findBlockByInsnIdx(p) = 2 * n + 1
                          /\ blocks[2 * n + 1].start <= p /\ p <= blocks[2 * n + 1].end
    BY <1>9
  <2>2. Calls(code, p) = n
    BY <1>7, <2>1
  <2>. QED  BY <2>1, <2>2
<1>11. ASSUME NEW n \in 0..k PROVE ChainBlock(n)
  <2>1. \A p \in Positions : blocks[2 * n + 1].start <= p /\ p <= blocks[2 * n + 1].end
                                <=> Calls(code, p) = n
    BY <1>7, <1>10
  <2>. QED  BY <1>6, <1>8, <2>1 DEF ChainBlock
<1>. QED  BY <1>4, <1>5, <1>8, <1>10, <1>11 DEF ChainGraph

==============================================================================
