-------------------------- MODULE ComparatorProofs --------------------------
(***************************************************************************)
(* Theorems about FlowComparator: whatever the two functions are, its      *)
(* cache is read only where it is right and its answer is exact.           *)
(***************************************************************************)
EXTENDS FollowedPairs, Integers, TLAPS

LEMMA SequenceFacts ==
    ASSUME NEW S, NEW s \in Seq(S)
    PROVE  /\ Len(s) \in Nat /\ DOMAIN s = 1..Len(s)
           /\ \A i \in DOMAIN s : s[i] \in S
  OBVIOUS

(* A graph in the terms of sequences.                                      *)
LEMMA GraphShape ==
    ASSUME NEW f, IsGraph(f)
    PROVE  /\ \A n \in DOMAIN f.nodes :
                 /\ f.nodes[n].inputs \in Seq(DOMAIN f.nodes)
                 /\ \A i \in DOMAIN f.nodes[n].inputs : f.nodes[n].inputs[i] \in DOMAIN f.nodes
           /\ Len(f.sinks) \in Nat /\ DOMAIN f.sinks = 1..Len(f.sinks)
           /\ \A b \in DOMAIN f.sinks :
                 /\ f.sinks[b] \in Seq(DOMAIN f.nodes)
                 /\ \A s \in DOMAIN f.sinks[b] : f.sinks[b][s] \in DOMAIN f.nodes
           /\ f.succ \in Seq(Seq(DOMAIN f.sinks)) /\ Len(f.succ) = Len(f.sinks)
<1>1. ASSUME NEW n \in DOMAIN f.nodes
      PROVE  /\ f.nodes[n].inputs \in Seq(DOMAIN f.nodes)
             /\ \A i \in DOMAIN f.nodes[n].inputs : f.nodes[n].inputs[i] \in DOMAIN f.nodes
  <2>1. f.nodes[n].inputs \in Seq(DOMAIN f.nodes)
    BY DEF IsGraph
  <2>. QED  BY <2>1, SequenceFacts
<1>2. f.sinks \in Seq(Seq(DOMAIN f.nodes))
  BY DEF IsGraph
<1>3. ASSUME NEW b \in DOMAIN f.sinks
      PROVE  /\ f.sinks[b] \in Seq(DOMAIN f.nodes)
             /\ \A s \in DOMAIN f.sinks[b] : f.sinks[b][s] \in DOMAIN f.nodes
  <2>1. f.sinks[b] \in Seq(DOMAIN f.nodes)
    BY <1>2, SequenceFacts
  <2>. QED  BY <2>1, SequenceFacts
<1>4. Len(f.sinks) \in Nat /\ DOMAIN f.sinks = 1..Len(f.sinks)
  BY <1>2, SequenceFacts
<1>. QED  BY <1>1, <1>3, <1>4 DEF IsGraph

-----------------------------------------------------------------------------
(* The reference is well-defined.                                          *)

NodePairs(f, g) == (DOMAIN f.nodes) \X (DOMAIN g.nodes)

(* What SameNode says of p, where same says it of the inputs.              *)
Sameness(f, g, resolved, same, p) ==
    LET m == f.nodes[p[1]]
        n == g.nodes[p[2]]
    IN  /\ Agree(m, n) /\ (resolved => ~ Fails(m, n))
        /\ Len(m.inputs) = Len(n.inputs)
        /\ \A i \in DOMAIN m.inputs : same[<<m.inputs[i], n.inputs[i]>>]

LEMMA InputsArePairs ==
    ASSUME NEW f, IsGraph(f), NEW g, IsGraph(g), NEW p \in NodePairs(f, g),
           Len(f.nodes[p[1]].inputs) = Len(g.nodes[p[2]].inputs),
           NEW i \in DOMAIN f.nodes[p[1]].inputs
    PROVE  <<f.nodes[p[1]].inputs[i], g.nodes[p[2]].inputs[i]>> \in NodePairs(f, g)
<1>1. p[1] \in DOMAIN f.nodes /\ p[2] \in DOMAIN g.nodes
  BY DEF NodePairs
<1>2. i \in DOMAIN g.nodes[p[2]].inputs
  <2>1. /\ f.nodes[p[1]].inputs \in Seq(DOMAIN f.nodes)
        /\ g.nodes[p[2]].inputs \in Seq(DOMAIN g.nodes)
    BY <1>1, GraphShape
  <2>. QED  BY <2>1, SequenceFacts
<1>. QED  BY <1>1, <1>2, GraphShape DEF NodePairs

(* A relation that proves itself is the truth of a function.               *)
Truth(f, g, R) == [p \in NodePairs(f, g) |-> p \in R]
Proves(f, g, resolved, R) ==
    \A p \in R : Sameness(f, g, resolved, Truth(f, g, R), p)

(* More relations, more nodes that are the same.                           *)
LEMMA SamenessGrows ==
    ASSUME NEW f, IsGraph(f), NEW g, IsGraph(g), NEW resolved, NEW p \in NodePairs(f, g),
           NEW R, NEW S, R \subseteq S,
           Sameness(f, g, resolved, Truth(f, g, R), p)
    PROVE  Sameness(f, g, resolved, Truth(f, g, S), p)
  BY InputsArePairs DEF Sameness, Truth

(* All relations that prove themselves make one that does.                 *)
LEMMA SolutionExists ==
    ASSUME NEW f, IsGraph(f), NEW g, IsGraph(g), NEW resolved
    PROVE  \E same : same = [p \in NodePairs(f, g) |-> Sameness(f, g, resolved, same, p)]
<1> DEFINE P == NodePairs(f, g)
           All == {p \in P : \E R \in SUBSET P : Proves(f, g, resolved, R) /\ p \in R}
           same == Truth(f, g, All)
<1>1. ASSUME NEW p \in P, p \in All PROVE Sameness(f, g, resolved, same, p)
  <2>1. PICK R \in SUBSET P : Proves(f, g, resolved, R) /\ p \in R
    BY <1>1
  <2>2. R \subseteq All
    BY <2>1
  <2>. QED  BY <2>1, <2>2, SamenessGrows DEF Proves
<1>2. ASSUME NEW p \in P, Sameness(f, g, resolved, same, p) PROVE p \in All
  <2> DEFINE R == All \cup {p}
  <2>1. ASSUME NEW q \in R PROVE Sameness(f, g, resolved, Truth(f, g, R), q)
    BY <1>1, <1>2, SamenessGrows
  <2>2. R \in SUBSET P /\ p \in R
    OBVIOUS
  <2>. QED  BY <2>1, <2>2 DEF Proves
<1>3. \A p \in P : (p \in All) = Sameness(f, g, resolved, same, p)
  <2>1. \A p \in P : Sameness(f, g, resolved, same, p) \in BOOLEAN
    BY DEF Sameness
  <2>. QED  BY <1>1, <1>2, <2>1
<1>4. same = [p \in P |-> Sameness(f, g, resolved, same, p)]
  <2> HIDE DEF All
  <2>. QED  BY <1>3 DEF Truth
<1>. QED  BY <1>4

(* SameNode satisfies its definition.                                      *)
LEMMA SameNodeSolves ==
    ASSUME NEW f, IsGraph(f), NEW g, IsGraph(g), NEW resolved, NEW p \in NodePairs(f, g)
    PROVE  SameNode(f, g, resolved)[p]
              = Sameness(f, g, resolved, SameNode(f, g, resolved), p)
<1>1. SameNode(f, g, resolved) =
        CHOOSE same : same = [q \in NodePairs(f, g) |-> Sameness(f, g, resolved, same, q)]
  BY DEF SameNode, Sameness, NodePairs
<1>2. SameNode(f, g, resolved) =
        [q \in NodePairs(f, g) |-> Sameness(f, g, resolved, SameNode(f, g, resolved), q)]
  BY <1>1, SolutionExists
<1>. QED  BY <1>2

-----------------------------------------------------------------------------
(***************************************************************************)
(* The inductive invariant.                                                *)
(***************************************************************************)
(* The pairs that are the same whatever the unresolved references refer to, *)
(* and those that can be.                                                  *)
Surely(f, g) == SameNode(f, g, TRUE)
Possibly(f, g) == SameNode(f, g, FALSE)

(* What a comparison of the pair p should return.                          *)
Right(f, g, v, p) == IF v THEN Surely(f, g)[p] ELSE ~ Possibly(f, g)[p]

(* The nodes that are compared for input i of the pair p.                  *)
InputPair(f, g, p, i) == <<f.nodes[p[1]].inputs[i], g.nodes[p[2]].inputs[i]>>
SinkPair(f, g, b, s) == <<f.sinks[b][s], g.sinks[b][s]>>

(* A call that is past the nodes themselves: they agree, and so do the     *)
(* inputs before the one it is at.                                         *)
GoodCall(f, g, c) ==
    LET m == f.nodes[c.pair[1]]
        n == g.nodes[c.pair[2]]
    IN  c.next > 0 =>
            /\ Agree(m, n) /\ ~ Fails(m, n)
            /\ c.next <= Len(m.inputs) + 1 /\ c.next <= Len(n.inputs) + 1
            /\ \A i \in 1..(c.next - 1) : Surely(f, g)[InputPair(f, g, c.pair, i)]

(* A call that has called itself, or is about to get an answer.            *)
Waits(f, g, c) ==
    /\ c.next \in DOMAIN f.nodes[c.pair[1]].inputs
    /\ c.next \in DOMAIN g.nodes[c.pair[2]].inputs

(* Each call is for the input its caller is at, so that no node is on the  *)
(* stack twice.                                                            *)
GoodStack(f, g, s) ==
    /\ \A k \in DOMAIN s : GoodCall(f, g, s[k])
    /\ \A k \in DOMAIN s : k > 1 =>
          /\ Waits(f, g, s[k])
          /\ s[k - 1].pair = InputPair(f, g, s[k].pair, s[k].next)
    /\ \A j, k \in DOMAIN s : j < k => s[j].pair[1] # s[k].pair[1]

(* The outermost call is for the sinks that are compared.                  *)
AtSinks(f, g, b, k) ==
    /\ b \in DOMAIN f.sinks /\ b \in DOMAIN g.sinks
    /\ k \in DOMAIN f.sinks[b] /\ k \in DOMAIN g.sinks[b]
GoodBottom(f, g, s, b, k) ==
    s # <<>> => AtSinks(f, g, b, k) /\ s[Len(s)].pair = SinkPair(f, g, b, k)

(* What a call has returned is right.                                      *)
GoodResult(f, g, s, b, k, r) ==
    r # <<>> =>
        IF s = <<>>
        THEN AtSinks(f, g, b, k) /\ Right(f, g, r[1], SinkPair(f, g, b, k))
        ELSE /\ Waits(f, g, s[1])
             /\ Right(f, g, r[1], InputPair(f, g, s[1].pair, s[1].next))

(* An entry of the cache that is wrong says equal, and is one of a pair on *)
(* the stack or comes too late to be read: the comparison has failed.      *)
GoodEntry(f, g, s, c, r, a, p) ==
    \/ Right(f, g, c[p], p)
    \/ /\ c[p] = TRUE
       /\ \/ \E k \in DOMAIN s : s[k].pair = p /\ s[k].next > 0
          \/ r = <<FALSE>>
          \/ a # "none"

(* The blocks and sinks that have been passed are the same.                *)
GoodProgress(f, g, b, k) ==
    /\ \A c \in 1..(b - 1) :
          /\ c \in DOMAIN f.sinks /\ c \in DOMAIN g.sinks
          /\ Len(f.sinks[c]) = Len(g.sinks[c]) /\ f.succ[c] = g.succ[c]
          /\ \A i \in DOMAIN f.sinks[c] : Surely(f, g)[SinkPair(f, g, c, i)]
    /\ k > 1 => b \in DOMAIN f.sinks /\ b \in DOMAIN g.sinks
    /\ \A i \in 1..(k - 1) :
          AtSinks(f, g, b, i) /\ Surely(f, g)[SinkPair(f, g, b, i)]

ComparatorInv ==
    /\ ComparatorTypeOK
    /\ GoodStack(func1, func2, stack)
    /\ GoodBottom(func1, func2, stack, block, sink)
    /\ GoodResult(func1, func2, stack, block, sink, result)
    /\ \A p \in DOMAIN cache : GoodEntry(func1, func2, stack, cache, result, answer, p)
    /\ answer = "none" => GoodProgress(func1, func2, block, sink)
    /\ answer # "none" => stack = <<>> /\ result = <<>>
    /\ AnswerExact

-----------------------------------------------------------------------------
(* Calls and the stack.                                                    *)

Calls(f, g) == [pair : (DOMAIN f.nodes) \X (DOMAIN g.nodes), next : Nat]

LEMMA PushFacts ==
    ASSUME NEW S, NEW s \in Seq(S), NEW x \in S
    PROVE  /\ <<x>> \o s \in Seq(S) /\ Len(<<x>> \o s) = Len(s) + 1 /\ <<x>> \o s # <<>>
           /\ (<<x>> \o s)[1] = x
           /\ \A k \in DOMAIN (<<x>> \o s) :
                 k > 1 => k - 1 \in DOMAIN s /\ (<<x>> \o s)[k] = s[k - 1]
  OBVIOUS

LEMMA NonEmpty ==
    ASSUME NEW S, NEW s \in Seq(S)
    PROVE  /\ s # <<>> => Len(s) \in Nat \ {0} /\ 1 \in DOMAIN s
           /\ s = <<>> => Len(s) = 0
  OBVIOUS

LEMMA TailFacts ==
    ASSUME NEW S, NEW s \in Seq(S), s # <<>>
    PROVE  /\ Tail(s) \in Seq(S) /\ Len(Tail(s)) = Len(s) - 1
           /\ Len(s) \in Nat \ {0}
           /\ DOMAIN s = 1..Len(s) /\ DOMAIN Tail(s) = 1..(Len(s) - 1)
           /\ \A k \in 1..(Len(s) - 1) : Tail(s)[k] = s[k + 1]
           /\ Tail(s) = <<>> <=> Len(s) = 1
<1>1. Len(s) \in Nat \ {0} /\ DOMAIN s = 1..Len(s)
  OBVIOUS
<1>2. Tail(s) \in Seq(S) /\ Len(Tail(s)) = Len(s) - 1
  OBVIOUS
<1>3. DOMAIN Tail(s) = 1..(Len(s) - 1)
  BY <1>2, SequenceFacts
<1>4. \A k \in 1..(Len(s) - 1) : Tail(s)[k] = s[k + 1]
  BY <1>1
<1>5. Tail(s) = <<>> <=> Len(Tail(s)) = 0
  BY <1>2, NonEmpty
<1>. QED  BY <1>1, <1>2, <1>3, <1>4, <1>5

LEMMA PopFacts ==
    ASSUME NEW S, NEW s \in Seq(S), s # <<>>
    PROVE  /\ Tail(s) \in Seq(S) /\ Len(Tail(s)) = Len(s) - 1
           /\ \A k \in DOMAIN Tail(s) : k + 1 \in DOMAIN s /\ Tail(s)[k] = s[k + 1]
           /\ \A k \in DOMAIN s : k > 1 => k - 1 \in DOMAIN Tail(s) /\ s[k] = Tail(s)[k - 1]
           /\ 1 \in DOMAIN s
           /\ Tail(s) # <<>> => 2 \in DOMAIN s /\ 1 \in DOMAIN Tail(s) /\ Tail(s)[1] = s[2]
           /\ Tail(s) = <<>> => Len(s) = 1
<1> DEFINE t == Tail(s)
<1>1. /\ t \in Seq(S) /\ Len(t) = Len(s) - 1 /\ Len(s) \in Nat \ {0}
      /\ DOMAIN s = 1..Len(s) /\ DOMAIN t = 1..(Len(s) - 1)
      /\ \A k \in 1..(Len(s) - 1) : t[k] = s[k + 1]
      /\ t = <<>> <=> Len(s) = 1
  BY TailFacts
<1> HIDE DEF t
<1>2. \A k \in DOMAIN t : k + 1 \in DOMAIN s /\ t[k] = s[k + 1]
  BY <1>1
<1>3. ASSUME NEW k \in DOMAIN s, k > 1
      PROVE  k - 1 \in DOMAIN t /\ s[k] = t[k - 1]
  <2>1. k - 1 \in 1..(Len(s) - 1) /\ (k - 1) + 1 = k
    BY <1>1, <1>3
  <2>. QED  BY <1>1, <2>1
<1>4. t # <<>> => 2 \in DOMAIN s /\ 1 \in DOMAIN t /\ t[1] = s[2]
  BY <1>1
<1>. QED  BY <1>1, <1>2, <1>3, <1>4 DEF t

(* The call at the top goes on to its next input.                          *)
Stepped(s) == [s EXCEPT ![1].next = @ + 1]

LEMMA StepFacts ==
    ASSUME NEW P, NEW s \in Seq([pair : P, next : Nat]), s # <<>>
    PROVE  /\ Stepped(s) \in Seq([pair : P, next : Nat])
           /\ Len(Stepped(s)) = Len(s) /\ DOMAIN Stepped(s) = DOMAIN s /\ Stepped(s) # <<>>
           /\ Stepped(s)[1].pair = s[1].pair /\ Stepped(s)[1].next = s[1].next + 1
           /\ \A k \in DOMAIN s : k > 1 => Stepped(s)[k] = s[k]
           /\ \A k \in DOMAIN s : Stepped(s)[k].pair = s[k].pair
<1> DEFINE C == [pair : P, next : Nat]
           top == [s[1] EXCEPT !.next = @ + 1]
<1>1. Len(s) \in Nat \ {0} /\ DOMAIN s = 1..Len(s) /\ s[1] \in C
  <2> HIDE DEF C
  <2>. QED  BY NonEmpty, SequenceFacts DEF C
<1>2. top \in C /\ top.pair = s[1].pair /\ top.next = s[1].next + 1
  BY <1>1
<1> HIDE DEF C, top
<1>3. Stepped(s) = [s EXCEPT ![1] = top]
  BY DEF Stepped, top
<1>4. /\ DOMAIN Stepped(s) = DOMAIN s /\ Stepped(s)[1] = top
      /\ \A k \in DOMAIN s : k > 1 => Stepped(s)[k] = s[k]
  BY <1>1, <1>3
<1>5. Stepped(s) \in Seq(C) /\ Len(Stepped(s)) = Len(s)
  BY <1>1, <1>2, <1>3 DEF C
<1>6. Stepped(s) # <<>>
  BY <1>1, <1>5
<1>7. \A k \in DOMAIN s : Stepped(s)[k].pair = s[k].pair
  BY <1>1, <1>2, <1>4
<1>. QED  BY <1>2, <1>4, <1>5, <1>6, <1>7 DEF C

LEMMA InputPairTyped ==
    ASSUME NEW f, IsGraph(f), NEW g, IsGraph(g), NEW c \in Calls(f, g), Waits(f, g, c)
    PROVE  InputPair(f, g, c.pair, c.next) \in (DOMAIN f.nodes) \X (DOMAIN g.nodes)
<1>1. /\ c.pair[1] \in DOMAIN f.nodes /\ c.pair[2] \in DOMAIN g.nodes
      /\ c.next \in DOMAIN f.nodes[c.pair[1]].inputs
      /\ c.next \in DOMAIN g.nodes[c.pair[2]].inputs
  BY DEF Calls, Waits
<1>2. /\ f.nodes[c.pair[1]].inputs[c.next] \in DOMAIN f.nodes
      /\ g.nodes[c.pair[2]].inputs[c.next] \in DOMAIN g.nodes
  BY <1>1, GraphShape
<1>. QED  BY <1>2 DEF InputPair

(* The input that the top is at is not on the stack: from a node on it,    *)
(* inputs would lead back to that node.                                    *)
LEMMA InputNotCalled ==
    ASSUME NEW f, IsGraph(f), NEW g, IsGraph(g), NEW s \in Seq(Calls(f, g)),
           s # <<>>, GoodStack(f, g, s), Waits(f, g, s[1]), NEW k \in DOMAIN s
    PROVE  InputPair(f, g, s[1].pair, s[1].next)[1] # s[k].pair[1]
<1>1. SUFFICES ASSUME InputPair(f, g, s[1].pair, s[1].next)[1] = s[k].pair[1] PROVE FALSE
  OBVIOUS
<1>2. DOMAIN s = 1..Len(s) /\ Len(s) \in Nat /\ \A j \in DOMAIN s : s[j] \in Calls(f, g)
  BY SequenceFacts
<1> DEFINE S == {s[j].pair[1] : j \in 1..k}
<1>3. \A j \in 1..k : s[j].pair[1] \in S /\ s[j].pair[1] \in DOMAIN f.nodes
  <2>1. \A j \in 1..k : j \in DOMAIN s
    BY <1>2
  <2>. QED  BY <1>2, <2>1 DEF Calls
<1>4. S \in (SUBSET DOMAIN f.nodes) \ {{}}
  <2>1. k \in 1..k
    BY <1>2
  <2>2. S \subseteq DOMAIN f.nodes
    BY <1>3
  <2>. QED  BY <1>3, <2>1, <2>2
<1>5. PICK j \in 1..k : \A i \in DOMAIN f.nodes[s[j].pair[1]].inputs :
                            f.nodes[s[j].pair[1]].inputs[i] \notin S
  <2>1. PICK n \in S : \A i \in DOMAIN f.nodes[n].inputs : f.nodes[n].inputs[i] \notin S
    BY <1>4 DEF IsGraph, Grounded
  <2>. QED  BY <2>1
<1> HIDE DEF S
<1>6. /\ s[j].next \in DOMAIN f.nodes[s[j].pair[1]].inputs
      /\ f.nodes[s[j].pair[1]].inputs[s[j].next] \in S
  <2>1. CASE j = 1
    <3>1. f.nodes[s[1].pair[1]].inputs[s[1].next] = s[k].pair[1]
      BY <1>1 DEF InputPair
    <3>2. k \in 1..k
      BY <1>2
    <3>. QED  BY <1>3, <2>1, <3>1, <3>2 DEF Waits
  <2>2. CASE j > 1
    <3>1. j \in DOMAIN s /\ j - 1 \in 1..k
      BY <1>2, <2>2
    <3>2. Waits(f, g, s[j]) /\ s[j - 1].pair = InputPair(f, g, s[j].pair, s[j].next)
      BY <2>2, <3>1 DEF GoodStack
    <3>3. s[j - 1].pair[1] = f.nodes[s[j].pair[1]].inputs[s[j].next]
      BY <3>2 DEF InputPair
    <3>. QED  BY <1>3, <3>1, <3>2, <3>3 DEF Waits
  <2>. QED  BY <2>1, <2>2
<1>. QED  BY <1>5, <1>6

(* A call for the input that the top is at.                                *)
LEMMA PushKeeps ==
    ASSUME NEW f, IsGraph(f), NEW g, IsGraph(g), NEW s \in Seq(Calls(f, g)),
           s # <<>>, GoodStack(f, g, s), Waits(f, g, s[1]),
           NEW x, x.pair = InputPair(f, g, s[1].pair, s[1].next), x.next = 0,
           x \in Calls(f, g)
    PROVE  GoodStack(f, g, <<x>> \o s)
<1> DEFINE t == <<x>> \o s
<1>1. /\ t \in Seq(Calls(f, g)) /\ t[1] = x
      /\ \A k \in DOMAIN t : k > 1 => k - 1 \in DOMAIN s /\ t[k] = s[k - 1]
      /\ \A k \in DOMAIN t : k \in Nat /\ k >= 1
      /\ \A k \in DOMAIN s : k \in Nat /\ k >= 1 /\ s[k] \in Calls(f, g)
  BY PushFacts, SequenceFacts
<1>2. s[1] \in Calls(f, g) /\ 1 \in DOMAIN s
  BY NonEmpty, SequenceFacts
<1>3. \A k \in DOMAIN s : x.pair[1] # s[k].pair[1]
  BY InputNotCalled
<1> HIDE DEF t
<1>4. ASSUME NEW k \in DOMAIN t
      PROVE  GoodCall(f, g, t[k])
  <2>1. CASE k = 1
    <3>1. t[k].next = 0
      BY <1>1, <2>1
    <3>. QED  BY <3>1 DEF GoodCall
  <2>2. CASE k > 1
    BY <1>1, <2>2 DEF GoodStack
  <2>. QED  BY <1>1, <2>1, <2>2
<1>5. ASSUME NEW k \in DOMAIN t, k > 1
      PROVE  Waits(f, g, t[k]) /\ t[k - 1].pair = InputPair(f, g, t[k].pair, t[k].next)
  <2>1. CASE k = 2
    BY <1>1, <2>1
  <2>2. CASE k > 2
    <3>1. k - 1 \in DOMAIN s /\ t[k] = s[k - 1] /\ k - 1 > 1
      BY <1>1, <2>2
    <3>2. k - 1 \in DOMAIN t /\ t[k - 1] = s[(k - 1) - 1]
      <4>1. k - 1 \in DOMAIN t
        BY <1>1, <2>2, PushFacts, SequenceFacts DEF t
      <4>. QED  BY <1>1, <3>1, <4>1
    <3>. QED  BY <3>1, <3>2 DEF GoodStack
  <2>. QED  BY <1>1, <1>5, <2>1, <2>2
<1>6. ASSUME NEW j \in DOMAIN t, NEW k \in DOMAIN t, j < k
      PROVE  t[j].pair[1] # t[k].pair[1]
  <2>1. k > 1 /\ k - 1 \in DOMAIN s /\ t[k] = s[k - 1]
    BY <1>1, <1>6
  <2>2. CASE j = 1
    BY <1>1, <1>3, <2>1, <2>2
  <2>3. CASE j > 1
    <3>1. j - 1 \in DOMAIN s /\ t[j] = s[j - 1] /\ j - 1 < k - 1
      BY <1>1, <1>6, <2>3
    <3>. QED  BY <2>1, <3>1 DEF GoodStack
  <2>. QED  BY <1>1, <2>2, <2>3
<1>. QED  BY <1>4, <1>5, <1>6 DEF GoodStack, t

(* The top returns to its caller.                                          *)
LEMMA PopKeeps ==
    ASSUME NEW f, IsGraph(f), NEW g, IsGraph(g), NEW s \in Seq(Calls(f, g)),
           s # <<>>, GoodStack(f, g, s)
    PROVE  /\ GoodStack(f, g, Tail(s))
           /\ Tail(s) # <<>> =>
                 /\ Waits(f, g, Tail(s)[1])
                 /\ s[1].pair = InputPair(f, g, Tail(s)[1].pair, Tail(s)[1].next)
<1> DEFINE t == Tail(s)
<1>1. /\ \A k \in DOMAIN t : k + 1 \in DOMAIN s /\ t[k] = s[k + 1]
      /\ t # <<>> => 2 \in DOMAIN s /\ 1 \in DOMAIN t /\ t[1] = s[2]
      /\ \A k \in DOMAIN t : k \in Nat /\ k >= 1
  BY PopFacts, SequenceFacts
<1>7. \A k \in DOMAIN t : k > 1 => k - 1 \in DOMAIN t
  BY PopFacts, SequenceFacts
<1> HIDE DEF t
<1>2. \A k \in DOMAIN t : GoodCall(f, g, t[k])
  BY <1>1 DEF GoodStack
<1>3. ASSUME NEW k \in DOMAIN t, k > 1
      PROVE  Waits(f, g, t[k]) /\ t[k - 1].pair = InputPair(f, g, t[k].pair, t[k].next)
  <2>1. /\ k + 1 \in DOMAIN s /\ t[k] = s[k + 1] /\ k + 1 > 1
        /\ k - 1 \in DOMAIN t /\ t[k - 1] = s[(k - 1) + 1] /\ (k - 1) + 1 = (k + 1) - 1
    BY <1>1, <1>3, <1>7
  <2>. QED  BY <2>1 DEF GoodStack
<1>4. ASSUME NEW j \in DOMAIN t, NEW k \in DOMAIN t, j < k
      PROVE  t[j].pair[1] # t[k].pair[1]
  <2>1. j + 1 < k + 1
    BY <1>1, <1>4
  <2>. QED  BY <1>1, <2>1 DEF GoodStack
<1>5. GoodStack(f, g, t)
  BY <1>2, <1>3, <1>4 DEF GoodStack
<1>6. t # <<>> => Waits(f, g, t[1]) /\ s[1].pair = InputPair(f, g, t[1].pair, t[1].next)
  <2>1. t # <<>> => 2 \in DOMAIN s /\ 2 > 1 /\ 2 - 1 = 1
    BY <1>1
  <2>. QED  BY <1>1, <2>1 DEF GoodStack
<1>. QED  BY <1>5, <1>6 DEF t

(* The top goes on.                                                        *)
LEMMA StepKeeps ==
    ASSUME NEW f, IsGraph(f), NEW g, IsGraph(g), NEW s \in Seq(Calls(f, g)),
           s # <<>>, GoodStack(f, g, s), GoodCall(f, g, Stepped(s)[1])
    PROVE  GoodStack(f, g, Stepped(s))
<1> DEFINE t == Stepped(s)
<1>1. /\ DOMAIN t = DOMAIN s
      /\ \A k \in DOMAIN s : k > 1 => t[k] = s[k]
      /\ \A k \in DOMAIN s : t[k].pair = s[k].pair
      /\ \A k \in DOMAIN s : k \in Nat /\ k >= 1
  <2> DEFINE P == (DOMAIN f.nodes) \X (DOMAIN g.nodes)
  <2>1. s \in Seq([pair : P, next : Nat])
    BY DEF Calls
  <2> HIDE DEF P, t
  <2>2. /\ DOMAIN t = DOMAIN s
        /\ \A k \in DOMAIN s : k > 1 => t[k] = s[k]
        /\ \A k \in DOMAIN s : t[k].pair = s[k].pair
    BY <2>1, StepFacts DEF t
  <2>3. \A k \in DOMAIN s : k \in Nat /\ k >= 1
    BY SequenceFacts
  <2>. QED  BY <2>2, <2>3
<1>6. \A k \in DOMAIN s : k > 1 => k - 1 \in DOMAIN s
  BY SequenceFacts
<1> HIDE DEF t
<1>2. \A k \in DOMAIN t : GoodCall(f, g, t[k])
  <2>1. GoodCall(f, g, t[1])
    BY DEF t
  <2>. QED  BY <1>1, <2>1 DEF GoodStack
<1>3. \A k \in DOMAIN t : k > 1 =>
        Waits(f, g, t[k]) /\ t[k - 1].pair = InputPair(f, g, t[k].pair, t[k].next)
  BY <1>1, <1>6 DEF GoodStack
<1>4. \A j, k \in DOMAIN t : j < k => t[j].pair[1] # t[k].pair[1]
  BY <1>1 DEF GoodStack
<1>5. GoodStack(f, g, t)
  BY <1>2, <1>3, <1>4 DEF GoodStack
<1>. QED  BY <1>5 DEF t

-----------------------------------------------------------------------------
(* The steps.                                                              *)

Same == Surely(func1, func2)
Alike == Possibly(func1, func2)
Matches(v, p) == Right(func1, func2, v, p)

LEMMA MatchesMeans ==
    ASSUME NEW p
    PROVE  /\ Matches(TRUE, p) <=> Same[p]
           /\ Matches(FALSE, p) <=> ~ Alike[p]
  BY DEF Matches, Right, Same, Alike

(* What the invariant says of the state in which a call is running.        *)
LEMMA Running ==
    ASSUME ComparatorInv, answer = "none"
    PROVE  /\ IsGraph(func1) /\ IsGraph(func2)
           /\ stack \in Seq(Calls(func1, func2))
           /\ DOMAIN cache \subseteq (DOMAIN func1.nodes) \X (DOMAIN func2.nodes)
           /\ \A p \in DOMAIN cache : cache[p] \in BOOLEAN
           /\ block \in Nat \ {0} /\ sink \in Nat \ {0}
           /\ GoodStack(func1, func2, stack)
           /\ GoodBottom(func1, func2, stack, block, sink)
           /\ GoodResult(func1, func2, stack, block, sink, result)
           /\ GoodProgress(func1, func2, block, sink)
           /\ stack # <<>> => 1 \in DOMAIN stack /\ Top \in Calls(func1, func2)
<1>1. stack \in Seq(Calls(func1, func2))
  BY DEF ComparatorInv, ComparatorTypeOK, Calls, Nodes1, Nodes2
<1>2. stack # <<>> => 1 \in DOMAIN stack /\ Top \in Calls(func1, func2)
  BY <1>1, NonEmpty, SequenceFacts DEF Top
<1>3. block \in Nat \ {0}
  BY GraphShape DEF ComparatorInv, ComparatorTypeOK
<1>. QED  BY <1>1, <1>2, <1>3 DEF ComparatorInv, ComparatorTypeOK, Nodes1, Nodes2

(* A call returns, and the cache that it leaves is right or will not be    *)
(* read where it is wrong.                                                 *)
LEMMA ReturnKeeps ==
    ASSUME ComparatorInv, stack # <<>>,
           NEW v \in BOOLEAN, Return(v), Matches(v, Top.pair),
           UNCHANGED <<func1, func2, block, sink, answer>>,
           DOMAIN cache' \subseteq (DOMAIN func1.nodes) \X (DOMAIN func2.nodes),
           \A p \in DOMAIN cache' :
              \/ cache'[p] \in BOOLEAN /\ Matches(cache'[p], p)
              \/ /\ cache'[p] = TRUE
                 /\ \/ v = FALSE
                    \/ \E k \in DOMAIN stack : k > 1 /\ stack[k].pair = p /\ stack[k].next > 0
    PROVE  ComparatorInv'
<1>1. answer = "none"
  BY DEF ComparatorInv
<1>2. /\ IsGraph(func1) /\ IsGraph(func2)
      /\ stack \in Seq(Calls(func1, func2))
      /\ block \in Nat \ {0} /\ sink \in Nat \ {0}
      /\ GoodStack(func1, func2, stack)
      /\ GoodBottom(func1, func2, stack, block, sink)
      /\ GoodProgress(func1, func2, block, sink)
      /\ 1 \in DOMAIN stack
  BY <1>1, Running
<1>3. /\ stack' = Tail(stack) /\ result' = <<v>>
      /\ func1' = func1 /\ func2' = func2 /\ block' = block /\ sink' = sink
      /\ answer' = "none"
  BY <1>1 DEF Return
<1>4. /\ stack' \in Seq(Calls(func1, func2)) /\ Len(stack') = Len(stack) - 1
      /\ \A k \in DOMAIN stack' : k + 1 \in DOMAIN stack /\ stack'[k] = stack[k + 1]
      /\ \A k \in DOMAIN stack : k > 1 => k - 1 \in DOMAIN stack' /\ stack[k] = stack'[k - 1]
      /\ stack' = <<>> => Len(stack) = 1
  BY <1>2, <1>3, PopFacts
<1>5. ComparatorTypeOK'
  <2>1. stack' \in Seq([pair : Nodes1' \X Nodes2', next : Nat])
    BY <1>3, <1>4 DEF Calls, Nodes1, Nodes2
  <2>2. \A p \in DOMAIN cache' : cache'[p] \in BOOLEAN
    OBVIOUS
  <2>3. block' \in 1..(Len(func1'.sinks) + 1)
    BY <1>3 DEF ComparatorInv, ComparatorTypeOK
  <2>. QED  BY <1>2, <1>3, <2>1, <2>2, <2>3 DEF ComparatorTypeOK, Nodes1, Nodes2
<1>6. /\ GoodStack(func1, func2, stack')
      /\ stack' # <<>> =>
            /\ Waits(func1, func2, stack'[1])
            /\ stack[1].pair = InputPair(func1, func2, stack'[1].pair, stack'[1].next)
  BY <1>2, <1>3, PopKeeps
<1>7. GoodBottom(func1, func2, stack', block, sink)
  <2>1. stack' # <<>> => Len(stack') \in DOMAIN stack'
    BY <1>4, NonEmpty, SequenceFacts
  <2>2. stack' # <<>> => stack'[Len(stack')] = stack[Len(stack)]
    <3>1. Len(stack) \in Nat
      BY <1>2, SequenceFacts
    <3>. QED  BY <1>4, <2>1, <3>1
  <2>. QED  BY <1>2, <2>2 DEF GoodBottom
<1>8. GoodResult(func1, func2, stack', block, sink, result')
  <2>1. CASE stack' = <<>>
    BY <1>2, <1>3, <1>4, <2>1 DEF GoodResult, GoodBottom, Top, Same, Matches
  <2>2. CASE stack' # <<>>
    BY <1>3, <1>6, <2>2 DEF GoodResult, Top, Same, Matches
  <2>. QED  BY <2>1, <2>2
<1>9. ASSUME NEW p \in DOMAIN cache'
      PROVE  GoodEntry(func1, func2, stack', cache', result', answer', p)
  <2>1. CASE Matches(cache'[p], p)
    BY <2>1 DEF GoodEntry, Same, Matches
  <2>2. CASE cache'[p] = TRUE /\ v = FALSE
    BY <1>3, <2>2 DEF GoodEntry
  <2>3. ASSUME cache'[p] = TRUE,
               NEW k \in DOMAIN stack, k > 1, stack[k].pair = p, stack[k].next > 0
        PROVE  GoodEntry(func1, func2, stack', cache', result', answer', p)
    <3>1. k - 1 \in DOMAIN stack' /\ stack[k] = stack'[k - 1]
      BY <1>4, <2>3
    <3>. QED  BY <2>3, <3>1 DEF GoodEntry
  <2>. QED  BY <2>1, <2>2, <2>3
<1>. QED
  BY <1>2, <1>3, <1>5, <1>6, <1>7, <1>8, <1>9 DEF ComparatorInv, AnswerExact

(* The top goes on, and where the cache that it leaves is wrong, a call    *)
(* for the pair is on the stack.                                           *)
LEMMA ProceedKeeps ==
    ASSUME ComparatorInv, stack # <<>>, Proceed,
           GoodCall(func1, func2, Stepped(stack)[1]),
           UNCHANGED <<func1, func2, block, sink, answer>>,
           DOMAIN cache' \subseteq (DOMAIN func1.nodes) \X (DOMAIN func2.nodes),
           \A p \in DOMAIN cache' :
              \/ cache'[p] \in BOOLEAN /\ Matches(cache'[p], p)
              \/ /\ cache'[p] = TRUE
                 /\ \E k \in DOMAIN stack :
                       stack[k].pair = p /\ (k = 1 \/ stack[k].next > 0)
    PROVE  ComparatorInv'
<1>1. answer = "none"
  BY DEF ComparatorInv
<1>2. /\ IsGraph(func1) /\ IsGraph(func2)
      /\ stack \in Seq(Calls(func1, func2))
      /\ block \in Nat \ {0} /\ sink \in Nat \ {0}
      /\ GoodStack(func1, func2, stack)
      /\ GoodBottom(func1, func2, stack, block, sink)
      /\ GoodProgress(func1, func2, block, sink)
      /\ 1 \in DOMAIN stack /\ Top \in Calls(func1, func2)
      /\ DOMAIN stack = 1..Len(stack) /\ Len(stack) \in Nat \ {0}
  BY <1>1, Running, SequenceFacts, NonEmpty
<1>3. /\ stack' = Stepped(stack) /\ result' = <<>>
      /\ func1' = func1 /\ func2' = func2 /\ block' = block /\ sink' = sink
      /\ answer' = "none"
  BY <1>1 DEF Proceed, Stepped
<1>4. /\ stack' \in Seq(Calls(func1, func2))
      /\ Len(stack') = Len(stack) /\ DOMAIN stack' = DOMAIN stack
      /\ stack'[1].next = stack[1].next + 1
      /\ \A k \in DOMAIN stack : k > 1 => stack'[k] = stack[k]
      /\ \A k \in DOMAIN stack : stack'[k].pair = stack[k].pair
  <2> DEFINE P == (DOMAIN func1.nodes) \X (DOMAIN func2.nodes)
  <2>1. stack \in Seq([pair : P, next : Nat])
    BY <1>2 DEF Calls
  <2> HIDE DEF P
  <2>2. /\ Stepped(stack) \in Seq([pair : P, next : Nat])
        /\ Len(Stepped(stack)) = Len(stack) /\ DOMAIN Stepped(stack) = DOMAIN stack
        /\ Stepped(stack)[1].next = stack[1].next + 1
        /\ \A k \in DOMAIN stack : k > 1 => Stepped(stack)[k] = stack[k]
        /\ \A k \in DOMAIN stack : Stepped(stack)[k].pair = stack[k].pair
    BY <2>1, StepFacts
  <2>. QED  BY <1>3, <2>2 DEF P, Calls
<1>5. ComparatorTypeOK'
  <2>1. stack' \in Seq([pair : Nodes1' \X Nodes2', next : Nat])
    BY <1>3, <1>4 DEF Calls, Nodes1, Nodes2
  <2>2. \A p \in DOMAIN cache' : cache'[p] \in BOOLEAN
    OBVIOUS
  <2>3. block' \in 1..(Len(func1'.sinks) + 1)
    BY <1>3 DEF ComparatorInv, ComparatorTypeOK
  <2>. QED  BY <1>2, <1>3, <2>1, <2>2, <2>3 DEF ComparatorTypeOK, Nodes1, Nodes2
<1>6. GoodStack(func1, func2, stack')
  BY <1>2, <1>3, StepKeeps
<1>7. GoodBottom(func1, func2, stack', block, sink)
  <2>1. stack'[Len(stack')].pair = stack[Len(stack)].pair
    BY <1>2, <1>4
  <2>. QED  BY <1>2, <2>1 DEF GoodBottom
<1>8. ASSUME NEW p \in DOMAIN cache'
      PROVE  GoodEntry(func1, func2, stack', cache', result', answer', p)
  <2>1. CASE Matches(cache'[p], p)
    BY <2>1 DEF GoodEntry, Same, Matches
  <2>2. ASSUME cache'[p] = TRUE,
               NEW k \in DOMAIN stack, stack[k].pair = p, k = 1 \/ stack[k].next > 0
        PROVE  GoodEntry(func1, func2, stack', cache', result', answer', p)
    <3>1. stack'[k].pair = p
      BY <1>4, <2>2
    <3>2. stack'[k].next > 0
      <4>1. stack[1].next \in Nat
        BY <1>2 DEF Top, Calls
      <4>2. k = 1 \/ k > 1
        BY <1>2
      <4>. QED  BY <1>4, <2>2, <4>1, <4>2
    <3>. QED  BY <1>4, <2>2, <3>1, <3>2 DEF GoodEntry
  <2>. QED  BY <2>1, <2>2
<1>9. GoodResult(func1, func2, stack', block, sink, result')
  BY <1>3 DEF GoodResult
<1>. QED
  BY <1>2, <1>3, <1>5, <1>6, <1>7, <1>8, <1>9 DEF ComparatorInv, AnswerExact

(* A pair that is looked up has no call for it on the stack yet, so that   *)
(* its entry, if there is one, is right.                                   *)
LEMMA EntryRight ==
    ASSUME ComparatorInv, stack # <<>>, result = <<>>, Top.next = 0, Cached(Top.pair)
    PROVE  Matches(cache[Top.pair], Top.pair)
<1>1. answer = "none"
  BY DEF ComparatorInv
<1>2. /\ stack \in Seq(Calls(func1, func2)) /\ GoodStack(func1, func2, stack)
      /\ 1 \in DOMAIN stack /\ IsGraph(func1) /\ IsGraph(func2)
      /\ DOMAIN stack = 1..Len(stack) /\ Len(stack) \in Nat \ {0}
  BY <1>1, Running, SequenceFacts, NonEmpty
<1>3. ASSUME NEW k \in DOMAIN stack, stack[k].pair = Top.pair, stack[k].next > 0
      PROVE  FALSE
  <2>1. k > 1
    BY <1>2, <1>3 DEF Top
  <2>2. stack[1].pair[1] # stack[k].pair[1]
    BY <1>2, <2>1 DEF GoodStack
  <2>. QED  BY <1>3, <2>2 DEF Top
<1>4. GoodEntry(func1, func2, stack, cache, result, answer, Top.pair)
  BY DEF ComparatorInv, Cached
<1>. QED  BY <1>1, <1>3, <1>4 DEF GoodEntry, Same, Matches

(* Entries of calls other than the top, while no result is pending.        *)
LEMMA EntriesBelow ==
    ASSUME ComparatorInv, stack # <<>>, result # <<FALSE>>, NEW p \in DOMAIN cache
    PROVE  \/ cache[p] \in BOOLEAN /\ Matches(cache[p], p)
           \/ /\ cache[p] = TRUE
              /\ \E k \in DOMAIN stack : stack[k].pair = p /\ stack[k].next > 0
<1>1. answer = "none" /\ cache[p] \in BOOLEAN
  BY DEF ComparatorInv, ComparatorTypeOK
<1>2. GoodEntry(func1, func2, stack, cache, result, answer, p)
  BY DEF ComparatorInv
<1>. QED  BY <1>1, <1>2 DEF GoodEntry, Same, Matches

(* The nodes of the top, and what the reference says of them.              *)
LEMMA TopFacts ==
    ASSUME ComparatorInv, stack # <<>>
    PROVE  /\ Top.pair \in (DOMAIN func1.nodes) \X (DOMAIN func2.nodes) /\ Top.next \in Nat
           /\ Len(Node1.inputs) \in Nat /\ DOMAIN Node1.inputs = 1..Len(Node1.inputs)
           /\ Len(Node2.inputs) \in Nat /\ DOMAIN Node2.inputs = 1..Len(Node2.inputs)
           /\ Same[Top.pair] =
                 (/\ Agree(Node1, Node2) /\ ~ Fails(Node1, Node2)
                  /\ Len(Node1.inputs) = Len(Node2.inputs)
                  /\ \A i \in DOMAIN Node1.inputs : Same[InputPair(func1, func2, Top.pair, i)])
           /\ Alike[Top.pair] =
                 (/\ Agree(Node1, Node2)
                  /\ Len(Node1.inputs) = Len(Node2.inputs)
                  /\ \A i \in DOMAIN Node1.inputs : Alike[InputPair(func1, func2, Top.pair, i)])
           /\ GoodCall(func1, func2, Top)
<1>1. answer = "none"
  BY DEF ComparatorInv
<1>2. /\ IsGraph(func1) /\ IsGraph(func2)
      /\ 1 \in DOMAIN stack /\ Top \in Calls(func1, func2)
      /\ GoodStack(func1, func2, stack)
  BY <1>1, Running
<1>3. /\ Top.pair \in (DOMAIN func1.nodes) \X (DOMAIN func2.nodes) /\ Top.next \in Nat
      /\ Top.pair[1] \in DOMAIN func1.nodes /\ Top.pair[2] \in DOMAIN func2.nodes
  BY <1>2 DEF Calls
<1>4. /\ Node1.inputs \in Seq(DOMAIN func1.nodes)
      /\ Node2.inputs \in Seq(DOMAIN func2.nodes)
  BY <1>2, <1>3, GraphShape DEF Node1, Node2
<1>5. /\ Same[Top.pair] = Sameness(func1, func2, TRUE, Same, Top.pair)
      /\ Alike[Top.pair] = Sameness(func1, func2, FALSE, Alike, Top.pair)
  <2>1. Top.pair \in NodePairs(func1, func2)
    BY <1>3 DEF NodePairs
  <2>2. \A resolved : SameNode(func1, func2, resolved)[Top.pair]
          = Sameness(func1, func2, resolved, SameNode(func1, func2, resolved), Top.pair)
    BY <1>2, <2>1, SameNodeSolves
  <2>. QED  BY <2>2, Zenon DEF Same, Alike, Surely, Possibly
<1>6. GoodCall(func1, func2, Top)
  BY <1>2 DEF GoodStack, Top
<1>7. /\ Same[Top.pair] =
                 (/\ Agree(Node1, Node2) /\ ~ Fails(Node1, Node2)
                  /\ Len(Node1.inputs) = Len(Node2.inputs)
                  /\ \A i \in DOMAIN Node1.inputs : Same[InputPair(func1, func2, Top.pair, i)])
      /\ Alike[Top.pair] =
                 (/\ Agree(Node1, Node2)
                  /\ Len(Node1.inputs) = Len(Node2.inputs)
                  /\ \A i \in DOMAIN Node1.inputs : Alike[InputPair(func1, func2, Top.pair, i)])
  BY <1>5 DEF Sameness, InputPair, Node1, Node2
<1>. QED
  BY <1>3, <1>4, <1>6, <1>7, SequenceFacts

LEMMA TopStepped ==
    ASSUME ComparatorInv, stack # <<>>
    PROVE  Stepped(stack)[1].pair = Top.pair /\ Stepped(stack)[1].next = Top.next + 1
<1> DEFINE P == (DOMAIN func1.nodes) \X (DOMAIN func2.nodes)
<1>1. stack \in Seq(Calls(func1, func2))
  BY Running DEF ComparatorInv
<1>2. stack \in Seq([pair : P, next : Nat])
  BY <1>1 DEF Calls
<1> HIDE DEF P
<1>3. Stepped(stack)[1].pair = stack[1].pair /\ Stepped(stack)[1].next = stack[1].next + 1
  BY <1>2, StepFacts
<1>. QED  BY <1>3 DEF Top

(* An entry is right or says equal.                                        *)
LEMMA EntryForm ==
    ASSUME ComparatorInv, NEW p \in DOMAIN cache
    PROVE  cache[p] \in BOOLEAN /\ (Matches(cache[p], p) \/ cache[p] = TRUE)
<1>1. GoodEntry(func1, func2, stack, cache, result, answer, p) /\ cache[p] \in BOOLEAN
  BY DEF ComparatorInv, ComparatorTypeOK
<1>. QED  BY <1>1 DEF GoodEntry, Same, Matches

LEMMA CacheTyped ==
    ASSUME ComparatorInv
    PROVE  DOMAIN cache \subseteq (DOMAIN func1.nodes) \X (DOMAIN func2.nodes)
  BY DEF ComparatorInv, ComparatorTypeOK, Nodes1, Nodes2

LEMMA EnterKeeps == ASSUME ComparatorInv, Enter PROVE ComparatorInv'
<1>1. /\ stack # <<>> /\ result = <<>> /\ Top.next = 0
      /\ UNCHANGED <<func1, func2, block, sink, cache, answer>>
  BY DEF Enter
<1>2. ASSUME NEW p \in DOMAIN cache
      PROVE  \/ cache[p] \in BOOLEAN /\ Matches(cache[p], p)
             \/ /\ cache[p] = TRUE
                /\ \E k \in DOMAIN stack : k > 1 /\ stack[k].pair = p /\ stack[k].next > 0
  <2>1. ASSUME NEW k \in DOMAIN stack, stack[k].next > 0
        PROVE  k > 1
    <3>1. stack \in Seq(Calls(func1, func2))
      BY <1>1, Running DEF ComparatorInv
    <3>2. k \in Nat /\ k >= 1 /\ k # 1
      BY <1>1, <2>1, <3>1, SequenceFacts DEF Top
    <3>. QED  BY <3>2
  <2>. QED  BY <1>1, <2>1, EntriesBelow
<1>3. CASE Cached(Top.pair) /\ Return(cache[Top.pair])
  <2>1. Matches(cache[Top.pair], Top.pair) /\ cache[Top.pair] \in BOOLEAN
    BY <1>1, <1>3, EntryRight, EntryForm DEF Cached
  <2>. QED  BY <1>1, <1>2, <1>3, <2>1, CacheTyped, ReturnKeeps
<1>4. CASE ~ Fails(Node1, Node2) /\ Agree(Node1, Node2) /\ Proceed
  <2>1. Stepped(stack)[1].pair = Top.pair /\ Stepped(stack)[1].next = 1
    BY <1>1, TopStepped
  <2>2. Len(Node1.inputs) \in Nat /\ Len(Node2.inputs) \in Nat
    BY <1>1, TopFacts
  <2>3. 1 <= Len(Node1.inputs) + 1 /\ 1 <= Len(Node2.inputs) + 1 /\ 1..(1 - 1) = {}
    BY <2>2
  <2>4. GoodCall(func1, func2, Stepped(stack)[1])
    BY <1>4, <2>1, <2>3 DEF GoodCall, Node1, Node2
  <2>. QED  BY <1>1, <1>2, <1>4, <2>4, CacheTyped, ProceedKeeps
<1>5. CASE ~ Agree(Node1, Node2) /\ Return(FALSE)
  <2>1. ~ Alike[Top.pair]
    BY <1>1, <1>5, TopFacts
  <2>. QED  BY <1>1, <1>2, <1>5, <2>1, MatchesMeans, CacheTyped, ReturnKeeps
<1>. QED  BY <1>3, <1>4, <1>5 DEF Enter

LEMMA CompareInputKeeps == ASSUME ComparatorInv, CompareInput PROVE ComparatorInv'
<1>1. /\ stack # <<>> /\ result = <<>> /\ Top.next \in DOMAIN Node1.inputs
      /\ UNCHANGED <<func1, func2, block, sink, cache, answer>>
      /\ answer = "none"
  BY DEF CompareInput, ComparatorInv
<1>2. CASE Top.next \notin DOMAIN Node2.inputs /\ Return(FALSE)
  <2>1. ~ Alike[Top.pair]
    BY <1>1, <1>2, TopFacts
  <2>. QED  BY <1>1, <1>2, <2>1, MatchesMeans, EntryForm, CacheTyped, ReturnKeeps
<1>3. ASSUME Top.next \in DOMAIN Node2.inputs,
             stack' = <<Call(Node1.inputs[Top.next], Node2.inputs[Top.next])>> \o stack,
             UNCHANGED result
      PROVE  ComparatorInv'
  <2> DEFINE x == Call(Node1.inputs[Top.next], Node2.inputs[Top.next])
  <2>1. /\ IsGraph(func1) /\ IsGraph(func2)
        /\ stack \in Seq(Calls(func1, func2)) /\ GoodStack(func1, func2, stack)
        /\ block \in Nat \ {0} /\ sink \in Nat \ {0}
        /\ GoodBottom(func1, func2, stack, block, sink)
        /\ GoodProgress(func1, func2, block, sink) /\ Top \in Calls(func1, func2)
    BY <1>1, Running
  <2>2. Waits(func1, func2, Top)
    BY <1>1, <1>3 DEF Waits, Node1, Node2
  <2>3. x.pair = InputPair(func1, func2, Top.pair, Top.next) /\ x.next = 0
    BY DEF Call, InputPair, Node1, Node2
  <2>4. x \in Calls(func1, func2)
    <3>1. <<Node1.inputs[Top.next], Node2.inputs[Top.next]>>
            \in (DOMAIN func1.nodes) \X (DOMAIN func2.nodes)
      BY <2>1, <2>2, InputPairTyped DEF InputPair, Node1, Node2
    <3>. QED  BY <3>1 DEF Call, Calls
  <2>5. stack' = <<x>> \o stack
    BY <1>3
  <2> HIDE DEF x
  <2>6. GoodStack(func1, func2, stack')
    BY <1>1, <2>1, <2>2, <2>3, <2>4, <2>5, PushKeeps DEF Top
  <2>7. /\ stack' \in Seq(Calls(func1, func2)) /\ Len(stack') = Len(stack) + 1
        /\ \A k \in DOMAIN stack' : k > 1 => k - 1 \in DOMAIN stack /\ stack'[k] = stack[k - 1]
        /\ stack' # <<>>
    BY <2>1, <2>4, <2>5, PushFacts
  <2>8. /\ DOMAIN stack' = 1..Len(stack') /\ DOMAIN stack = 1..Len(stack)
        /\ Len(stack) \in Nat \ {0}
    BY <1>1, <2>1, <2>7, SequenceFacts, NonEmpty
  <2>9. \A k \in DOMAIN stack : k + 1 \in DOMAIN stack' /\ stack'[k + 1] = stack[k]
    <3>1. \A k \in DOMAIN stack : k + 1 \in DOMAIN stack' /\ k + 1 > 1 /\ (k + 1) - 1 = k
      BY <2>7, <2>8
    <3>. QED  BY <2>7, <3>1
  <2>10. GoodBottom(func1, func2, stack', block, sink)
    <3>1. stack'[Len(stack')] = stack[Len(stack)]
      BY <2>7, <2>8, <2>9
    <3>. QED  BY <1>1, <2>1, <3>1 DEF GoodBottom
  <2>11. ASSUME NEW p \in DOMAIN cache
         PROVE  GoodEntry(func1, func2, stack', cache, result, answer, p)
    <3>1. CASE Matches(cache[p], p)
      BY <3>1 DEF GoodEntry, Same, Matches
    <3>2. ASSUME cache[p] = TRUE,
                 NEW k \in DOMAIN stack, stack[k].pair = p, stack[k].next > 0
          PROVE  GoodEntry(func1, func2, stack', cache, result, answer, p)
      BY <2>9, <3>2 DEF GoodEntry
    <3>. QED  BY <1>1, <3>1, <3>2, EntriesBelow
  <2>12. ComparatorTypeOK'
    <3>1. stack' \in Seq([pair : Nodes1' \X Nodes2', next : Nat])
      BY <1>1, <2>7 DEF Calls, Nodes1, Nodes2
    <3>. QED  BY <1>1, <1>3, <3>1 DEF ComparatorInv, ComparatorTypeOK, Nodes1, Nodes2
  <2>13. GoodResult(func1, func2, stack', block, sink, result')
    BY <1>1, <1>3 DEF GoodResult
  <2>. QED
    BY <1>1, <1>3, <2>1, <2>6, <2>10, <2>11, <2>12, <2>13 DEF ComparatorInv, AnswerExact
<1>. QED  BY <1>2, <1>3 DEF CompareInput

LEMMA InputComparedKeeps == ASSUME ComparatorInv, InputCompared PROVE ComparatorInv'
<1>1. /\ stack # <<>> /\ result # <<>> /\ result \in {<<TRUE>>, <<FALSE>>}
      /\ Remember(result[1])
      /\ UNCHANGED <<func1, func2, block, sink, answer>>
      /\ answer = "none"
  BY DEF InputCompared, ComparatorInv, ComparatorTypeOK
<1>2. /\ Waits(func1, func2, Top)
      /\ Matches(result[1], InputPair(func1, func2, Top.pair, Top.next))
  BY <1>1, Running DEF GoodResult, Top, Same, Matches
<1>3. /\ DOMAIN cache' = DOMAIN cache \cup {Top.pair}
      /\ cache'[Top.pair] = result[1]
      /\ \A p \in DOMAIN cache' : p # Top.pair => p \in DOMAIN cache /\ cache'[p] = cache[p]
  BY <1>1 DEF Remember
<1>4. DOMAIN cache' \subseteq (DOMAIN func1.nodes) \X (DOMAIN func2.nodes)
  BY <1>1, <1>3, CacheTyped, TopFacts
<1>5. /\ Top.next \in 1..Len(Node1.inputs) /\ Top.next \in 1..Len(Node2.inputs)
      /\ Len(Node1.inputs) \in Nat /\ Len(Node2.inputs) \in Nat /\ Top.next \in Nat
      /\ Top.next \in DOMAIN Node1.inputs
  BY <1>1, <1>2, TopFacts DEF Waits, Node1, Node2
<1>6. CASE result = <<TRUE>>
  <2>1. result[1] = TRUE /\ Proceed
    BY <1>1, <1>6 DEF InputCompared
  <2>2. Stepped(stack)[1].pair = Top.pair /\ Stepped(stack)[1].next = Top.next + 1
    BY <1>1, TopStepped
  <2>3. GoodCall(func1, func2, Top) /\ Top.next > 0
    BY <1>1, <1>5, TopFacts
  <2>4. /\ Top.next + 1 <= Len(Node1.inputs) + 1 /\ Top.next + 1 <= Len(Node2.inputs) + 1
        /\ Top.next + 1 > 0
    BY <1>5
  <2>5. ASSUME NEW i \in 1..((Top.next + 1) - 1)
        PROVE  Same[InputPair(func1, func2, Top.pair, i)]
    <3>1. i = Top.next \/ i \in 1..(Top.next - 1)
      BY <1>5
    <3>. QED  BY <1>2, <2>1, <2>3, <3>1, MatchesMeans DEF GoodCall, Same
  <2>6. GoodCall(func1, func2, Stepped(stack)[1])
    BY <2>2, <2>3, <2>4, <2>5 DEF GoodCall, Same, Node1, Node2
  <2>7. ASSUME NEW p \in DOMAIN cache'
        PROVE  \/ cache'[p] \in BOOLEAN /\ Matches(cache'[p], p)
               \/ /\ cache'[p] = TRUE
                  /\ \E k \in DOMAIN stack : stack[k].pair = p /\ (k = 1 \/ stack[k].next > 0)
    <3>1. CASE p = Top.pair
      <4>1. 1 \in DOMAIN stack
        BY <1>1, Running
      <4>. QED  BY <1>3, <2>1, <3>1, <4>1 DEF Top
    <3>2. CASE p # Top.pair
      BY <1>1, <1>3, <1>6, <3>2, EntriesBelow
    <3>. QED  BY <3>1, <3>2
  <2>. QED  BY <1>1, <1>4, <2>1, <2>6, <2>7, ProceedKeeps
<1>7. CASE result = <<FALSE>>
  <2>1. result[1] = FALSE /\ Return(FALSE)
    BY <1>1, <1>7 DEF InputCompared
  <2>2. ~ Alike[Top.pair]
    BY <1>1, <1>2, <1>5, <2>1, MatchesMeans, TopFacts
  <2>3. ASSUME NEW p \in DOMAIN cache'
        PROVE  \/ cache'[p] \in BOOLEAN /\ Matches(cache'[p], p)
               \/ cache'[p] = TRUE
    BY <1>3, <2>1, <2>2, MatchesMeans, EntryForm
  <2>. QED  BY <1>1, <1>4, <2>1, <2>2, <2>3, MatchesMeans, ReturnKeeps
<1>. QED  BY <1>1, <1>6, <1>7

LEMMA EndInputsKeeps == ASSUME ComparatorInv, EndInputs PROVE ComparatorInv'
<1>1. /\ stack # <<>> /\ result = <<>> /\ Top.next > Len(Node1.inputs)
      /\ Return(Len(Node2.inputs) <= Len(Node1.inputs))
      /\ UNCHANGED <<func1, func2, block, sink, cache, answer>>
  BY DEF EndInputs
<1> DEFINE v == (Len(Node2.inputs) <= Len(Node1.inputs))
<1>2. /\ Len(Node1.inputs) \in Nat /\ DOMAIN Node1.inputs = 1..Len(Node1.inputs)
      /\ Len(Node2.inputs) \in Nat /\ Top.next \in Nat
      /\ GoodCall(func1, func2, Top)
  BY <1>1, TopFacts
<1>3. /\ Agree(Node1, Node2) /\ ~ Fails(Node1, Node2)
      /\ Top.next = Len(Node1.inputs) + 1 /\ Len(Node1.inputs) <= Len(Node2.inputs)
      /\ \A i \in 1..(Top.next - 1) : Same[InputPair(func1, func2, Top.pair, i)]
  <2>1. Top.next > 0
    BY <1>1, <1>2
  <2>2. /\ Agree(Node1, Node2) /\ ~ Fails(Node1, Node2)
        /\ Top.next <= Len(Node1.inputs) + 1 /\ Top.next <= Len(Node2.inputs) + 1
        /\ \A i \in 1..(Top.next - 1) : Same[InputPair(func1, func2, Top.pair, i)]
    BY <1>2, <2>1 DEF GoodCall, Same, Node1, Node2
  <2>3. Top.next = Len(Node1.inputs) + 1 /\ Len(Node1.inputs) <= Len(Node2.inputs)
    BY <1>1, <1>2, <2>2
  <2>. QED  BY <2>2, <2>3
<1>4. \A i \in DOMAIN Node1.inputs : Same[InputPair(func1, func2, Top.pair, i)]
  BY <1>2, <1>3
<1>5. v = (Len(Node1.inputs) = Len(Node2.inputs)) /\ v \in BOOLEAN
  BY <1>2, <1>3
<1>6. Matches(v, Top.pair)
  BY <1>1, <1>3, <1>4, <1>5, TopFacts, MatchesMeans
<1> HIDE DEF v
<1>7. ASSUME NEW p \in DOMAIN cache
      PROVE  \/ cache[p] \in BOOLEAN /\ Matches(cache[p], p)
             \/ /\ cache[p] = TRUE
                /\ \/ v = FALSE
                   \/ \E k \in DOMAIN stack : k > 1 /\ stack[k].pair = p /\ stack[k].next > 0
  <2>1. ASSUME cache[p] = TRUE, ~ Matches(cache[p], p), v = TRUE,
               NEW k \in DOMAIN stack, stack[k].pair = p, stack[k].next > 0
        PROVE  k > 1
    <3>1. stack \in Seq(Calls(func1, func2))
      BY <1>1, Running DEF ComparatorInv
    <3>2. k # 1
      BY <1>6, <2>1 DEF Top
    <3>3. k \in Nat /\ k >= 1
      BY <3>1, SequenceFacts
    <3>. QED  BY <3>2, <3>3
  <2>. QED  BY <1>1, <1>5, <2>1, EntriesBelow
<1>8. Return(v)
  BY <1>1 DEF v
<1>. QED  BY <1>1, <1>5, <1>6, <1>7, <1>8, CacheTyped, ReturnKeeps

LEMMA AbortKeeps == ASSUME ComparatorInv, Abort PROVE ComparatorInv'
<1>1. /\ stack' = <<>> /\ result' = <<>> /\ answer' = "aborted"
      /\ UNCHANGED <<func1, func2, block, sink, cache>>
  BY DEF Abort
<1>2. ComparatorTypeOK'
  <2>1. stack' \in Seq([pair : Nodes1' \X Nodes2', next : Nat])
    BY <1>1
  <2>. QED  BY <1>1, <2>1 DEF ComparatorInv, ComparatorTypeOK, Nodes1, Nodes2
<1>3. ASSUME NEW p \in DOMAIN cache
      PROVE  GoodEntry(func1, func2, stack', cache, result', answer', p)
  BY <1>1, EntryForm DEF GoodEntry, Same, Matches
<1>4. GoodStack(func1, func2, <<>>)
  BY DEF GoodStack
<1>. QED
  BY <1>1, <1>2, <1>3, <1>4 DEF ComparatorInv, AnswerExact, GoodBottom, GoodResult

-----------------------------------------------------------------------------
(* Sinks, blocks and the answer.                                           *)

(* The sinks and the answer of the reference, in the words of this module. *)
LEMMA SameFunctionMeans ==
    /\ SameFunction(TRUE) =
          (/\ DOMAIN func1.sinks = DOMAIN func2.sinks
           /\ \A b \in DOMAIN func1.sinks :
                 /\ Len(func1.sinks[b]) = Len(func2.sinks[b])
                 /\ \A s \in DOMAIN func1.sinks[b] : Same[SinkPair(func1, func2, b, s)]
                 /\ func1.succ[b] = func2.succ[b])
    /\ SameFunction(FALSE) =
          (/\ DOMAIN func1.sinks = DOMAIN func2.sinks
           /\ \A b \in DOMAIN func1.sinks :
                 /\ Len(func1.sinks[b]) = Len(func2.sinks[b])
                 /\ \A s \in DOMAIN func1.sinks[b] : Alike[SinkPair(func1, func2, b, s)]
                 /\ func1.succ[b] = func2.succ[b])
  BY DEF SameFunction, SameBlock, Blocks1, Blocks2, Same, Alike, Surely, Possibly, SinkPair

LEMMA SinkPairTyped ==
    ASSUME NEW f, IsGraph(f), NEW g, IsGraph(g), NEW b, NEW k, AtSinks(f, g, b, k)
    PROVE  SinkPair(f, g, b, k) \in (DOMAIN f.nodes) \X (DOMAIN g.nodes)
<1>1. f.sinks[b][k] \in DOMAIN f.nodes /\ g.sinks[b][k] \in DOMAIN g.nodes
  BY GraphShape DEF AtSinks
<1>. QED  BY <1>1 DEF SinkPair

(* Between two sinks every entry is right.                                 *)
LEMMA EntriesExact ==
    ASSUME ComparatorInv, answer = "none", stack = <<>>, result # <<FALSE>>,
           NEW p \in DOMAIN cache
    PROVE  Matches(cache[p], p)
<1>1. GoodEntry(func1, func2, stack, cache, result, answer, p)
  BY DEF ComparatorInv
<1>2. ~ \E k \in DOMAIN stack : TRUE
  OBVIOUS
<1>. QED  BY <1>1, <1>2 DEF GoodEntry, Same, Matches

(* The answer "different", for functions that are not the same.            *)
LEMMA DifferKeeps ==
    ASSUME ComparatorInv, ~ SameFunction(FALSE), stack' = <<>>, result' = <<>>,
           answer' = "different", UNCHANGED <<func1, func2, block, sink>>,
           DOMAIN cache' \subseteq (DOMAIN func1.nodes) \X (DOMAIN func2.nodes),
           \A p \in DOMAIN cache' :
              cache'[p] \in BOOLEAN /\ (Matches(cache'[p], p) \/ cache'[p] = TRUE)
    PROVE  ComparatorInv'
<1>1. ComparatorTypeOK'
  <2>1. stack' \in Seq([pair : Nodes1' \X Nodes2', next : Nat])
    OBVIOUS
  <2>2. /\ IsGraph(func1)' /\ IsGraph(func2)'
        /\ block' \in 1..(Len(func1'.sinks) + 1) /\ sink' \in Nat \ {0}
    BY DEF ComparatorInv, ComparatorTypeOK
  <2>. QED  BY <2>1, <2>2 DEF ComparatorTypeOK, Nodes1, Nodes2
<1>2. ASSUME NEW p \in DOMAIN cache'
      PROVE  GoodEntry(func1, func2, stack', cache', result', answer', p)
  BY DEF GoodEntry, Same, Matches
<1>3. GoodStack(func1, func2, <<>>)
  BY DEF GoodStack
<1>4. SameFunction(FALSE)' = SameFunction(FALSE)
  BY DEF SameFunction, SameBlock, Blocks1, Blocks2
<1>. QED
  BY <1>1, <1>2, <1>3, <1>4 DEF ComparatorInv, AnswerExact, GoodBottom, GoodResult

LEMMA CompareSinkKeeps == ASSUME ComparatorInv, CompareSink PROVE ComparatorInv'
<1>1. /\ answer = "none" /\ stack = <<>> /\ result = <<>>
      /\ block \in DOMAIN func1.sinks /\ block \in DOMAIN func2.sinks
      /\ sink \in DOMAIN func1.sinks[block]
      /\ func1' = func1 /\ func2' = func2
  BY DEF CompareSink, AtBlocks, Blocks1, Blocks2
<1>2. /\ IsGraph(func1) /\ IsGraph(func2)
      /\ block \in Nat \ {0} /\ sink \in Nat \ {0}
      /\ GoodProgress(func1, func2, block, sink)
  BY <1>1, Running
<1>3. ASSUME sink \in DOMAIN func2.sinks[block],
             stack' = <<Call(func1.sinks[block][sink], func2.sinks[block][sink])>>,
             UNCHANGED <<block, sink, cache, result, answer>>
      PROVE  ComparatorInv'
  <2> DEFINE x == Call(func1.sinks[block][sink], func2.sinks[block][sink])
  <2>1. AtSinks(func1, func2, block, sink)
    BY <1>1, <1>3 DEF AtSinks
  <2>2. x.pair = SinkPair(func1, func2, block, sink) /\ x.next = 0
    BY DEF Call, SinkPair
  <2>3. x \in Calls(func1, func2)
    BY <1>2, <2>1, SinkPairTyped DEF Call, Calls, SinkPair
  <2>4. stack' = <<x>>
    BY <1>3
  <2> HIDE DEF x
  <2>5. /\ stack' \in Seq(Calls(func1, func2))
        /\ Len(stack') = 1 /\ DOMAIN stack' = {1} /\ stack'[1] = x
    BY <2>3, <2>4
  <2>6. GoodStack(func1, func2, stack')
    <3>1. \A k \in DOMAIN stack' : GoodCall(func1, func2, stack'[k])
      <4>1. stack'[1].next = 0
        BY <2>2, <2>5
      <4>. QED  BY <2>5, <4>1 DEF GoodCall
    <3>. QED  BY <2>5, <3>1 DEF GoodStack
  <2>7. GoodBottom(func1, func2, stack', block, sink)
    BY <2>1, <2>2, <2>5 DEF GoodBottom
  <2>8. ComparatorTypeOK'
    <3>1. stack' \in Seq([pair : Nodes1' \X Nodes2', next : Nat])
      BY <1>1, <2>5 DEF Calls, Nodes1, Nodes2
    <3>. QED  BY <1>1, <1>3, <3>1 DEF ComparatorInv, ComparatorTypeOK, Nodes1, Nodes2
  <2>9. ASSUME NEW p \in DOMAIN cache
        PROVE  GoodEntry(func1, func2, stack', cache, result, answer, p)
    BY <1>1, EntriesExact DEF GoodEntry, Same, Matches
  <2>. QED
    BY <1>1, <1>2, <1>3, <2>6, <2>7, <2>8, <2>9 DEF ComparatorInv, AnswerExact, GoodResult
<1>4. ASSUME sink \notin DOMAIN func2.sinks[block], Differ
      PROVE  ComparatorInv'
  <2>1. /\ Len(func1.sinks[block]) \in Nat /\ Len(func2.sinks[block]) \in Nat
        /\ DOMAIN func1.sinks[block] = 1..Len(func1.sinks[block])
        /\ DOMAIN func2.sinks[block] = 1..Len(func2.sinks[block])
    BY <1>1, <1>2, GraphShape, SequenceFacts
  <2>2. ~ SameFunction(FALSE)
    BY <1>1, <1>4, <2>1, SameFunctionMeans
  <2>. QED  BY <1>1, <1>4, <2>2, CacheTyped, EntryForm, DifferKeeps DEF Differ
<1>. QED  BY <1>3, <1>4 DEF CompareSink

LEMMA SinkComparedKeeps == ASSUME ComparatorInv, SinkCompared PROVE ComparatorInv'
<1>1. /\ answer = "none" /\ stack = <<>> /\ result # <<>> /\ result \in {<<TRUE>>, <<FALSE>>}
      /\ result' = <<>> /\ UNCHANGED <<func1, func2, block, stack>>
  BY DEF SinkCompared, ComparatorInv, ComparatorTypeOK
<1>2. /\ IsGraph(func1) /\ IsGraph(func2)
      /\ block \in Nat \ {0} /\ sink \in Nat \ {0}
      /\ GoodProgress(func1, func2, block, sink)
  BY <1>1, Running
<1>3. /\ AtSinks(func1, func2, block, sink)
      /\ Matches(result[1], SinkPair(func1, func2, block, sink))
  BY <1>1, Running DEF GoodResult, Same, Matches
<1>4. CASE result = <<TRUE>>
  <2>1. result[1] = TRUE /\ sink' = sink + 1 /\ UNCHANGED <<cache, answer>>
    BY <1>1, <1>4 DEF SinkCompared
  <2>2. ASSUME NEW i \in 1..((sink + 1) - 1)
        PROVE  AtSinks(func1, func2, block, i) /\ Same[SinkPair(func1, func2, block, i)]
    <3>1. i = sink \/ i \in 1..(sink - 1)
      BY <1>2
    <3>2. Same[SinkPair(func1, func2, block, sink)]
      BY <1>3, <2>1, MatchesMeans
    <3>3. CASE i = sink
      BY <1>3, <3>2, <3>3
    <3>4. CASE i \in 1..(sink - 1)
      BY <1>2, <3>4 DEF GoodProgress, Same
    <3>. QED  BY <3>1, <3>3, <3>4
  <2>3. GoodProgress(func1, func2, block, sink + 1)
    BY <1>2, <1>3, <2>2 DEF GoodProgress, Same, AtSinks
  <2>4. ComparatorTypeOK'
    BY <1>1, <1>2, <2>1 DEF ComparatorInv, ComparatorTypeOK, Nodes1, Nodes2
  <2>5. ASSUME NEW p \in DOMAIN cache
        PROVE  GoodEntry(func1, func2, stack, cache, result', answer, p)
    BY <1>1, <1>4, EntriesExact DEF GoodEntry, Same, Matches
  <2>6. GoodStack(func1, func2, stack)
    BY DEF ComparatorInv
  <2>. QED
    BY <1>1, <2>1, <2>3, <2>4, <2>5, <2>6
    DEF ComparatorInv, AnswerExact, GoodBottom, GoodResult
<1>5. CASE result = <<FALSE>>
  <2> DEFINE p == <<func1.sinks[block][sink], func2.sinks[block][sink]>>
  <2>1. /\ result[1] = FALSE /\ answer' = "different" /\ UNCHANGED sink
        /\ cache' = [q \in DOMAIN cache \cup {p} |-> IF q = p THEN TRUE ELSE cache[q]]
    BY <1>1, <1>5 DEF SinkCompared
  <2>2. p \in (DOMAIN func1.nodes) \X (DOMAIN func2.nodes)
    BY <1>2, <1>3, SinkPairTyped DEF SinkPair
  <2>3. ~ SameFunction(FALSE)
    BY <1>3, <2>1, MatchesMeans, SameFunctionMeans DEF AtSinks
  <2>4. DOMAIN cache' \subseteq (DOMAIN func1.nodes) \X (DOMAIN func2.nodes)
    BY <2>1, <2>2, CacheTyped
  <2> HIDE DEF p
  <2>5. \A q \in DOMAIN cache' :
          cache'[q] \in BOOLEAN /\ (Matches(cache'[q], q) \/ cache'[q] = TRUE)
    BY <2>1, EntryForm
  <2>. QED  BY <1>1, <2>1, <2>3, <2>4, <2>5, DifferKeeps
<1>. QED  BY <1>1, <1>4, <1>5

LEMMA EndBlockKeeps == ASSUME ComparatorInv, EndBlock PROVE ComparatorInv'
<1>1. /\ answer = "none" /\ stack = <<>> /\ result = <<>>
      /\ block \in DOMAIN func1.sinks /\ block \in DOMAIN func2.sinks
      /\ sink > Len(func1.sinks[block])
      /\ func1' = func1 /\ func2' = func2
  BY DEF EndBlock, AtBlocks, Blocks1, Blocks2
<1>2. /\ IsGraph(func1) /\ IsGraph(func2)
      /\ block \in Nat \ {0} /\ sink \in Nat \ {0}
      /\ GoodProgress(func1, func2, block, sink)
  BY <1>1, Running
<1>3. /\ Len(func1.sinks[block]) \in Nat /\ Len(func2.sinks[block]) \in Nat
      /\ DOMAIN func1.sinks[block] = 1..Len(func1.sinks[block])
      /\ DOMAIN func2.sinks[block] = 1..Len(func2.sinks[block])
      /\ DOMAIN func1.sinks = 1..Len(func1.sinks) /\ Len(func1.sinks) \in Nat
  BY <1>1, <1>2, GraphShape, SequenceFacts
<1>4. ASSUME BlocksAgree, block' = block + 1, sink' = 1,
             UNCHANGED <<stack, cache, result, answer>>
      PROVE  ComparatorInv'
  <2>1. Len(func1.sinks[block]) <= Len(func2.sinks[block])
    <3>1. \A i \in 1..Len(func1.sinks[block]) : i \in 1..(sink - 1)
      BY <1>1, <1>2, <1>3
    <3>2. \A i \in 1..(sink - 1) : i \in DOMAIN func2.sinks[block]
      BY <1>2 DEF GoodProgress, AtSinks
    <3>3. \A i \in 1..Len(func1.sinks[block]) : i \in 1..Len(func2.sinks[block])
      BY <1>3, <3>1, <3>2
    <3>. QED  BY <1>3, <3>3
  <2>2. /\ Len(func1.sinks[block]) = Len(func2.sinks[block])
        /\ func1.succ[block] = func2.succ[block]
    BY <1>3, <1>4, <2>1 DEF BlocksAgree
  <2>3. \A i \in DOMAIN func1.sinks[block] : Same[SinkPair(func1, func2, block, i)]
    <3>1. \A i \in DOMAIN func1.sinks[block] : i \in 1..(sink - 1)
      BY <1>1, <1>2, <1>3
    <3>. QED  BY <1>2, <3>1 DEF GoodProgress, Same
  <2>4. ASSUME NEW c \in 1..((block + 1) - 1)
        PROVE  /\ c \in DOMAIN func1.sinks /\ c \in DOMAIN func2.sinks
               /\ Len(func1.sinks[c]) = Len(func2.sinks[c]) /\ func1.succ[c] = func2.succ[c]
               /\ \A i \in DOMAIN func1.sinks[c] : Same[SinkPair(func1, func2, c, i)]
    <3>1. c = block \/ c \in 1..(block - 1)
      BY <1>2
    <3>. QED  BY <1>1, <1>2, <2>2, <2>3, <3>1 DEF GoodProgress, Same
  <2>5. GoodProgress(func1, func2, block + 1, 1)
    BY <2>4 DEF GoodProgress, Same
  <2>6. ComparatorTypeOK'
    <3>1. block + 1 \in 1..(Len(func1.sinks) + 1)
      BY <1>1, <1>2, <1>3
    <3>. QED  BY <1>1, <1>4, <3>1 DEF ComparatorInv, ComparatorTypeOK, Nodes1, Nodes2
  <2>7. \A p \in DOMAIN cache : GoodEntry(func1, func2, stack, cache, result, answer, p)
    BY DEF ComparatorInv
  <2>8. GoodStack(func1, func2, stack)
    BY DEF ComparatorInv
  <2>. QED
    BY <1>1, <1>4, <2>5, <2>6, <2>7, <2>8 DEF ComparatorInv, AnswerExact, GoodBottom, GoodResult
<1>5. ASSUME ~ BlocksAgree, Differ
      PROVE  ComparatorInv'
  <2>1. ~ /\ Len(func1.sinks[block]) = Len(func2.sinks[block])
          /\ func1.succ[block] = func2.succ[block]
    BY <1>3, <1>5 DEF BlocksAgree
  <2>2. ~ SameFunction(FALSE)
    BY <1>1, <2>1 DEF SameFunction, SameBlock, Blocks1
  <2>. QED  BY <1>1, <1>5, <2>2, CacheTyped, EntryForm, DifferKeeps DEF Differ
<1>. QED  BY <1>4, <1>5 DEF EndBlock

LEMMA EndFunctionKeeps == ASSUME ComparatorInv, EndFunction PROVE ComparatorInv'
<1>1. /\ answer = "none" /\ stack = <<>> /\ result = <<>>
      /\ ~ (block \in DOMAIN func1.sinks /\ block \in DOMAIN func2.sinks)
      /\ func1' = func1 /\ func2' = func2
  BY DEF EndFunction, AtBlocks, Blocks1, Blocks2
<1>2. /\ IsGraph(func1) /\ IsGraph(func2)
      /\ block \in Nat \ {0} /\ block \in 1..(Len(func1.sinks) + 1)
      /\ GoodProgress(func1, func2, block, sink)
  BY <1>1, Running DEF ComparatorInv, ComparatorTypeOK
<1>3. /\ DOMAIN func1.sinks = 1..Len(func1.sinks) /\ Len(func1.sinks) \in Nat
      /\ DOMAIN func2.sinks = 1..Len(func2.sinks) /\ Len(func2.sinks) \in Nat
  BY <1>2, GraphShape
<1>4. CASE block \in Blocks1 \cup Blocks2 /\ Differ
  <2>1. ~ SameFunction(FALSE)
    BY <1>1, <1>4, SameFunctionMeans DEF Blocks1, Blocks2
  <2>. QED  BY <1>1, <1>4, <2>1, CacheTyped, EntryForm, DifferKeeps DEF Differ
<1>5. ASSUME block \notin Blocks1 \cup Blocks2, answer' = "equal",
             UNCHANGED <<block, sink, stack, cache, result>>
      PROVE  ComparatorInv'
  <2>1. block = Len(func1.sinks) + 1 /\ block \notin 1..Len(func2.sinks)
    BY <1>2, <1>3, <1>5 DEF Blocks1, Blocks2
  <2>2. \A c \in 1..Len(func1.sinks) :
          /\ c \in 1..Len(func2.sinks)
          /\ Len(func1.sinks[c]) = Len(func2.sinks[c]) /\ func1.succ[c] = func2.succ[c]
          /\ \A i \in DOMAIN func1.sinks[c] : Same[SinkPair(func1, func2, c, i)]
    BY <1>2, <1>3, <2>1 DEF GoodProgress, Same
  <2>3. Len(func1.sinks) = Len(func2.sinks)
    <3>1. Len(func1.sinks) = 0 \/ Len(func1.sinks) \in 1..Len(func2.sinks)
      BY <1>3, <2>2
    <3>. QED  BY <1>3, <2>1, <3>1
  <2>4. SameFunction(TRUE)
    BY <1>3, <2>2, <2>3, SameFunctionMeans
  <2>5. SameFunction(TRUE)'
    BY <1>1, <2>4 DEF SameFunction, SameBlock, Blocks1, Blocks2
  <2>6. ASSUME NEW p \in DOMAIN cache
        PROVE  GoodEntry(func1, func2, stack, cache, result, answer', p)
    BY <1>1, EntriesExact DEF GoodEntry, Same, Matches
  <2>7. ComparatorTypeOK'
    BY <1>1, <1>5 DEF ComparatorInv, ComparatorTypeOK, Nodes1, Nodes2
  <2>8. GoodStack(func1, func2, stack)
    BY DEF ComparatorInv
  <2>. QED
    BY <1>1, <1>5, <2>5, <2>6, <2>7, <2>8 DEF ComparatorInv, AnswerExact, GoodBottom, GoodResult
<1>. QED  BY <1>4, <1>5 DEF EndFunction

-----------------------------------------------------------------------------
(* Where a comparison of two graphs begins.                                *)
Untouched ==
    block = 1 /\ sink = 1 /\ stack = <<>> /\ cache = <<>> /\ result = <<>> /\ answer = "none"
Started == IsGraph(func1) /\ IsGraph(func2) /\ Untouched

LEMMA StartedInv == Started => ComparatorInv
<1>. SUFFICES ASSUME Started PROVE ComparatorInv
  OBVIOUS
<1>1. /\ IsGraph(func1) /\ IsGraph(func2) /\ block = 1 /\ sink = 1
      /\ stack = <<>> /\ cache = <<>> /\ result = <<>> /\ answer = "none"
  BY DEF Started, Untouched
<1>2. DOMAIN cache = {}
  BY <1>1
<1>3. ComparatorTypeOK
  <2>1. Len(func1.sinks) \in Nat
    BY <1>1, GraphShape
  <2>2. 1 \in 1..(Len(func1.sinks) + 1)
    BY <2>1
  <2>3. stack \in Seq([pair : Nodes1 \X Nodes2, next : Nat])
    BY <1>1
  <2>. QED  BY <1>1, <1>2, <2>2, <2>3 DEF ComparatorTypeOK
<1>4. GoodStack(func1, func2, <<>>)
  BY DEF GoodStack
<1>5. GoodProgress(func1, func2, 1, 1)
  BY DEF GoodProgress
<1>. QED
  BY <1>1, <1>2, <1>3, <1>4, <1>5 DEF ComparatorInv, AnswerExact, GoodBottom, GoodResult

LEMMA InitInv == Init => ComparatorInv
<1>1. Init => Started
  BY FunctionsOK DEF Init, IsFunction, Started, Untouched
<1>. QED  BY <1>1, StartedInv

(* The same of the state after a step, for a module that builds the graphs. *)
LEMMA StartedNext == Started' => ComparatorInv'
BY StartedInv, PTL

LEMMA NextInv == ComparatorInv /\ [Next]_vars => ComparatorInv'
<1>. SUFFICES ASSUME ComparatorInv, [Next]_vars PROVE ComparatorInv'
  OBVIOUS
<1>1. CASE UNCHANGED vars
  BY <1>1 DEF vars, ComparatorInv, ComparatorTypeOK, Nodes1, Nodes2,
     AnswerExact, SameFunction, SameBlock, Blocks1, Blocks2
<1>. QED
  BY <1>1, EnterKeeps, AbortKeeps, CompareInputKeeps, InputComparedKeeps, EndInputsKeeps,
     CompareSinkKeeps, SinkComparedKeeps, EndBlockKeeps, EndFunctionKeeps DEF Next, Finished

LEMMA InvTrusts == ComparatorInv => AnswerExact /\ CacheTrusted
<1>1. ComparatorInv => CacheTrusted
  BY EntryRight, EntryForm DEF CacheTrusted, Matches, Right, Cached, Surely, Possibly
<1>. QED  BY <1>1 DEF ComparatorInv

(* The inductive invariant holds throughout.                               *)
THEOREM ComparatorInductive == Spec => []ComparatorInv
  BY InitInv, NextInv, PTL DEF Spec

(* Whatever the functions are, a call that finds its pair in the cache gets *)
(* the answer that it would have computed, although the cache is written   *)
(* before that answer is known.                                            *)
THEOREM CacheAlwaysTrusted == Spec => []CacheTrusted
BY InvTrusts, ComparatorInductive, PTL

(* Whatever the functions are, compareFunctionFlows answers equal only for *)
(* the same ones and different only for others.                            *)
THEOREM AnswerAlwaysExact == Spec => []AnswerExact
BY InvTrusts, ComparatorInductive, PTL

(* The two functions, the stack and the cache keep their types.            *)
THEOREM ComparatorTyped == Spec => []ComparatorTypeOK
<1>1. ComparatorInv => ComparatorTypeOK
  BY DEF ComparatorInv
<1>. QED  BY <1>1, ComparatorInductive, PTL

-----------------------------------------------------------------------------
(***************************************************************************)
(* Terms.  Where the nodes of a graph can be read as terms, two of them are *)
(* the same when their terms are equal: the answer does not depend on how  *)
(* a graph shares its nodes.                                               *)
(***************************************************************************)
(* T gives every node a term: its type, what is told of it, and the terms  *)
(* of its inputs.                                                          *)
ReadInputs(f, T, n) == [i \in DOMAIN f.nodes[n].inputs |-> T[f.nodes[n].inputs[i]]]
Reads(f, T) ==
    \A n \in DOMAIN f.nodes : T[n] = <<f.nodes[n].type, T[n][2], ReadInputs(f, T, n)>>

(* What is told of a node is what two nodes have to agree in.              *)
Tells(f, T, g, U) ==
    \A m \in DOMAIN f.nodes, n \in DOMAIN g.nodes :
        f.nodes[m].type = g.nodes[n].type
            => (Agree(f.nodes[m], g.nodes[n]) <=> T[m][2] = U[n][2])

LEMMA SameTerm ==
    ASSUME NEW f, IsGraph(f), NEW g, IsGraph(g), NEW T, NEW U,
           Reads(f, T), Reads(g, U), Tells(f, T, g, U),
           NEW resolved, NEW p \in NodePairs(f, g)
    PROVE  /\ SameNode(f, g, resolved)[p] => T[p[1]] = U[p[2]]
           /\ ~resolved /\ T[p[1]] = U[p[2]] => SameNode(f, g, resolved)[p]
<1>1. PICK same : same = SameNode(f, g, resolved)
  OBVIOUS
<1> DEFINE Good(m, n) == /\ same[<<m, n>>] => T[m] = U[n]
                         /\ ~resolved /\ T[m] = U[n] => same[<<m, n>>]
           S == {m \in DOMAIN f.nodes : \E n \in DOMAIN g.nodes : ~Good(m, n)}
<1>2. S = {}
  <2>. SUFFICES ASSUME S # {} PROVE FALSE
    OBVIOUS
  <2>1. S \in (SUBSET DOMAIN f.nodes) \ {{}}
    OBVIOUS
  <2>2. PICK m \in S : \A i \in DOMAIN f.nodes[m].inputs : f.nodes[m].inputs[i] \notin S
    <3> HIDE DEF S
    <3>. QED  BY <2>1 DEF IsGraph, Grounded
  <2>3. PICK n \in DOMAIN g.nodes : ~Good(m, n)
    BY <2>2
  <2>4. m \in DOMAIN f.nodes /\ <<m, n>> \in NodePairs(f, g)
    BY <2>2, <2>3 DEF NodePairs
  <2>5. PICK x, y : x = f.nodes[m] /\ y = g.nodes[n]
    OBVIOUS
  <2>6. same[<<m, n>>] <=>
          (/\ Agree(x, y) /\ (resolved => ~ Fails(x, y))
           /\ Len(x.inputs) = Len(y.inputs)
           /\ \A i \in DOMAIN x.inputs : same[<<x.inputs[i], y.inputs[i]>>])
    <3>1. PICK q : q = <<m, n>>
      OBVIOUS
    <3>2. q[1] = m /\ q[2] = n
      BY <3>1
    <3>3. same[q] = Sameness(f, g, resolved, same, q)
      BY <1>1, <2>4, <3>1, SameNodeSolves
    <3>4. Sameness(f, g, resolved, same, q) <=>
            (/\ Agree(x, y) /\ (resolved => ~ Fails(x, y))
             /\ Len(x.inputs) = Len(y.inputs)
             /\ \A i \in DOMAIN x.inputs : same[<<x.inputs[i], y.inputs[i]>>])
      BY <2>5, <3>2 DEF Sameness
    <3>. QED  BY <3>1, <3>3, <3>4
  <2>7. /\ Len(x.inputs) \in Nat /\ DOMAIN x.inputs = 1..Len(x.inputs)
        /\ Len(y.inputs) \in Nat /\ DOMAIN y.inputs = 1..Len(y.inputs)
        /\ \A i \in DOMAIN x.inputs : x.inputs[i] \in DOMAIN f.nodes
        /\ \A i \in DOMAIN y.inputs : y.inputs[i] \in DOMAIN g.nodes
    <3>1. x.inputs \in Seq(DOMAIN f.nodes) /\ y.inputs \in Seq(DOMAIN g.nodes)
      BY <2>3, <2>4, <2>5, GraphShape
    <3>. QED  BY <3>1, SequenceFacts
  <2>8. ASSUME NEW i, i \in DOMAIN x.inputs, i \in DOMAIN y.inputs
        PROVE  Good(x.inputs[i], y.inputs[i])
    <3>1. x.inputs[i] \in DOMAIN f.nodes /\ x.inputs[i] \notin S /\ y.inputs[i] \in DOMAIN g.nodes
      <4> HIDE DEF S
      <4>. QED  BY <2>2, <2>5, <2>7, <2>8
    <3>. QED  BY <3>1
  <2>9. PICK a, b : /\ a = [i \in DOMAIN x.inputs |-> T[x.inputs[i]]]
                    /\ b = [i \in DOMAIN y.inputs |-> U[y.inputs[i]]]
    OBVIOUS
  <2>10. T[m] = <<x.type, T[m][2], a>> /\ U[n] = <<y.type, U[n][2], b>>
    BY <2>3, <2>4, <2>5, <2>9 DEF Reads, ReadInputs
  <2>11. x.type = y.type => (Agree(x, y) <=> T[m][2] = U[n][2])
    BY <2>3, <2>4, <2>5 DEF Tells
  <2>12. Agree(x, y) => x.type = y.type
    BY DEF Agree
  <2>13. CASE same[<<m, n>>]
    <3>1. /\ Agree(x, y) /\ Len(x.inputs) = Len(y.inputs)
          /\ \A i \in DOMAIN x.inputs : same[<<x.inputs[i], y.inputs[i]>>]
      BY <2>6, <2>13
    <3>2. DOMAIN x.inputs = DOMAIN y.inputs
      BY <2>7, <3>1
    <3>3. \A i \in DOMAIN x.inputs : T[x.inputs[i]] = U[y.inputs[i]]
      BY <2>8, <3>1, <3>2
    <3>4. a = b
      BY <2>9, <3>2, <3>3
    <3>5. T[m] = U[n]
      BY <2>10, <2>11, <2>12, <3>1, <3>4
    <3>. QED  BY <2>3, <2>13, <3>5
  <2>14. CASE ~resolved /\ T[m] = U[n]
    <3>1. PICK s, t : s = T[m][2] /\ t = U[n][2]
      OBVIOUS
    <3>2. <<x.type, s, a>> = <<y.type, t, b>>
      BY <2>10, <2>14, <3>1
    <3>3. x.type = y.type /\ s = t /\ a = b
      BY <3>2
    <3>4. Agree(x, y)
      BY <2>11, <3>1, <3>3
    <3>5. DOMAIN x.inputs = DOMAIN y.inputs
      BY <2>9, <3>3
    <3>6. Len(x.inputs) = Len(y.inputs)
      <4>1. PICK k, l : k = Len(x.inputs) /\ l = Len(y.inputs)
        OBVIOUS
      <4>2. k \in Nat /\ l \in Nat /\ 1..k = 1..l
        BY <2>7, <3>5, <4>1
      <4>3. k = l
        <5>1. k > 0 => k \in 1..l
          BY <4>2
        <5>2. l > 0 => l \in 1..k
          BY <4>2
        <5>. QED  BY <4>2, <5>1, <5>2
      <4>. QED  BY <4>1, <4>3
    <3>7. \A i \in DOMAIN x.inputs : same[<<x.inputs[i], y.inputs[i]>>]
      <4>. SUFFICES ASSUME NEW i \in DOMAIN x.inputs PROVE same[<<x.inputs[i], y.inputs[i]>>]
        OBVIOUS
      <4>1. a[i] = T[x.inputs[i]] /\ b[i] = U[y.inputs[i]]
        BY <2>9, <3>5
      <4>2. T[x.inputs[i]] = U[y.inputs[i]]
        BY <3>3, <4>1
      <4>. QED  BY <2>8, <2>14, <3>5, <4>2
    <3>8. same[<<m, n>>]
      BY <2>6, <2>14, <3>4, <3>6, <3>7
    <3>. QED  BY <2>3, <2>14, <3>8
  <2>. QED  BY <2>3, <2>13, <2>14
<1>3. p = <<p[1], p[2]>> /\ p[1] \in DOMAIN f.nodes /\ p[2] \in DOMAIN g.nodes
  BY DEF NodePairs
<1>4. Good(p[1], p[2])
  BY <1>2, <1>3
<1>. QED  BY <1>1, <1>3, <1>4

(* The answer tells whether the sinks have equal terms and the blocks the  *)
(* same successors.                                                        *)
ReadSinks(f, T, b) == [k \in DOMAIN f.sinks[b] |-> T[f.sinks[b][k]]]
SameReadings(f, T, g, U) ==
    /\ DOMAIN f.sinks = DOMAIN g.sinks
    /\ \A b \in DOMAIN f.sinks :
          ReadSinks(f, T, b) = ReadSinks(g, U, b) /\ f.succ[b] = g.succ[b]

LEMMA AnswerReads ==
    ASSUME IsGraph(func1), IsGraph(func2), AnswerExact, NEW T, NEW U,
           Reads(func1, T), Reads(func2, U), Tells(func1, T, func2, U)
    PROVE  /\ answer = "equal" => SameReadings(func1, T, func2, U)
           /\ answer = "different" => ~SameReadings(func1, T, func2, U)
<1>1. ASSUME NEW b, b \in DOMAIN func1.sinks, b \in DOMAIN func2.sinks
      PROVE  /\ Len(func1.sinks[b]) \in Nat
             /\ DOMAIN func1.sinks[b] = 1..Len(func1.sinks[b])
             /\ Len(func2.sinks[b]) \in Nat
             /\ DOMAIN func2.sinks[b] = 1..Len(func2.sinks[b])
             /\ \A k : k \in DOMAIN func1.sinks[b] /\ k \in DOMAIN func2.sinks[b]
                    => SinkPair(func1, func2, b, k) \in NodePairs(func1, func2)
  <2>1. /\ func1.sinks[b] \in Seq(DOMAIN func1.nodes)
        /\ func2.sinks[b] \in Seq(DOMAIN func2.nodes)
    BY <1>1, GraphShape
  <2>. QED  BY <2>1, SequenceFacts DEF SinkPair, NodePairs
<1>2. ASSUME NEW p \in NodePairs(func1, func2)
      PROVE  /\ Same[p] => T[p[1]] = U[p[2]]
             /\ T[p[1]] = U[p[2]] => Alike[p]
  <2>1. PICK yes, no : yes = TRUE /\ no = FALSE
    OBVIOUS
  <2>2. /\ SameNode(func1, func2, yes)[p] => T[p[1]] = U[p[2]]
        /\ ~no /\ T[p[1]] = U[p[2]] => SameNode(func1, func2, no)[p]
    BY SameTerm
  <2>. QED  BY <2>1, <2>2 DEF Same, Alike, Surely, Possibly
<1>3. ASSUME answer = "equal" PROVE SameReadings(func1, T, func2, U)
  <2>1. SameFunction(TRUE)
    BY <1>3 DEF AnswerExact
  <2>2. /\ DOMAIN func1.sinks = DOMAIN func2.sinks
        /\ \A b \in DOMAIN func1.sinks :
              /\ Len(func1.sinks[b]) = Len(func2.sinks[b])
              /\ \A s \in DOMAIN func1.sinks[b] : Same[SinkPair(func1, func2, b, s)]
              /\ func1.succ[b] = func2.succ[b]
    BY <2>1, SameFunctionMeans
  <2>3. ASSUME NEW b \in DOMAIN func1.sinks
        PROVE  ReadSinks(func1, T, b) = ReadSinks(func2, U, b)
    <3>1. DOMAIN func1.sinks[b] = DOMAIN func2.sinks[b]
      BY <1>1, <2>2
    <3>2. ASSUME NEW k \in DOMAIN func1.sinks[b]
          PROVE  T[func1.sinks[b][k]] = U[func2.sinks[b][k]]
      <4>1. SinkPair(func1, func2, b, k) \in NodePairs(func1, func2)
        BY <1>1, <2>2, <3>1
      <4>2. Same[SinkPair(func1, func2, b, k)]
        BY <2>2
      <4>. QED  BY <1>2, <4>1, <4>2 DEF SinkPair
    <3>. QED  BY <3>1, <3>2 DEF ReadSinks
  <2>. QED  BY <2>2, <2>3 DEF SameReadings
<1>4. ASSUME answer = "different", SameReadings(func1, T, func2, U) PROVE FALSE
  <2>1. /\ DOMAIN func1.sinks = DOMAIN func2.sinks
        /\ \A b \in DOMAIN func1.sinks :
              ReadSinks(func1, T, b) = ReadSinks(func2, U, b) /\ func1.succ[b] = func2.succ[b]
    BY <1>4 DEF SameReadings
  <2>2. ASSUME NEW b \in DOMAIN func1.sinks
        PROVE  /\ Len(func1.sinks[b]) = Len(func2.sinks[b])
               /\ \A k \in DOMAIN func1.sinks[b] : Alike[SinkPair(func1, func2, b, k)]
    <3>1. PICK a, c : /\ a = [k \in DOMAIN func1.sinks[b] |-> T[func1.sinks[b][k]]]
                      /\ c = [k \in DOMAIN func2.sinks[b] |-> U[func2.sinks[b][k]]]
      OBVIOUS
    <3>2. a = c
      BY <2>1, <3>1 DEF ReadSinks
    <3>3. DOMAIN func1.sinks[b] = DOMAIN func2.sinks[b]
      BY <3>1, <3>2
    <3>4. Len(func1.sinks[b]) = Len(func2.sinks[b])
      <4>1. PICK k, l : k = Len(func1.sinks[b]) /\ l = Len(func2.sinks[b])
        OBVIOUS
      <4>2. k \in Nat /\ l \in Nat /\ 1..k = 1..l
        BY <1>1, <2>1, <3>3, <4>1
      <4>3. (k > 0 => k \in 1..l) /\ (l > 0 => l \in 1..k)
        BY <4>2
      <4>4. k = l
        BY <4>2, <4>3
      <4>. QED  BY <4>1, <4>4
    <3>5. ASSUME NEW k \in DOMAIN func1.sinks[b] PROVE Alike[SinkPair(func1, func2, b, k)]
      <4>1. T[func1.sinks[b][k]] = U[func2.sinks[b][k]]
        BY <3>1, <3>2, <3>3
      <4>2. SinkPair(func1, func2, b, k) \in NodePairs(func1, func2)
        BY <1>1, <2>1, <3>3
      <4>. QED  BY <1>2, <4>1, <4>2 DEF SinkPair
    <3>. QED  BY <3>4, <3>5
  <2>3. SameFunction(FALSE)
    BY <2>1, <2>2, SameFunctionMeans
  <2>. QED  BY <1>4, <2>3 DEF AnswerExact
<1>. QED  BY <1>3, <1>4

-----------------------------------------------------------------------------
(***************************************************************************)
(* Each pair is followed once.                                             *)
(***************************************************************************)
(* A call that is past an input has an entry in the cache, and so has      *)
(* every pair with inputs that was followed and is on the stack no longer, *)
(* until the comparison has failed.                                        *)
Past(s, c) == \A k \in DOMAIN s : s[k].next > 1 => s[k].pair \in DOMAIN c
Settled(f, s, c, r, a, p) ==
    \/ f.nodes[p[1]].inputs = <<>> \/ p \in DOMAIN c
    \/ p \in LooksOf(s) \/ r = <<FALSE>> \/ a # "none"

FollowedInv ==
    /\ ComparatorInv
    /\ Past(stack, cache)
    /\ \A p \in looked : Settled(func1, stack, cache, result, answer, p)

(* What a step must keep of it: then no pair is followed again.            *)
Keeps ==
    /\ Past(stack', cache') /\ DOMAIN cache \subseteq DOMAIN cache'
    /\ result' = <<FALSE>> \/ answer' # "none"
       \/ \A p \in LooksOf(stack) : Settled(func1, stack', cache', result', answer', p)
    /\ \A p \in LooksOf(stack') \ LooksOf(stack) : ~ Cached(p) /\ answer = "none" /\ result = <<>>
    /\ result = <<FALSE>> => result' = <<FALSE>> \/ answer' # "none"
    /\ answer # "none" => answer' # "none"
    /\ func1' = func1

LEMMA LooksPush ==
    ASSUME NEW S, NEW s \in Seq(S), NEW x \in S, x.next = 0
    PROVE  LooksOf(<<x>> \o s) = LooksOf(s)
<1> DEFINE t == <<x>> \o s
<1>1. /\ t[1] = x /\ DOMAIN t = 1..(Len(s) + 1) /\ DOMAIN s = 1..Len(s) /\ Len(s) \in Nat
      /\ \A k \in DOMAIN t : k > 1 => k - 1 \in DOMAIN s /\ t[k] = s[k - 1]
  BY PushFacts, SequenceFacts
<1> HIDE DEF t
<1>2. ASSUME NEW k \in DOMAIN t, t[k].next > 0 PROVE t[k].pair \in LooksOf(s)
  <2>1. k # 1 /\ k > 1
    BY <1>1, <1>2
  <2>. QED  BY <1>1, <1>2, <2>1 DEF LooksOf
<1>3. ASSUME NEW k \in DOMAIN s, s[k].next > 0 PROVE s[k].pair \in LooksOf(t)
  <2>1. k + 1 \in DOMAIN t /\ t[k + 1] = s[k]
    BY <1>1
  <2>. QED  BY <1>3, <2>1 DEF LooksOf
<1>4. LooksOf(t) \subseteq LooksOf(s)
  BY <1>2 DEF LooksOf
<1>5. LooksOf(s) \subseteq LooksOf(t)
  BY <1>3 DEF LooksOf
<1>. QED  BY <1>4, <1>5 DEF t

LEMMA LooksPop ==
    ASSUME NEW S, NEW s \in Seq(S), s # <<>>
    PROVE  /\ LooksOf(Tail(s)) \subseteq LooksOf(s)
           /\ \A p \in LooksOf(s) : p \in LooksOf(Tail(s)) \/ (p = s[1].pair /\ s[1].next > 0)
<1>1. /\ \A k \in DOMAIN Tail(s) : k + 1 \in DOMAIN s /\ Tail(s)[k] = s[k + 1]
      /\ \A k \in DOMAIN s : k > 1 => k - 1 \in DOMAIN Tail(s) /\ s[k] = Tail(s)[k - 1]
      /\ \A k \in DOMAIN s : k = 1 \/ k > 1
  BY PopFacts, SequenceFacts
<1>2. \A k \in DOMAIN Tail(s) : Tail(s)[k].next > 0 => Tail(s)[k].pair \in LooksOf(s)
  BY <1>1 DEF LooksOf
<1>3. \A k \in DOMAIN s : s[k].next > 0 =>
        s[k].pair \in LooksOf(Tail(s)) \/ (s[k].pair = s[1].pair /\ s[1].next > 0)
  BY <1>1 DEF LooksOf
<1>. QED  BY <1>2, <1>3 DEF LooksOf

LEMMA LooksStep ==
    ASSUME NEW P, NEW s \in Seq([pair : P, next : Nat]), s # <<>>
    PROVE  /\ LooksOf(s) \subseteq LooksOf(Stepped(s))
           /\ \A p \in LooksOf(Stepped(s)) : p \in LooksOf(s) \/ (p = s[1].pair /\ s[1].next = 0)
<1> DEFINE t == Stepped(s)
<1>1. /\ DOMAIN t = DOMAIN s /\ t[1].next = s[1].next + 1
      /\ \A k \in DOMAIN s : k > 1 => t[k] = s[k]
      /\ \A k \in DOMAIN s : t[k].pair = s[k].pair
  BY StepFacts
<1>2. \A k \in DOMAIN s : k = 1 \/ k > 1
  BY SequenceFacts
<1>3. 1 \in DOMAIN s /\ s[1].next \in Nat
  <2> DEFINE C == [pair : P, next : Nat]
  <2>1. s[1] \in C /\ 1 \in DOMAIN s
    <3> HIDE DEF C
    <3>. QED  BY NonEmpty, SequenceFacts DEF C
  <2>. QED  BY <2>1
<1> HIDE DEF t
<1>4. \A k \in DOMAIN s : s[k].next > 0 => t[k].next > 0
  BY <1>1, <1>2, <1>3
<1>5. \A k \in DOMAIN s : t[k].next > 0 => s[k].next > 0 \/ (k = 1 /\ s[1].next = 0)
  BY <1>1, <1>2, <1>3
<1>6. LooksOf(s) \subseteq LooksOf(t)
  BY <1>1, <1>4 DEF LooksOf
<1>7. \A p \in LooksOf(t) : p \in LooksOf(s) \/ (p = s[1].pair /\ s[1].next = 0)
  BY <1>1, <1>5 DEF LooksOf
<1>. QED  BY <1>6, <1>7 DEF t


(* What is known of the stack while a call is running.                     *)
LEMMA RunningStack ==
    ASSUME ComparatorInv, stack # <<>>
    PROVE  /\ answer = "none" /\ IsGraph(func1) /\ IsGraph(func2)
           /\ stack \in Seq(Calls(func1, func2)) /\ 1 \in DOMAIN stack
           /\ Top.next \in Nat /\ Top.pair \in (DOMAIN func1.nodes) \X (DOMAIN func2.nodes)
<1>1. answer = "none"
  BY DEF ComparatorInv
<1>. QED  BY <1>1, Running DEF Calls

(* A call returns: it has been followed once, or it has failed.            *)
LEMMA ReturnSettles ==
    ASSUME ComparatorInv, Past(stack, cache), stack # <<>>, stack' = Tail(stack),
           func1' = func1, DOMAIN cache \subseteq DOMAIN cache',
           result = <<FALSE>> => result' = <<FALSE>>,
           \/ result' = <<FALSE>> \/ Top.next = 0 \/ Node1.inputs = <<>>
           \/ Top.pair \in DOMAIN cache'
    PROVE  Keeps
<1>1. /\ answer = "none" /\ stack \in Seq(Calls(func1, func2)) /\ Top.next \in Nat
  BY RunningStack
<1>2. /\ LooksOf(stack') \subseteq LooksOf(stack)
      /\ \A p \in LooksOf(stack) :
            p \in LooksOf(stack') \/ (p = stack[1].pair /\ stack[1].next > 0)
  BY <1>1, LooksPop
<1>3. Past(stack', cache')
  BY <1>1, PopFacts DEF Past
<1>4. ASSUME NEW p \in LooksOf(stack)
      PROVE  Settled(func1, stack', cache', result', answer', p)
  <2>1. CASE p \in LooksOf(stack')
    BY <2>1 DEF Settled
  <2>2. CASE p = Top.pair /\ Top.next > 0
    <3>1. result' = <<FALSE>> \/ Node1.inputs = <<>> \/ p \in DOMAIN cache'
      <4>1. Top.next # 0
        BY <2>2
      <4>. QED  BY <2>2, <4>1, Zenon
    <3>. QED  BY <2>2, <3>1 DEF Settled, Node1
  <2>. QED  BY <1>2, <2>1, <2>2 DEF Top
<1>. QED  BY <1>1, <1>2, <1>3, <1>4 DEF Keeps

(* The top goes on: for the first time, if its pair is not in the cache.   *)
LEMMA ProceedSettles ==
    ASSUME ComparatorInv, Past(stack, cache), stack # <<>>, Proceed,
           func1' = func1, DOMAIN cache \subseteq DOMAIN cache', result # <<FALSE>>,
           \/ Top.next = 0 /\ ~ Cached(Top.pair) /\ result = <<>>
           \/ Top.next > 0 /\ Top.pair \in DOMAIN cache'
    PROVE  Keeps
<1> DEFINE P == (DOMAIN func1.nodes) \X (DOMAIN func2.nodes)
<1>1. /\ answer = "none" /\ stack \in Seq([pair : P, next : Nat]) /\ Top.next \in Nat
  BY RunningStack DEF Calls
<1> HIDE DEF P
<1>2. stack' = Stepped(stack)
  BY DEF Proceed, Stepped
<1>3. /\ DOMAIN stack' = DOMAIN stack
      /\ stack'[1].pair = stack[1].pair /\ stack'[1].next = stack[1].next + 1
      /\ \A k \in DOMAIN stack : k > 1 => stack'[k] = stack[k]
      /\ \A k \in DOMAIN stack : k = 1 \/ k > 1
  <2>1. \A k \in DOMAIN stack : k = 1 \/ k > 1
    BY <1>1, SequenceFacts
  <2>. QED  BY <1>1, <1>2, <2>1, StepFacts
<1>4. /\ LooksOf(stack) \subseteq LooksOf(stack')
      /\ \A p \in LooksOf(stack') :
            p \in LooksOf(stack) \/ (p = stack[1].pair /\ stack[1].next = 0)
  BY <1>1, <1>2, LooksStep
<1>5. Past(stack', cache')
  <2>1. ASSUME stack'[1].next > 1 PROVE stack'[1].pair \in DOMAIN cache'
    BY <1>1, <1>3, <2>1 DEF Top
  <2>2. ASSUME NEW k \in DOMAIN stack', stack'[k].next > 1 PROVE stack'[k].pair \in DOMAIN cache'
    BY <1>3, <2>1, <2>2 DEF Past
  <2>. QED  BY <2>2 DEF Past
<1>6. \A p \in LooksOf(stack') \ LooksOf(stack) : ~ Cached(p) /\ result = <<>>
  BY <1>1, <1>4 DEF Top
<1>. QED  BY <1>1, <1>4, <1>5, <1>6 DEF Keeps, Settled

(* Nothing is called, and nothing returns.                                 *)
LEMMA NoCallSettles ==
    ASSUME Past(stack, cache), func1' = func1, DOMAIN cache \subseteq DOMAIN cache',
           LooksOf(stack') = LooksOf(stack), Past(stack', cache'),
           result = <<FALSE>> => result' = <<FALSE>> \/ answer' # "none",
           answer # "none" => answer' # "none"
    PROVE  Keeps
  BY DEF Keeps, Settled

LEMMA Remembered ==
    ASSUME NEW v, Remember(v)
    PROVE  DOMAIN cache' = DOMAIN cache \cup {Top.pair}
  BY DEF Remember

LEMMA EnterFollows ==
    ASSUME ComparatorInv, Past(stack, cache), Enter
    PROVE  Keeps
<1>1. /\ stack # <<>> /\ result = <<>> /\ result # <<FALSE>> /\ Top.next = 0
      /\ func1' = func1 /\ cache' = cache
  BY DEF Enter
<1>2. ASSUME NEW v, Return(v) PROVE Keeps
  <2>1. stack' = Tail(stack)
    BY <1>2 DEF Return
  <2>. QED  BY <1>1, <2>1, ReturnSettles
<1>3. ASSUME ~ Cached(Top.pair), Proceed PROVE Keeps
  BY <1>1, <1>3, ProceedSettles
<1>. QED  BY <1>2, <1>3 DEF Enter

LEMMA CompareInputFollows ==
    ASSUME ComparatorInv, Past(stack, cache), CompareInput
    PROVE  Keeps
<1>1. /\ stack # <<>> /\ result = <<>> /\ result # <<FALSE>>
      /\ Top.next \in DOMAIN Node1.inputs
      /\ func1' = func1 /\ cache' = cache /\ answer' = answer
  BY DEF CompareInput
<1>2. /\ answer = "none" /\ IsGraph(func1) /\ IsGraph(func2)
      /\ stack \in Seq(Calls(func1, func2)) /\ 1 \in DOMAIN stack
      /\ Top.pair \in (DOMAIN func1.nodes) \X (DOMAIN func2.nodes)
  BY <1>1, RunningStack
<1> DEFINE x == Call(Node1.inputs[Top.next], Node2.inputs[Top.next])
<1>3. ASSUME Top.next \in DOMAIN Node2.inputs, stack' = <<x>> \o stack PROVE Keeps
  <2>1. x.next = 0
    BY DEF Call
  <2>2. x \in Calls(func1, func2)
    <3>1. /\ Node1.inputs[Top.next] \in DOMAIN func1.nodes
          /\ Node2.inputs[Top.next] \in DOMAIN func2.nodes
      BY <1>1, <1>2, <1>3, GraphShape DEF Node1, Node2
    <3>. QED  BY <3>1 DEF Call, Calls
  <2> HIDE DEF x
  <2>3. LooksOf(stack') = LooksOf(stack)
    BY <1>2, <1>3, <2>1, <2>2, LooksPush
  <2>4. Past(stack', cache')
    <3>1. /\ stack'[1] = x
          /\ \A k \in DOMAIN stack' : k > 1 => k - 1 \in DOMAIN stack /\ stack'[k] = stack[k - 1]
      BY <1>2, <1>3, <2>2, PushFacts
    <3>2. \A k \in DOMAIN stack' : k = 1 \/ k > 1
      <4>1. stack' \in Seq(Calls(func1, func2))
        BY <1>2, <1>3, <2>2, PushFacts
      <4>. QED  BY <4>1, SequenceFacts
    <3>. QED  BY <1>1, <2>1, <3>1, <3>2 DEF Past
  <2>. QED  BY <1>1, <1>2, <2>3, <2>4, NoCallSettles
<1>4. ASSUME Return(FALSE) PROVE Keeps
  <2>1. stack' = Tail(stack) /\ result' = <<FALSE>>
    BY <1>4 DEF Return
  <2>. QED  BY <1>1, <2>1, ReturnSettles
<1>. QED  BY <1>3, <1>4 DEF CompareInput

LEMMA InputComparedFollows ==
    ASSUME ComparatorInv, Past(stack, cache), InputCompared
    PROVE  Keeps
<1>1. stack # <<>> /\ result # <<>> /\ func1' = func1 /\ Remember(result[1])
  BY DEF InputCompared
<1>2. DOMAIN cache' = DOMAIN cache \cup {Top.pair}
  BY <1>1, Remembered
<1>3. answer = "none" /\ IsGraph(func1) /\ IsGraph(func2)
      /\ Top.pair \in (DOMAIN func1.nodes) \X (DOMAIN func2.nodes)
  BY <1>1, RunningStack
<1>4. Top.next > 0
  <2>1. Top.next \in DOMAIN func1.nodes[Top.pair[1]].inputs
    BY <1>1, <1>3, Running DEF GoodResult, Waits, Top
  <2>2. func1.nodes[Top.pair[1]].inputs \in Seq(DOMAIN func1.nodes)
    BY <1>3, GraphShape
  <2>. QED  BY <2>1, <2>2, SequenceFacts
<1>5. ASSUME result[1], Proceed PROVE Keeps
  <2>1. ASSUME result = <<FALSE>> PROVE FALSE
    <3>1. result[1] = FALSE
      BY <2>1
    <3>. QED  BY <1>5, <3>1
  <2>. QED  BY <1>1, <1>2, <1>4, <1>5, <2>1, ProceedSettles
<1>6. ASSUME Return(FALSE) PROVE Keeps
  <2>1. stack' = Tail(stack) /\ result' = <<FALSE>>
    BY <1>6 DEF Return
  <2>. QED  BY <1>1, <1>2, <2>1, ReturnSettles
<1>. QED  BY <1>5, <1>6 DEF InputCompared

(* A call that is at the end of its inputs has passed one, if it has any.  *)
LEMMA EndInputsFollows ==
    ASSUME ComparatorInv, Past(stack, cache), EndInputs
    PROVE  Keeps
<1>1. /\ stack # <<>> /\ result = <<>> /\ result # <<FALSE>>
      /\ Top.next > Len(Node1.inputs) /\ func1' = func1 /\ cache' = cache
      /\ stack' = Tail(stack)
  BY DEF EndInputs, Return
<1>2. /\ IsGraph(func1) /\ stack \in Seq(Calls(func1, func2)) /\ 1 \in DOMAIN stack
      /\ Top.next \in Nat
      /\ Top.pair \in (DOMAIN func1.nodes) \X (DOMAIN func2.nodes)
  BY <1>1, RunningStack
<1>3. Node1.inputs = <<>> \/ Top.pair \in DOMAIN cache'
  <2>1. Node1.inputs \in Seq(DOMAIN func1.nodes)
    BY <1>2, GraphShape DEF Node1
  <2>2. Node1.inputs = <<>> \/ Len(Node1.inputs) \in Nat \ {0}
    BY <2>1, NonEmpty
  <2>3. Node1.inputs = <<>> \/ Top.next > 1
    BY <1>1, <1>2, <2>2
  <2>. QED  BY <1>1, <1>2, <2>3 DEF Past, Top
<1>. QED  BY <1>1, <1>3, ReturnSettles

LEMMA NoLooks == LooksOf(<<>>) = {} /\ \A c : Past(<<>>, c)
  BY DEF LooksOf, Past

LEMMA CompareSinkFollows ==
    ASSUME ComparatorInv, Past(stack, cache), CompareSink
    PROVE  Keeps
<1>1. answer = "none" /\ stack = <<>> /\ result = <<>> /\ result # <<FALSE>>
      /\ func1' = func1 /\ cache' = cache
  BY DEF CompareSink, AtBlocks, Differ
<1>2. ASSUME NEW m, NEW n, stack' = <<Call(m, n)>> PROVE Keeps
  <2>1. DOMAIN stack' = {1} /\ stack'[1].next = 0
    BY <1>2 DEF Call
  <2>2. LooksOf(stack') = LooksOf(stack) /\ Past(stack', cache')
    BY <1>1, <2>1, NoLooks DEF LooksOf, Past
  <2>. QED  BY <1>1, <2>2, NoCallSettles
<1>3. ASSUME stack' = stack PROVE Keeps
  BY <1>1, <1>3, NoCallSettles
<1>. QED  BY <1>2, <1>3 DEF CompareSink, Differ

LEMMA SinkComparedFollows ==
    ASSUME ComparatorInv, Past(stack, cache), SinkCompared
    PROVE  Keeps
<1>1. /\ answer = "none" /\ stack = <<>> /\ func1' = func1 /\ stack' = stack
      /\ DOMAIN cache \subseteq DOMAIN cache'
      /\ result[1] \/ answer' = "different"
  BY DEF SinkCompared
<1>2. result = <<FALSE>> => answer' = "different"
  BY <1>1
<1>. QED  BY <1>1, <1>2, NoLooks, NoCallSettles

LEMMA OthersFollow ==
    ASSUME ComparatorInv, Past(stack, cache),
           Abort \/ EndBlock \/ EndFunction \/ UNCHANGED vars
    PROVE  Keeps
<1>1. ASSUME Abort PROVE Keeps
  <2>1. /\ func1' = func1 /\ cache' = cache /\ answer' = "aborted" /\ stack' = <<>>
    BY <1>1 DEF Abort
  <2>. QED  BY <2>1, NoLooks DEF Keeps
<1>2. ASSUME EndBlock \/ EndFunction PROVE Keeps
  <2>1. /\ func1' = func1 /\ cache' = cache /\ stack' = stack /\ result = <<>> /\ answer = "none"
    BY <1>2 DEF EndBlock, EndFunction, Differ, AtBlocks
  <2>. QED  BY <2>1, NoCallSettles
<1>3. ASSUME UNCHANGED vars PROVE Keeps
  BY <1>3, NoCallSettles DEF vars
<1>. QED  BY <1>1, <1>2, <1>3

LEMMA StepFollows ==
    ASSUME ComparatorInv, Past(stack, cache), [Next]_vars
    PROVE  Keeps
  BY EnterFollows, CompareInputFollows, InputComparedFollows, EndInputsFollows,
     CompareSinkFollows, SinkComparedFollows, OthersFollow DEF Next, Finished

LEMMA FollowedInitInv == RecordedInit => FollowedInv
  BY InitInv, NoLooks DEF RecordedInit, Init, FollowedInv

LEMMA FollowedNextInv == FollowedInv /\ [RecordedNext]_RecordedVars => FollowedInv'
<1>. SUFFICES ASSUME FollowedInv, [RecordedNext]_RecordedVars PROVE FollowedInv'
  OBVIOUS
<1>1. [Next]_vars /\ looked' \subseteq looked \cup LooksOf(stack')
  BY DEF RecordedNext, RecordedVars, Looks
<1>2. Keeps /\ ComparatorInv'
  BY <1>1, StepFollows, NextInv DEF FollowedInv
<1>3. ASSUME NEW p \in looked'
      PROVE  Settled(func1, stack', cache', result', answer', p)
  <2>1. CASE p \in LooksOf(stack')
    BY <2>1 DEF Settled
  <2>2. CASE p \in looked
    BY <1>2, <2>2 DEF FollowedInv, Keeps, Settled
  <2>. QED  BY <1>1, <2>1, <2>2
<1>. QED  BY <1>2, <1>3 DEF FollowedInv, Keeps

(* Whatever the functions are, the inputs of a pair of nodes are followed  *)
(* once: the cache keeps the comparison from repeating a shared graph.     *)
THEOREM PairsFollowedOnce == RecordedSpec => FollowedOnce
<1>1. FollowedInv /\ [RecordedNext]_RecordedVars =>
        [\A p \in Looks' : p \in looked /\ p \notin Looks
            => func1.nodes[p[1]].inputs = <<>>]_RecordedVars
  <2>. SUFFICES ASSUME FollowedInv, [RecordedNext]_RecordedVars,
                       NEW p \in Looks', p \in looked, p \notin Looks
                PROVE  func1.nodes[p[1]].inputs = <<>>
    OBVIOUS
  <2>1. [Next]_vars
    BY DEF RecordedNext, RecordedVars
  <2>2. Keeps
    BY <2>1, StepFollows DEF FollowedInv
  <2>3. p \in LooksOf(stack') \ LooksOf(stack)
    BY DEF Looks, LooksOf
  <2>4. ~ (p \in DOMAIN cache) /\ answer = "none" /\ result = <<>>
    BY <2>2, <2>3 DEF Keeps, Cached
  <2>5. result # <<FALSE>>
    BY <2>4
  <2>. QED  BY <2>4, <2>5 DEF FollowedInv, Settled, Looks
<1>. QED
  BY <1>1, FollowedInitInv, FollowedNextInv, PTL DEF RecordedSpec, FollowedOnce

=============================================================================
