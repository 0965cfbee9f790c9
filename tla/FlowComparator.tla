-------------------------- MODULE FlowComparator --------------------------
(***************************************************************************)
(* ProgramComparator::compareFunctionFlows: are two functions the same as  *)
(* data flows?  Block by block it pairs the sinks by their order, and      *)
(* compareVarNodes follows the inputs of two nodes in step.  A cache       *)
(* remembers pairs, but gets its entries before they are certain.          *)
(*                                                                         *)
(* The nodes of a function have names of any kind.  No node depends on     *)
(* itself: the data-flow analysis makes the inputs of a node before it     *)
(* (InputsOlder).                                                          *)
(***************************************************************************)
EXTENDS Naturals, Sequences

CONSTANTS
    Functions,   \* the functions there are, with the graphs of both analyses
    References   \* what relocations can refer to

(* The type of a node, and the rest of what a comparison reads of it: the  *)
(* opcode and the block of its instruction, its register or its value.     *)
(* Phi nodes and call returns are not looked into.                         *)
NodeTypes == {"sink", "return", "result", "input", "immediate",
              "reference", "phi", "callreturn"}
Unresolved == "unresolved"   \* a reference to no symbol

\* Among any nodes there is one that has none of them as an input.
Grounded(f) ==
    \A S \in (SUBSET DOMAIN f.nodes) \ {{}} :
        \E n \in S : \A i \in DOMAIN f.nodes[n].inputs : f.nodes[n].inputs[i] \notin S

IsGraph(f) ==
    /\ \A n \in DOMAIN f.nodes : f.nodes[n].inputs \in Seq(DOMAIN f.nodes)
    /\ Grounded(f)
    /\ f.sinks \in Seq(Seq(DOMAIN f.nodes))
    /\ f.succ \in Seq(Seq(DOMAIN f.sinks))
    /\ Len(f.sinks) = Len(f.succ)

IsFunction(f) ==
    /\ IsGraph(f)
    /\ \A n \in DOMAIN f.nodes :
          /\ f.nodes[n].type \in NodeTypes
          /\ f.nodes[n].type = "reference"
                => f.nodes[n].detail \in References \cup {Unresolved}

ASSUME FunctionsOK == \A f \in Functions : IsFunction(f)

VARIABLES
    func1, func2,  \* the two functions
    block, sink,   \* the block and the sink that are compared
    stack,         \* the recursion of compareVarNodes, innermost first
    cache,         \* VarNodeComparisonCache
    result,        \* what a call has returned; <<>> if the caller has it
    answer         \* of compareFunctionFlows, when it has returned

vars == <<func1, func2, block, sink, stack, cache, result, answer>>

Nodes1 == DOMAIN func1.nodes
Nodes2 == DOMAIN func2.nodes
Blocks1 == DOMAIN func1.sinks
Blocks2 == DOMAIN func2.sinks

\* A call: its two nodes, and the input it is at; 0 before the nodes
\* themselves have been compared.
Call(m, n) == [pair |-> <<m, n>>, next |-> 0]
Top == stack[1]
Node1 == func1.nodes[Top.pair[1]]
Node2 == func2.nodes[Top.pair[2]]

Init ==
    /\ func1 \in Functions /\ func2 \in Functions
    /\ block = 1 /\ sink = 1
    /\ stack = <<>>
    /\ cache = <<>>
    /\ result = <<>>
    /\ answer = "none"

-----------------------------------------------------------------------------
(* compareVarNodes.                                                        *)

Return(value) == stack' = Tail(stack) /\ result' = <<value>>

\* The entry for the two nodes of the innermost call.
Remember(value) ==
    cache' = [p \in DOMAIN cache \cup {Top.pair} |->
                IF p = Top.pair THEN value ELSE cache[p]]

ProceedSlip ==    \* (..Slip: with a mistake) the same input again
    stack' = stack /\ result' = <<>>

Proceed == stack' = [stack EXCEPT ![1].next = @ + 1] /\ result' = <<>>

\* compareRelocations cannot answer without both symbols.
Fails(m, n) ==
    m.type = "reference" /\ n.type = "reference"
        /\ Unresolved \in {m.detail, n.detail}

\* Do the nodes agree, their inputs aside?
Agree(m, n) ==
    /\ m.type = n.type
    /\ m.type \in {"phi", "callreturn"} \/ m.detail = n.detail

CachedSlip(p) == FALSE    \* nothing is looked up

\* Is the pair in the cache?
Cached(p) == p \in DOMAIN cache

Enter ==
    /\ stack # <<>> /\ result = <<>> /\ Top.next = 0
    /\ \/ Cached(Top.pair) /\ Return(cache[Top.pair])
       \/ /\ ~ Cached(Top.pair) /\ ~ Fails(Node1, Node2)
          /\ IF Agree(Node1, Node2) THEN Proceed ELSE Return(FALSE)
    /\ UNCHANGED <<func1, func2, block, sink, cache, answer>>

\* The assertions of compareRelocations.
Abort ==
    /\ stack # <<>> /\ result = <<>> /\ Top.next = 0
    /\ ~ Cached(Top.pair) /\ Fails(Node1, Node2)
    /\ answer' = "aborted" /\ stack' = <<>>
    /\ UNCHANGED <<func1, func2, block, sink, cache, result>>

CompareInput ==
    /\ stack # <<>> /\ result = <<>> /\ Top.next \in DOMAIN Node1.inputs
    /\ IF Top.next \in DOMAIN Node2.inputs
       THEN /\ stack' = <<Call(Node1.inputs[Top.next],
                               Node2.inputs[Top.next])>> \o stack
            /\ UNCHANGED result
       ELSE Return(FALSE)
    /\ UNCHANGED <<func1, func2, block, sink, cache, answer>>

InputComparedSlip ==    \* an input that differs does not end the comparison
    /\ stack # <<>> /\ result # <<>>
    /\ Remember(result[1])
    /\ Proceed
    /\ UNCHANGED <<func1, func2, block, sink, answer>>

\* The pair counts as equal as soon as one input does.
InputCompared ==
    /\ stack # <<>> /\ result # <<>>
    /\ Remember(result[1])
    /\ IF result[1] THEN Proceed ELSE Return(FALSE)
    /\ UNCHANGED <<func1, func2, block, sink, answer>>

EndInputs ==
    /\ stack # <<>> /\ result = <<>> /\ Top.next > Len(Node1.inputs)
    /\ Return(Len(Node2.inputs) <= Len(Node1.inputs))
    /\ UNCHANGED <<func1, func2, block, sink, cache, answer>>

-----------------------------------------------------------------------------
(* compareFunctionFlows.                                                   *)

AtBlocks == answer = "none" /\ stack = <<>> /\ result = <<>>

Differ == answer' = "different" /\ UNCHANGED <<block, sink, stack, cache, result>>

CompareSink ==
    /\ AtBlocks /\ block \in Blocks1 \cap Blocks2
    /\ sink \in DOMAIN func1.sinks[block]
    /\ IF sink \in DOMAIN func2.sinks[block]
       THEN /\ stack' = <<Call(func1.sinks[block][sink],
                               func2.sinks[block][sink])>>
            /\ UNCHANGED <<block, sink, cache, result, answer>>
       ELSE Differ
    /\ UNCHANGED <<func1, func2>>

\* A pair of sinks that differ is entered in the cache as equal.
SinkCompared ==
    /\ stack = <<>> /\ result # <<>> /\ answer = "none"
    /\ LET p == <<func1.sinks[block][sink], func2.sinks[block][sink]>>
       IN  IF result[1]
           THEN sink' = sink + 1 /\ UNCHANGED <<cache, answer>>
           ELSE /\ cache' = [q \in DOMAIN cache \cup {p} |->
                                IF q = p THEN TRUE ELSE cache[q]]
                /\ answer' = "different"
                /\ UNCHANGED sink
    /\ result' = <<>>
    /\ UNCHANGED <<func1, func2, block, stack>>

BlocksAgreeSlip ==    \* without counting the sinks
    func1.succ[block] = func2.succ[block]

\* The further sinks of the second function, and the successors of both.
BlocksAgree ==
    /\ Len(func2.sinks[block]) <= Len(func1.sinks[block])
    /\ func1.succ[block] = func2.succ[block]

EndBlockSlip ==    \* the next block's sinks counted from 0
    /\ AtBlocks /\ block \in Blocks1 \cap Blocks2
    /\ sink > Len(func1.sinks[block])
    /\ IF BlocksAgree
       THEN /\ block' = block + 1 /\ sink' = 0
            /\ UNCHANGED <<stack, cache, result, answer>>
       ELSE Differ
    /\ UNCHANGED <<func1, func2>>

EndBlock ==
    /\ AtBlocks /\ block \in Blocks1 \cap Blocks2
    /\ sink > Len(func1.sinks[block])
    /\ IF BlocksAgree
       THEN /\ block' = block + 1 /\ sink' = 1
            /\ UNCHANGED <<stack, cache, result, answer>>
       ELSE Differ
    /\ UNCHANGED <<func1, func2>>

EndFunction ==
    /\ AtBlocks /\ block \notin Blocks1 \cap Blocks2
    /\ IF block \in Blocks1 \cup Blocks2
       THEN Differ
       ELSE answer' = "equal" /\ UNCHANGED <<block, sink, stack, cache, result>>
    /\ UNCHANGED <<func1, func2>>

Finished == answer # "none" /\ UNCHANGED vars

Next ==
    \/ Enter \/ Abort \/ CompareInput \/ InputCompared \/ EndInputs
    \/ CompareSink \/ SinkCompared \/ EndBlock \/ EndFunction
    \/ Finished

Spec == Init /\ [][Next]_vars

-----------------------------------------------------------------------------
(* Properties.                                                             *)

\* The stack and the cache speak of nodes of the two functions.
ComparatorTypeOK ==
    /\ IsGraph(func1) /\ IsGraph(func2)
    /\ block \in 1..(Len(func1.sinks) + 1)
    /\ sink \in Nat \ {0}
    /\ stack \in Seq([pair : Nodes1 \X Nodes2, next : Nat])
    /\ DOMAIN cache \subseteq Nodes1 \X Nodes2
    /\ \A p \in DOMAIN cache : cache[p] \in BOOLEAN
    /\ result \in {<<>>, <<TRUE>>, <<FALSE>>}
    /\ answer \in {"none", "equal", "different", "aborted"}

(* What is to be computed, without a cache or an order: two nodes are the  *)
(* same when they agree and their inputs are the same.  A reference to no  *)
(* symbol is the same as no other if references have to be resolved.       *)
SameNode(f, g, resolved) ==
    LET same[p \in (DOMAIN f.nodes) \X (DOMAIN g.nodes)] ==
            LET m == f.nodes[p[1]]
                n == g.nodes[p[2]]
            IN  /\ Agree(m, n) /\ (resolved => ~ Fails(m, n))
                /\ Len(m.inputs) = Len(n.inputs)
                /\ \A i \in DOMAIN m.inputs : same[<<m.inputs[i], n.inputs[i]>>]
    IN  same

SameBlock(b, resolved) ==
    /\ Len(func1.sinks[b]) = Len(func2.sinks[b])
    /\ \A s \in DOMAIN func1.sinks[b] :
          SameNode(func1, func2, resolved)[<<func1.sinks[b][s], func2.sinks[b][s]>>]
    /\ func1.succ[b] = func2.succ[b]

SameFunction(resolved) == Blocks1 = Blocks2 /\ \A b \in Blocks1 : SameBlock(b, resolved)

\* The answer is "equal" for the same functions only, and "different" only
\* for functions that differ in more than what an unresolved reference refers
\* to, although the cache holds pairs that are not the same.
AnswerExact ==
    /\ answer = "equal" => SameFunction(TRUE)
    /\ answer = "different" => ~ SameFunction(FALSE)

\* A wrong entry is never read: whenever a call finds its pair in the cache,
\* the entry is what the comparison would find.
CacheTrusted ==
    stack # <<>> /\ result = <<>> /\ Top.next = 0 /\ Cached(Top.pair)
        => IF cache[Top.pair] THEN SameNode(func1, func2, TRUE)[Top.pair]
           ELSE ~ SameNode(func1, func2, FALSE)[Top.pair]

\* Every comparison comes to an answer.  One thread runs it and nothing makes
\* it wait: the fairness is that of the whole next-state relation.
ComparatorTermination == <>(answer # "none")

=============================================================================
