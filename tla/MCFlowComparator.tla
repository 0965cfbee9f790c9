------------------------- MODULE MCFlowComparator -------------------------
(***************************************************************************)
(* Small functions: two values, an instruction on them, an instruction or  *)
(* a phi node on its result, and sinks for these in one or two blocks.     *)
(***************************************************************************)
EXTENDS FollowedPairs

N(type, detail, inputs) == [type |-> type, detail |-> detail, inputs |-> inputs]

Values == {N("callreturn", "r3", <<>>), N("immediate", "1", <<>>),
           N("reference", "a", <<>>), N("reference", Unresolved, <<>>)}

Function(value, in3, type, in4, sinks, succ) ==
    [nodes |-> <<N("input", "r3", <<>>), value, N("result", "add", in3),
                 N(type, "any", in4), N("sink", "stw", <<4, 3>>),
                 N("return", "blr", <<4>>)>>,
     sinks |-> sinks, succ |-> succ]

SomeFunctions ==
    {Function(v, in3, t, in4, g[1], g[2]) :
        v \in Values,
        in3 \in {<<1>>, <<1, 2>>},
        t \in {"result", "phi"},
        in4 \in {<<3, 3>>, <<2, 3>>, <<3, 2>>},
        g \in {<<<<<<5, 6>>>>, <<<<>>>>>>,
               <<<<<<5>>>>, <<<<>>>>>>,
               <<<<<<5>>, <<6>>>>, <<<<2>>, <<>>>>>>}}
=============================================================================
