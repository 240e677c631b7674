--------------------------- MODULE MCScfConformance ---------------------------
(***************************************************************************)
(* TLC instances of ScfConformance: families of function bodies.           *)
(***************************************************************************)
EXTENDS ScfConformance

MCValue == {"zero", "one", "two", "none", "i", "a", "b", "j", "c", "k", "d", "r", "s", "t", "u"}

MCMinInt == -4

MCFunctions == {"main"}

MCNoExternals == <<>>

Const(v, n) ==
    OpNode("const", [NewInstruction("Operation") EXCEPT !.result = v, !.outcomes = {n}], <<>>)

Use(name, operands) ==
    OpNode(name, [NewInstruction("Operation") EXCEPT !.targetUnit = "MTE", !.latency = 2],
           operands)

Loop(iv, lb, ub, args, inits) ==
    [iv |-> iv, lb |-> lb, ub |-> ub, step |-> "one",
     iterArgs |-> args, iterArgInits |-> inits]

When(condition, then) == IfNode(condition, then, <<>>, FALSE, <<>>, <<>>, <<>>)

Prelude == <<Const("zero", 0), Const("one", 1), Const("two", 2)>>

-----------------------------------------------------------------------------
(***************************************************************************)
(* What the flattening supports: loops in loops and in ifs, ifs in loops,  *)
(* one construct behind another, bounds and initial values from the loop   *)
(* around, yields that read no argument already assigned; an else part     *)
(* when it is taken, or is empty.                                          *)
(***************************************************************************)
Inner == {ForNode(Loop("j", lb, "two", <<"c">>, <<init>>),
                  <<Use("inner", <<"i", "j", "c">>), When("c", <<Use("nonzero", <<"c">>)>>)>>,
                  <<yield>>, <<>>) :
             lb \in {"zero", "i"}, init \in {"a", "i", "one"}, yield \in {"j", "i", "c"}}

OuterBodies ==
    {<<Use("outer", <<"i", "a", "b">>), inner>> : inner \in Inner}
        \cup {<<When("a", <<inner, Use("after", <<"b">>)>>), Use("outer", <<"i", "a">>)>> :
                 inner \in Inner}

SafeYields == {<<"i", "one">>, <<"one", "b">>, <<"b", "i">>, <<"a", "i">>}

Outer == {ForNode(Loop("i", "zero", "two", <<"a", "b">>, <<init, "two">>),
                  body, yield, <<>>) :
             init \in {"zero", "one"}, body \in OuterBodies, yield \in SafeYields}

Behind == ForNode(Loop("k", "one", "two", <<"d">>, <<"two">>),
                  <<Use("behind", <<"k", "d">>)>>, <<"k">>, <<>>)

Branches(condition, then, else) ==
    IfNode(condition, then, <<"one">>, TRUE, else, <<"two">>, <<"r">>)

MCSupported ==
    {Prelude \o <<outer, Behind>> : outer \in Outer}
        \cup {Prelude \o <<Branches("zero", <<Behind>>, <<Use("else", <<"one">>)>>), Behind>>,
              Prelude \o <<Branches("one", <<Use("then", <<"two">>)>>, <<>>), Behind>>,
              Prelude \o <<Branches("zero", <<>>, <<Behind>>), Use("end", <<"two">>)>>}

-----------------------------------------------------------------------------
(***************************************************************************)
(* The other uses of loops and ifs, side by side in one function, each     *)
(* with values of its own and an operation that shows what it comes to.    *)
(***************************************************************************)

\* Two arguments change places in each iteration; the loop has a result.
Swap == ForNode(Loop("i", "zero", "two", <<"a", "b">>, <<"one", "two">>),
                <<Use("swapped", <<"a", "b">>)>>, <<"b", "a">>, <<"r", "s">>)

LoopResult == Use("loop result", <<"r">>)

\* An if that yields, and what it yields is used.
Choice == IfNode("one", <<Use("then", <<"one">>)>>, <<"one">>,
                 TRUE, <<Use("else", <<"two">>)>>, <<"two">>, <<"t">>)

IfResult == Use("if result", <<"t">>)

\* An if inside a loop yields a value that is not the loop's.
IfInLoop == ForNode(Loop("j", "zero", "two", <<"c">>, <<"one">>),
                    <<IfNode("zero", <<>>, <<"one">>, TRUE, <<>>, <<"two">>, <<"u">>),
                      Use("argument", <<"j", "c">>)>>, <<"c">>, <<>>)

\* An inner loop starts from a value that the simulator never computes.
UnsetInit == ForNode(Loop("i", "zero", "two", <<>>, <<>>),
                     <<ForNode(Loop("k", "zero", "two", <<"d">>, <<"none">>),
                               <<Use("from unset", <<"k", "d">>)>>, <<"one">>, <<>>)>>,
                     <<>>, <<>>)

MCDocumented == {Prelude \o <<Swap, LoopResult, Choice, IfResult, IfInLoop, UnsetInit>>}

=============================================================================
