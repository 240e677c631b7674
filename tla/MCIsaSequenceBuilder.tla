------------------------- MODULE MCIsaSequenceBuilder -------------------------
(***************************************************************************)
(* TLC instances of IsaSequenceBuilder: all modules up to a size.          *)
(***************************************************************************)
EXTENDS IsaSequenceBuilder

MCValue == {"i", "j", "x", "y", "n", "one"}

MCMinInt == -1

MCExternalInfo == [e \in Externals |-> [unit |-> "Vec", latency |-> 10]]

MCOps == {[NewInstruction("Operation") EXCEPT !.targetUnit = "MTE", !.latency = 3]}

\* A loop that carries a value and one that carries nothing.
MCLoops == {[iv |-> "i", lb |-> "x", ub |-> "n", step |-> "one",
             iterArgs |-> <<"x">>, iterArgInits |-> <<"n">>],
            [iv |-> "j", lb |-> "x", ub |-> "n", step |-> "i",
             iterArgs |-> <<>>, iterArgInits |-> <<>>]}

MCTwoLoops == {[iv |-> "i", lb |-> "x", ub |-> "n", step |-> "one",
                iterArgs |-> <<"x">>, iterArgInits |-> <<"n">>],
               [iv |-> "j", lb |-> "x", ub |-> "n", step |-> "i",
                iterArgs |-> <<"y">>, iterArgInits |-> <<"n">>]}

MCYieldOperands == {<<>>, <<"n">>}

=============================================================================
