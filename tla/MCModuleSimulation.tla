------------------------- MODULE MCModuleSimulation -------------------------
(***************************************************************************)
(* TLC instance of ModuleSimulation: all modules up to a size, simulated.  *)
(***************************************************************************)
EXTENDS ModuleSimulation

MCValue == {"i", "x", "n"}

MCMinInt == -2

MCExternalInfo == [e \in Externals |-> [unit |-> "Vec", latency |-> 3]]

\* A transfer, and an operation that makes a condition true.
MCOps == {[NewInstruction("Operation") EXCEPT !.targetUnit = "MTE", !.latency = 2],
          [NewInstruction("Operation") EXCEPT !.result = "n", !.outcomes = {1}]}

MCLoops == {[iv |-> "i", lb |-> "x", ub |-> "n", step |-> "n",
             iterArgs |-> <<"x">>, iterArgInits |-> <<"n">>]}

MCYieldOperands == {<<>>, <<"n">>}

=============================================================================
