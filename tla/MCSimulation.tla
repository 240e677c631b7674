---------------------------- MODULE MCSimulation ----------------------------
(***************************************************************************)
(* TLC instances of Simulation: main.cpp simulating one program.           *)
(***************************************************************************)
EXTENDS Simulation

P == INSTANCE MCPrograms

MCValue == {"zero", "n", "one", "x", "i", "acc"}

MCMinInt == -4

\* Programs that end: loops count up, calls reach a function that returns.
MCPrograms == {<<>>, P!Loop, P!Guarded, P!CallAndReturn} \cup P!StraightLine

=============================================================================
