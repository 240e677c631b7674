---------------------------- MODULE MCIsaExecutor ----------------------------
(***************************************************************************)
(* TLC instances of IsaExecutor: any order of load, mode switch and tick.  *)
(***************************************************************************)
EXTENDS IsaExecutor

P == INSTANCE MCPrograms

MCValue == {"zero", "n", "one", "x", "i", "acc"}

MCMinInt == -4

\* A short task behind a long one on the same unit, and one that takes no time.
Overlap == P!Assemble(<<P!Op("MTE", 3), P!Op("MTE", 1), P!External("MTE", 0), P!Return>>)

MCPrograms == {<<>>, Overlap, P!Guarded, P!CallAndReturn, P!Recursion, P!Overflow}

=============================================================================
