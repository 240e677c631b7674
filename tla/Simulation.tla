----------------------------- MODULE Simulation -----------------------------
(***************************************************************************)
(* How main.cpp drives the executor in --simulate mode: construct, load    *)
(* one module, choose the mode, tick until tick() returns false, report    *)
(* the cycle count.                                                        *)
(***************************************************************************)
EXTENDS IsaExecutor

(***************************************************************************)
(* What load() is given is what the builder leaves of a module.            *)
(***************************************************************************)
ASSUME ProgramsAreWellFormed == \A program \in Programs : WellFormed(program)

VARIABLE stage      \* how far main() is: constructed, loaded, running, completed

simVars == <<vars, stage>>

SimInit == Init /\ stage = "constructed"

LoadModule ==
    /\ stage = "constructed"
    /\ \E program \in Programs : Load(program)
    /\ stage' = "loaded"

\* setAsyncMode(!syncMode): asynchronous unless --sync was given.
ChooseMode ==
    /\ stage = "loaded"
    /\ \E syncMode \in BOOLEAN : SetAsyncMode(~ syncMode)
    /\ stage' = "running"

RunTick ==
    /\ stage = "running"
    /\ Tick
    /\ UNCHANGED stage

\* tick() returned false: "Simulation completed." and the total of cycles.
Complete ==
    /\ stage = "running"
    /\ halted
    /\ stage' = "completed"
    /\ UNCHANGED vars

SimNext == LoadModule \/ ChooseMode \/ RunTick \/ Complete

SimSafety == SimInit /\ [][SimNext]_simVars

(***************************************************************************)
(* main() is one thread in a loop: it never stops while it has a step.     *)
(***************************************************************************)
SimSpec == SimSafety /\ WF_simVars(SimNext)

-----------------------------------------------------------------------------
(***************************************************************************)
(* A running simulation of a well-formed program always finds an           *)
(* instruction at pc: branches, calls, returns and fall-through together   *)
(* never leave the program, and the "no instruction" halt of tick() is     *)
(* taken by nothing but a missing program.                                 *)
(***************************************************************************)
PcInProgram ==
    stage = "running" /\ ~ halted => HasInstruction(sequence, pc)

(***************************************************************************)
(* Every frame on the call stack was pushed by a call of this program: it  *)
(* returns to the instruction after an internal func.call.                 *)
(***************************************************************************)
FramesReturnAfterCalls ==
    \A i \in DOMAIN callStack :
        LET call == callStack[i].returnPC - 1 IN
        /\ HasInstruction(sequence, call)
        /\ GetInstructionByPC(sequence, call).isaName = "FuncCall"
        /\ ~ GetInstructionByPC(sequence, call).isExternal

-----------------------------------------------------------------------------
(***************************************************************************)
(* Claims of the documentation that the runs put to the code.              *)
(***************************************************************************)

(***************************************************************************)
(* docs/SimulatorUsage.md:203 calls the reported number the total time:    *)
(* no task is then still in flight when the simulation reports it.         *)
(***************************************************************************)
TotalCoversAllTasks ==
    stage = "completed" => \A task \in activeTasks : IsComplete(task, cycle)

(***************************************************************************)
(* docs/SimulatorUsage.md:43: in synchronous mode each instruction is      *)
(* waited for before the next one starts, so an operation costs at least   *)
(* its latency.                                                            *)
(***************************************************************************)
SyncWaitsForEach ==
    [][ /\ stage = "running" /\ ~ asyncMode /\ ~ halted
        /\ HasInstruction(sequence, pc)
        /\ Current.isaName = "Operation"
        /\ cycle' # cycle
        => cycle' >= cycle + Current.latency ]_simVars

=============================================================================
