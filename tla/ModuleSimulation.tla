-------------------------- MODULE ModuleSimulation --------------------------
(***************************************************************************)
(* From a module to its simulation: IsaExecutor::load() has the builder    *)
(* flatten the module, takes the program it leaves and is ticked by main() *)
(* until it halts.  The module is any that the builder can be given.       *)
(***************************************************************************)
EXTENDS IsaSequence

CONSTANTS
    Functions, Externals, ExternalInfo, Ops, Loops, Conditions, YieldOperands,
    MaxSize, MaxNesting, MaxCycle, MaxDepth

LoopHeader == [iv : Value, lb : Value, ub : Value, step : Value,
               iterArgs : Seq(Value), iterArgInits : Seq(Value)]

ASSUME FunctionsAssumption == Functions \cap Externals = {}

ASSUME InputsAssumption ==
    /\ ExternalInfo \in [Externals -> [unit : ExecutionUnitType, latency : Nat]]
    /\ Ops \subseteq {isa \in Instruction : isa.isaName = "Operation"}
    /\ Loops \subseteq {loop \in LoopHeader :
                            Len(loop.iterArgs) = Len(loop.iterArgInits)}
    /\ Conditions \subseteq Value
    /\ YieldOperands \subseteq Seq(Value)

ASSUME SizesAssumption ==
    /\ MaxSize \in Nat /\ MaxNesting \in Nat
    /\ MaxCycle \in Nat /\ MaxDepth \in Nat

VARIABLES
    built, nextPC, open, entries, calls, closed,        \* the builder
    sequence, pc, cycle, executionUnits, activeTasks,   \* the executor
    nextTaskId, asyncMode, blocked, blockingUnit,
    halted, store, callStack,                           \* its context
    stage                                               \* main()

Builder == INSTANCE IsaSequenceBuilder WITH sequence <- built

\* What the simulation is promised of the programs it is given.
WellFormedPrograms == {program \in Seq(Instruction) : WellFormed(program)}

Main == INSTANCE Simulation WITH Programs <- WellFormedPrograms

builderVars == <<built, nextPC, open, entries, calls, closed>>

mainVars == <<sequence, pc, cycle, executionUnits, activeTasks, nextTaskId,
              asyncMode, blocked, blockingUnit, halted, store, callStack, stage>>

ModuleInit == Builder!Init /\ Main!SimInit

\* load() is in buildFromMLIR, which meets the next operation.
Build ==
    /\ stage = "constructed"
    /\ Builder!Next
    /\ UNCHANGED mainVars

(***************************************************************************)
(* buildFromMLIR returns when it has flattened every function with a body: *)
(* the one it was in, and all that are called.  (Of a function that is not *)
(* in the module every call is external.)                                  *)
(***************************************************************************)
AllFlattened ==
    /\ open = <<>>
    /\ \A call \in calls : call.callee \in Functions =>
          \E entry \in entries : entry.function = call.callee

\* load() takes the program.
LoadBuilt ==
    /\ stage = "constructed" /\ AllFlattened
    /\ Main!Load(built)
    /\ stage' = "loaded"
    /\ UNCHANGED builderVars

Simulate ==
    /\ Main!ChooseMode \/ Main!RunTick \/ Main!Complete
    /\ UNCHANGED builderVars

ModuleNext == Build \/ LoadBuilt \/ Simulate

ModuleSpec == ModuleInit /\ [][ModuleNext]_<<builderVars, mainVars>>

-----------------------------------------------------------------------------
(***************************************************************************)
(* The simulation of whatever module was built always finds an instruction *)
(* at pc: the targets the builder patched and the fall-through it relies   *)
(* on are those the executor takes.                                        *)
(***************************************************************************)
PcInBuiltProgram == Main!PcInProgram

(***************************************************************************)
(* Each frame of a simulated module returns behind a call that the builder *)
(* emitted for a function of this module.                                  *)
(***************************************************************************)
FramesReturnAfterBuiltCalls ==
    \A i \in DOMAIN callStack :
        \E call \in calls : call.callee \in Functions /\ callStack[i].returnPC = call.pc + 1

(***************************************************************************)
(* Every task in flight is one the module asks for: the unit and latency   *)
(* of the operation or external at its PC, as the builder decoded it.      *)
(***************************************************************************)
TasksComeFromModule ==
    \A task \in activeTasks :
        LET isa == GetInstructionByPC(built, task.pc) IN
        /\ HasInstruction(built, task.pc)
        /\ task.unit = isa.targetUnit /\ task.duration = isa.latency
        /\ isa.isaName = "FuncCall" =>
              \E call \in calls :
                  /\ call.pc = task.pc /\ call.callee \in Externals
                  /\ ExternalInfo[call.callee] =
                        [unit |-> task.unit, latency |-> task.duration]

(***************************************************************************)
(* Between calls and returns the simulation goes forward through the       *)
(* program, but for the jump at the end of a loop of the module, which     *)
(* takes it to the condition of that loop.                                 *)
(***************************************************************************)
OnlyLoopsRunAgain ==
    [][ cycle' # cycle /\ ~ halted' /\ callStack' = callStack =>
          \/ pc < pc'
          \/ \E c \in closed : c.kind = "for" /\ pc = c.endPC - 1 /\ pc' = c.condPC
      ]_<<builderVars, mainVars>>

\* The call takes one cycle, its latency being left to a unit.
TakesOneCycle(call) ==
    /\ call.callee \in Externals
    /\ \/ ExternalInfo[call.callee].latency <= 1
       \/ asyncMode /\ ExternalInfo[call.callee].unit # "Scalar"

(***************************************************************************)
(* A module without loops, and whose calls all take one cycle, takes no    *)
(* more cycles than its program has instructions: no instruction runs      *)
(* twice, and the program is never left but by its return.                 *)
(***************************************************************************)
LoopFreeModulesEnd ==
    /\ \A c \in closed : c.kind # "for"
    /\ \A call \in calls : TakesOneCycle(call)
    => cycle <= Len(built)

-----------------------------------------------------------------------------
(***************************************************************************)
(* Claims of the documentation that the runs put to the code.              *)
(***************************************************************************)

(***************************************************************************)
(* README_SIMULATOR.md:70 lists the call stack as implemented: where each  *)
(* function calls only functions that come after it, no call is on the     *)
(* stack twice, so the stack is never deeper than the module has calls.    *)
(***************************************************************************)
StackHoldsCallsOnce ==
    (\A call \in calls, entry \in entries :
        entry.pc <= call.pc => entry.function # call.callee)
    => \A i, j \in DOMAIN callStack :
           callStack[i].returnPC = callStack[j].returnPC => i = j

=============================================================================
