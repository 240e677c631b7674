----------------------------- MODULE IsaExecutor -----------------------------
(***************************************************************************)
(* The executor of src/IsaExecutor.cpp with the context it drives: load(), *)
(* setAsyncMode() and tick(), which advances the clock, lets the units     *)
(* retire tasks, runs the instruction at pc and, in asynchronous mode,     *)
(* hands work for a unit other than Scalar to that unit.                   *)
(*                                                                         *)
(* One action per instruction kind that tick() can meet.  A tick is one    *)
(* atomic step: the program has one thread, and nothing observes the       *)
(* executor inside tick().                                                 *)
(***************************************************************************)
EXTENDS IsaSequence

CONSTANTS
    Programs,       \* the instruction sequences that load() may be given
    MaxCycle,       \* bound of the model: no tick starts at this cycle
    MaxDepth        \* bound of the model: no internal call at this depth

ASSUME ProgramsAssumption == Programs \subseteq Seq(Instruction)

ASSUME BoundsAssumption == MaxCycle \in Nat /\ MaxDepth \in Nat

VARIABLES
    sequence,           \* the loaded program
    pc, cycle,
    executionUnits,     \* the four units, by type
    activeTasks,        \* the vector of tasks in flight; its order is not used
    nextTaskId,
    asyncMode,
    blocked, blockingUnit,
    halted,             \* ctx.halted
    store,              \* ctx.intValues and ctx.floatValues
    callStack           \* ctx.callStack

unitVars == <<executionUnits, activeTasks, nextTaskId>>
modeVars == <<asyncMode, blockingUnit>>
ctxVars  == <<halted, store, callStack>>
vars == <<sequence, pc, cycle, unitVars, blocked, modeVars, ctxVars>>

CallFrame == [returnPC : Nat, savedValues : Store]

TypeOK ==
    /\ sequence \in Programs \cup {<<>>}
    /\ pc \in Nat
    /\ cycle \in Nat
    /\ executionUnits \in [ExecutionUnitType -> ExecutionUnit]
    /\ activeTasks \subseteq PendingTask
    /\ nextTaskId \in Nat
    /\ asyncMode \in BOOLEAN
    /\ blocked \in BOOLEAN
    /\ blockingUnit \in ExecutionUnitType
    /\ halted \in BOOLEAN
    /\ store \in Store
    /\ callStack \in Seq(CallFrame)

IdleUnits == [unit \in ExecutionUnitType |-> NewUnit]

Init ==
    /\ sequence = <<>>
    /\ pc = 0
    /\ cycle = 0
    /\ executionUnits = IdleUnits
    /\ activeTasks = {}
    /\ nextTaskId = 0
    /\ asyncMode = FALSE
    /\ blocked = FALSE
    /\ blockingUnit = "Scalar"
    /\ halted = FALSE
    /\ store = EmptyStore
    /\ callStack = <<>>

-----------------------------------------------------------------------------
\* Mutant of Load: the units keep their queues and clocks.
LoadKeepsUnits(program) ==
    /\ sequence' = program
    /\ pc' = 0
    /\ cycle' = 0
    /\ blocked' = FALSE
    /\ nextTaskId' = 0
    /\ activeTasks' = {}
    /\ UNCHANGED executionUnits
    /\ halted' = (program = <<>>)
    /\ UNCHANGED <<modeVars, store, callStack>>

(***************************************************************************)
(* load(): everything of the executor is reset, and of the context the     *)
(* halt flag only: values and call frames of an earlier program stay.      *)
(***************************************************************************)
Load(program) ==
    /\ sequence' = program
    /\ pc' = 0
    /\ cycle' = 0
    /\ blocked' = FALSE
    /\ nextTaskId' = 0
    /\ activeTasks' = {}
    /\ executionUnits' = IdleUnits
    /\ halted' = (program = <<>>)
    /\ UNCHANGED <<modeVars, store, callStack>>

SetAsyncMode(async) ==
    /\ asyncMode' = async
    /\ UNCHANGED <<sequence, pc, cycle, unitVars, blocked, blockingUnit, ctxVars>>

-----------------------------------------------------------------------------
(***************************************************************************)
(* updateExecutionUnits() at a given cycle: each unit pops what is         *)
(* complete at its front, and activeTasks drops what is complete.          *)
(***************************************************************************)
UnitsAt(time) ==
    [unit \in ExecutionUnitType |-> UpdateUnit(executionUnits[unit], time)]

\* Mutant of ActiveAt: a task is dropped a cycle before it is complete.
ActiveAtEarly(time) == {task \in activeTasks : ~ IsComplete(task, time + 1)}

ActiveAt(time) == {task \in activeTasks : ~ IsComplete(task, time)}

\* Mutant of Elapse: activeTasks is updated before the clock moves.
ElapseUpdatesFirst(n) ==
    /\ cycle' = cycle + n
    /\ executionUnits' = UnitsAt(cycle + n)
    /\ activeTasks' = ActiveAt(cycle)
    /\ UNCHANGED nextTaskId

(***************************************************************************)
(* cycle++ and updateExecutionUnits(), n times over.  Only the last of n   *)
(* updates shows: what is complete at one cycle is complete at the next.   *)
(***************************************************************************)
Elapse(n) ==
    /\ cycle' = cycle + n
    /\ executionUnits' = UnitsAt(cycle + n)
    /\ activeTasks' = ActiveAt(cycle + n)
    /\ UNCHANGED nextTaskId

Current == GetInstructionByPC(sequence, pc)

\* Mutant of NewTask: the task is booked on the PC that control goes to next.
TaskAtNextPC == [taskId     |-> nextTaskId,
                 startCycle |-> cycle + 1,
                 duration   |-> Current.latency,
                 unit       |-> Current.targetUnit,
                 pc         |-> pc + 1]

\* The task dispatchTask() makes in the tick that starts at this cycle.
NewTask == [taskId     |-> nextTaskId,
            startCycle |-> cycle + 1,
            duration   |-> Current.latency,
            unit       |-> Current.targetUnit,
            pc         |-> Current.pc]

\* Mutant of ElapseAndDispatch: the next task gets the same number.
DispatchReusesId ==
    /\ cycle' = cycle + 1
    /\ executionUnits' = [UnitsAt(cycle + 1) EXCEPT
                             ![Current.targetUnit] = DispatchTask(@, NewTask)]
    /\ activeTasks' = ActiveAt(cycle + 1) \cup {NewTask}
    /\ UNCHANGED nextTaskId

(***************************************************************************)
(* The tick up to and including dispatchTask() for the current instruction.*)
(***************************************************************************)
ElapseAndDispatch ==
    /\ cycle' = cycle + 1
    /\ executionUnits' = [UnitsAt(cycle + 1) EXCEPT
                             ![Current.targetUnit] = DispatchTask(@, NewTask)]
    /\ activeTasks' = ActiveAt(cycle + 1) \cup {NewTask}
    /\ nextTaskId' = nextTaskId + 1

RunsOnUnit == asyncMode /\ Current.targetUnit # "Scalar"

-----------------------------------------------------------------------------
\* tick() is waiting for the blocking unit.
Stalled ==
    /\ blocked
    /\ IsBusy(UpdateUnit(executionUnits[blockingUnit], cycle + 1), cycle + 1)

Ticking == ~ halted /\ cycle < MaxCycle

\* tick() reaches executeIsa() with an instruction of one of these names.
Executes(names) ==
    /\ Ticking
    /\ ~ Stalled
    /\ HasInstruction(sequence, pc)
    /\ Current.isaName \in names
    /\ blocked' = FALSE
    /\ UNCHANGED <<sequence, modeVars>>

(***************************************************************************)
(* The tick runs nothing: it waits for the blocking unit, or halts because *)
(* pc is not a PC of the program.  No line of the code sets blocked, so    *)
(* only the second ever happens.                                           *)
(***************************************************************************)
IdleTick ==
    /\ Ticking
    /\ IF Stalled
       THEN UNCHANGED <<blocked, halted>>
       ELSE /\ ~ HasInstruction(sequence, pc)
            /\ blocked' = FALSE
            /\ halted' = TRUE
    /\ Elapse(1)
    /\ UNCHANGED <<sequence, pc, modeVars, store, callStack>>

\* An operation or a yield: the effect is immediate, the latency is a task.
ExecuteOperation ==
    /\ Executes({"Operation", "YieldAssign", "IfYield"})
    /\ store' \in Execute(Current, store)
    /\ pc' = pc + 1
    /\ IF RunsOnUnit THEN ElapseAndDispatch ELSE Elapse(1)
    /\ UNCHANGED <<halted, callStack>>

ExecuteForStep ==
    /\ Executes({"ForInit", "ForIncrement"})
    /\ store' \in Execute(Current, store)
    /\ pc' = pc + 1
    /\ Elapse(1)
    /\ UNCHANGED <<halted, callStack>>

TakeJump ==
    /\ Executes({"Jump"})
    /\ pc' = Current.jumpTarget
    /\ Elapse(1)
    /\ UNCHANGED ctxVars

TakeBranch ==
    /\ Executes({"ConditionalJump", "ForCondition", "IfCondition"})
    /\ pc' = IF BranchTaken(Current, store)
             THEN Current.jumpTarget
             ELSE Current.fallthroughPC
    /\ Elapse(1)
    /\ UNCHANGED ctxVars

(***************************************************************************)
(* A call of a function without a body: a task for its unit, or the whole  *)
(* latency spent here and now.                                             *)
(***************************************************************************)
CallExternal ==
    /\ Executes({"FuncCall"})
    /\ Current.isExternal
    /\ pc' = pc + 1
    /\ IF RunsOnUnit
       THEN ElapseAndDispatch
       ELSE Elapse(IF Current.latency > 1 THEN Current.latency ELSE 1)
    /\ UNCHANGED ctxVars

\* Mutant of CallInternal: the frame returns to the call itself.
CallReturnsToItself ==
    /\ Executes({"FuncCall"})
    /\ ~ Current.isExternal
    /\ Len(callStack) < MaxDepth
    /\ callStack' = Append(callStack, [returnPC |-> pc, savedValues |-> store])
    /\ pc' = Current.jumpTarget
    /\ Elapse(1)
    /\ UNCHANGED <<halted, store>>

\* A call of a function with a body: a frame with all values, and a jump.
CallInternal ==
    /\ Executes({"FuncCall"})
    /\ ~ Current.isExternal
    /\ Len(callStack) < MaxDepth
    /\ callStack' = Append(callStack, [returnPC |-> pc + 1, savedValues |-> store])
    /\ pc' = Current.jumpTarget
    /\ Elapse(1)
    /\ UNCHANGED <<halted, store>>

\* Values and pc of the caller come back from the frame.
ReturnToCaller ==
    /\ Executes({"Return", "FuncReturn"})
    /\ callStack # <<>>
    /\ LET frame == callStack[Len(callStack)] IN
          /\ pc' = frame.returnPC
          /\ store' = frame.savedValues
    /\ callStack' = SubSeq(callStack, 1, Len(callStack) - 1)
    /\ Elapse(1)
    /\ UNCHANGED halted

\* Mutant of ReturnAndHalt: a return without a caller goes on.
ReturnFallsThrough ==
    /\ Executes({"Return", "FuncReturn"})
    /\ callStack = <<>>
    /\ pc' = pc + 1
    /\ Elapse(1)
    /\ UNCHANGED ctxVars

\* Without a caller the simulation stops, whatever is still in flight.
ReturnAndHalt ==
    /\ Executes({"Return", "FuncReturn"})
    /\ callStack = <<>>
    /\ halted' = TRUE
    /\ Elapse(1)
    /\ UNCHANGED <<pc, store, callStack>>

Tick ==
    \/ IdleTick
    \/ ExecuteOperation
    \/ ExecuteForStep
    \/ TakeJump
    \/ TakeBranch
    \/ CallExternal
    \/ CallInternal
    \/ ReturnToCaller
    \/ ReturnAndHalt

(***************************************************************************)
(* The public interface, called in any order.                              *)
(***************************************************************************)
Next ==
    \/ \E program \in Programs : Load(program)
    \/ \E async \in BOOLEAN : SetAsyncMode(async)
    \/ Tick

Spec == Init /\ [][Next]_vars

-----------------------------------------------------------------------------
(***************************************************************************)
(* Properties.                                                             *)
(***************************************************************************)
TasksOf(unit) ==
    {executionUnits[unit].pendingTasks[i] :
        i \in DOMAIN executionUnits[unit].pendingTasks}

(***************************************************************************)
(* The two books agree: a unit's queue and activeTasks hold the same       *)
(* unfinished tasks of that unit.  The queue pops from the front only and  *)
(* activeTasks drops from anywhere, so they could drift apart when tasks   *)
(* of one unit finish out of order.                                        *)
(***************************************************************************)
BooksAgree ==
    \A unit \in ExecutionUnitType :
        {task \in TasksOf(unit) : ~ IsComplete(task, cycle)}
            = {task \in activeTasks : task.unit = unit /\ ~ IsComplete(task, cycle)}

(***************************************************************************)
(* No task outlives its latency: what is in activeTasks is unfinished, or  *)
(* was dispatched with latency 0 in the tick just made.                    *)
(***************************************************************************)
RetiredOnTime ==
    \A task \in activeTasks :
        /\ task.startCycle <= cycle
        /\ ~ IsComplete(task, cycle) \/ task.startCycle = cycle

(***************************************************************************)
(* A unit's busy clock is the completion of the task it was given last,    *)
(* also after that task has left the queue: an empty queue means the unit  *)
(* is free.                                                                *)
(***************************************************************************)
BusyClockIsLastTask ==
    \A unit \in ExecutionUnitType :
        LET u == executionUnits[unit]
            n == Len(u.pendingTasks)
        IN  /\ n > 0 => u.busyUntilCycle = CompleteCycle(u.pendingTasks[n])
            /\ n = 0 => ~ IsBusy(u, cycle)

(***************************************************************************)
(* Task numbers are given in dispatch order and never twice: queues are    *)
(* sorted by number, hold tasks of their own unit only, and no number at   *)
(* or above nextTaskId is in use.                                          *)
(***************************************************************************)
TasksInOrder ==
    /\ \A unit \in ExecutionUnitType :
          LET queue == executionUnits[unit].pendingTasks IN
          /\ \A i \in DOMAIN queue :
                queue[i].unit = unit /\ queue[i].taskId < nextTaskId
          /\ \A i, j \in DOMAIN queue : i < j => queue[i].taskId < queue[j].taskId
    /\ \A task \in activeTasks : task.taskId < nextTaskId
    /\ \A s, t \in activeTasks : s.taskId = t.taskId => s = t

(***************************************************************************)
(* The dispatcher implements the timeline of its tasks.                    *)
(***************************************************************************)
Timeline ==
    INSTANCE TaskTimeline WITH
        Units       <- ExecutionUnitType,
        now         <- cycle,
        issued      <- nextTaskId,
        outstanding <- {[taskId   |-> task.taskId,
                         unit     |-> task.unit,
                         deadline |-> CompleteCycle(task)] : task \in activeTasks}

(***************************************************************************)
(* Refinement: a task is outstanding for exactly its latency, at most one  *)
(* is issued per tick, numbered in order, and load() forgets them all,     *)
(* however ticks, loads and mode switches follow one another.              *)
(***************************************************************************)
TimelineSpec == Timeline!Spec

=============================================================================
