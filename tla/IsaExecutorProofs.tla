-------------------------- MODULE IsaExecutorProofs --------------------------
(***************************************************************************)
(* Invariance proofs for IsaExecutor, for every set of programs and every  *)
(* bound.                                                                  *)
(***************************************************************************)
EXTENDS IsaExecutor, IsaSequenceProofs

-----------------------------------------------------------------------------
(***************************************************************************)
(* Executing an instruction leaves a store of the right shape.             *)
(***************************************************************************)
LEMMA NumberArithmetic ==
    /\ 0 \in Number
    /\ \A m, n \in Number : WrappedSum(m, n) \in Number
<1>1. 0 \in Number
  BY IntegersAssumption DEF Number
<1>2. ASSUME NEW m \in Number, NEW n \in Number
      PROVE  WrappedSum(m, n) \in Number
  <2> DEFINE w == MaxInt - MinInt + 1
             d == m + n - MinInt
  <2>1. w \in Nat /\ w > 0 /\ d \in Int
    BY IntegersAssumption DEF Number
  <2> HIDE DEF w, d
  <2>2. d % w \in 0 .. w - 1
    BY <2>1
  <2>3. MinInt + (d % w) \in MinInt .. MaxInt
    BY <2>2, <2>1, IntegersAssumption DEF w
  <2> QED BY <2>3 DEF WrappedSum, Number, d, w
<1> QED BY <1>1, <1>2

LEMMA IntValueType ==
    ASSUME NEW s \in Store, NEW v \in Value
    PROVE  IntValue(s, v) \in Number
BY NumberArithmetic DEF IntValue, HasValue, Store

LEMMA ExecuteType ==
    ASSUME NEW isa \in Instruction, NEW s \in Store, NEW after \in Execute(isa, s)
    PROVE  after \in Store
<1>0. /\ isa.forIV \in Value /\ isa.forLB \in Value /\ isa.forStep \in Value
      /\ isa.condition \in Value /\ isa.result \in Value
      /\ isa.outcomes \subseteq Number
      /\ isa.iterArgInits \in Seq(Value)
  BY DEF Instruction
<1>1. CASE isa.isaName = "Operation"
  <2>1. after \in OperationExecute(isa, s)
    BY <1>1 DEF Execute
  <2> QED BY <2>1, <1>0 DEF OperationExecute, Store
<1>2. CASE isa.isaName = "ForInit"
  <2>1. after = ForInitExecute(isa, s)
    BY <1>2 DEF Execute
  <2> DEFINE started == [s EXCEPT ![isa.forIV] = IntValue(s, isa.forLB)]
             Initial(arg) == {i \in DOMAIN isa.iterArgs \cap DOMAIN isa.iterArgInits :
                                 /\ isa.iterArgs[i] = arg
                                 /\ HasValue(started, isa.iterArgInits[i])}
  <2>2. started \in Store
    BY <1>0, IntValueType DEF Store
  <2>3. ASSUME NEW v \in Value, Initial(v) # {}
        PROVE  started[isa.iterArgInits[CHOOSE i \in Initial(v) : TRUE]]
                 \in Number \cup {Unset}
    <3>1. (CHOOSE i \in Initial(v) : TRUE) \in Initial(v)
      BY <2>3, Zenon
    <3>2. isa.iterArgInits[CHOOSE i \in Initial(v) : TRUE] \in Value
      BY <3>1, <1>0, ElementOfSeq, LenProperties
    <3> HIDE DEF started, Initial
    <3> QED BY <3>2, <2>2 DEF Store
  <2>4. ForInitExecute(isa, s)
          = [v \in Value |->
               IF Initial(v) = {} THEN started[v]
               ELSE started[isa.iterArgInits[CHOOSE i \in Initial(v) : TRUE]]]
    BY DEF ForInitExecute
  <2> HIDE DEF started, Initial
  <2>5. \A v \in Value : started[v] \in Number \cup {Unset}
    BY <2>2 DEF Store
  <2> QED BY <2>1, <2>3, <2>4, <2>5 DEF Store
<1>3. CASE isa.isaName = "ForIncrement"
  <2>1. after = ForIncrementExecute(isa, s)
    BY <1>3 DEF Execute
  <2>2. WrappedSum(IntValue(s, isa.forIV), IntValue(s, isa.forStep)) \in Number
    BY <1>0, IntValueType, NumberArithmetic
  <2> QED BY <2>1, <2>2, <1>0 DEF ForIncrementExecute, Store
<1>4. CASE isa.isaName = "YieldAssign"
  <2>1. after = YieldAssignExecute(isa, s)
    BY <1>4 DEF Execute
  <2> QED BY <2>1, <1>0 DEF YieldAssignExecute, Store
<1>5. CASE isa.isaName \notin {"Operation", "ForInit", "ForIncrement", "YieldAssign"}
  BY <1>5 DEF Execute
<1> QED BY <1>1, <1>2, <1>3, <1>4, <1>5

-----------------------------------------------------------------------------
(***************************************************************************)
(* Type correctness.                                                       *)
(***************************************************************************)
LEMMA CurrentType ==
    ASSUME TypeOK, HasInstruction(sequence, pc)
    PROVE  Current \in Instruction /\ Current.pc \in Nat
           /\ Current.latency \in Nat /\ Current.targetUnit \in ExecutionUnitType
<1>1. sequence \in Seq(Instruction) /\ pc \in Nat
  <2>1. sequence \in Programs \/ sequence = <<>>
    BY DEF TypeOK
  <2>2. CASE sequence = <<>>
    <3>1. <<>> \in Seq(Instruction)
      BY EmptySeq
    <3> QED BY <2>2, <3>1 DEF TypeOK
  <2>3. CASE sequence \in Programs
    <3>1. sequence \in Seq(Instruction)
      BY <2>3, ProgramsAssumption, Zenon
    <3> QED BY <3>1 DEF TypeOK
  <2> QED BY <2>1, <2>2, <2>3
<1>2. Current \in Instruction
  BY <1>1, PcToIndexInDomain DEF Current
<1> QED BY <1>2 DEF Instruction

LEMMA NewTaskType ==
    ASSUME TypeOK, HasInstruction(sequence, pc)
    PROVE  /\ NewTask \in PendingTask
           /\ NewTask.taskId = nextTaskId
           /\ NewTask.startCycle = cycle + 1
           /\ NewTask.unit = Current.targetUnit
BY CurrentType DEF NewTask, PendingTask, TypeOK

LEMMA UnitsAtType ==
    ASSUME TypeOK, NEW time \in Nat
    PROVE  /\ UnitsAt(time) \in [ExecutionUnitType -> ExecutionUnit]
           /\ \A unit \in ExecutionUnitType :
                UnitsAt(time)[unit] = UpdateUnit(executionUnits[unit], time)
BY UpdateUnitProperties DEF UnitsAt, TypeOK

LEMMA ElapseType ==
    ASSUME TypeOK, NEW n \in Nat, Elapse(n)
    PROVE  /\ cycle' \in Nat
           /\ executionUnits' \in [ExecutionUnitType -> ExecutionUnit]
           /\ activeTasks' \subseteq PendingTask
           /\ nextTaskId' \in Nat
<1>1. cycle + n \in Nat
  BY DEF TypeOK
<1> QED BY <1>1, UnitsAtType DEF Elapse, ActiveAt, TypeOK

LEMMA DispatchType ==
    ASSUME TypeOK, HasInstruction(sequence, pc), ElapseAndDispatch
    PROVE  /\ cycle' \in Nat
           /\ executionUnits' \in [ExecutionUnitType -> ExecutionUnit]
           /\ activeTasks' \subseteq PendingTask
           /\ nextTaskId' \in Nat
<1>1. cycle + 1 \in Nat
  BY DEF TypeOK
<1>2. UnitsAt(cycle + 1) \in [ExecutionUnitType -> ExecutionUnit]
  BY <1>1, UnitsAtType
<1>3. NewTask \in PendingTask /\ Current.targetUnit \in ExecutionUnitType
  BY NewTaskType, CurrentType
<1>4. DispatchTask(UnitsAt(cycle + 1)[Current.targetUnit], NewTask) \in ExecutionUnit
  BY <1>2, <1>3, DispatchTaskProperties
<1> QED BY <1>1, <1>2, <1>3, <1>4 DEF ElapseAndDispatch, ActiveAt, TypeOK

LEMMA IdleUnitsType ==
    IdleUnits \in [ExecutionUnitType -> ExecutionUnit]
<1>1. NewUnit \in ExecutionUnit
  BY DEF NewUnit, ExecutionUnit
<1> QED BY <1>1 DEF IdleUnits

(***************************************************************************)
(* What a step can do to the clock, the units and the tasks: nothing, all  *)
(* of it anew, some cycles, or one cycle and one new task.                 *)
(***************************************************************************)
UnitsUntouched == UNCHANGED <<cycle, unitVars>>

UnitsReset ==
    /\ cycle' = 0
    /\ executionUnits' = IdleUnits
    /\ activeTasks' = {}
    /\ nextTaskId' = 0

CyclesPass == \E n \in Nat \ {0} : Elapse(n)

TaskDispatched == HasInstruction(sequence, pc) /\ ElapseAndDispatch

LEMMA StepEffect ==
    ASSUME TypeOK, [Next]_vars
    PROVE  UnitsUntouched \/ UnitsReset \/ CyclesPass \/ TaskDispatched
<1> USE DEF UnitsUntouched, UnitsReset, CyclesPass, TaskDispatched
<1>0. 1 \in Nat \ {0}
  OBVIOUS
<1>1. CASE \E program \in Programs : Load(program)
  BY <1>1 DEF Load
<1>2. CASE \E async \in BOOLEAN : SetAsyncMode(async)
  BY <1>2 DEF SetAsyncMode
<1>3. CASE IdleTick
  BY <1>3, <1>0 DEF IdleTick
<1>4. CASE ExecuteOperation
  BY <1>4, <1>0 DEF ExecuteOperation, Executes
<1>5. CASE ExecuteForStep
  BY <1>5, <1>0 DEF ExecuteForStep
<1>6. CASE TakeJump
  BY <1>6, <1>0 DEF TakeJump
<1>7. CASE TakeBranch
  BY <1>7, <1>0 DEF TakeBranch
<1>8. CASE CallExternal
  <2>1. HasInstruction(sequence, pc)
    BY <1>8 DEF CallExternal, Executes
  <2>2. (IF Current.latency > 1 THEN Current.latency ELSE 1) \in Nat \ {0}
    BY <2>1, CurrentType
  <2> QED BY <1>8, <2>1, <2>2 DEF CallExternal
<1>9. CASE CallInternal
  BY <1>9, <1>0 DEF CallInternal
<1>10. CASE ReturnToCaller
  BY <1>10, <1>0 DEF ReturnToCaller
<1>11. CASE ReturnAndHalt
  BY <1>11, <1>0 DEF ReturnAndHalt
<1>12. CASE UNCHANGED vars
  BY <1>12 DEF vars, unitVars
<1> QED
  BY <1>1, <1>2, <1>3, <1>4, <1>5, <1>6, <1>7, <1>8, <1>9, <1>10, <1>11, <1>12
  DEF Next, Tick

LEMMA EffectType ==
    ASSUME TypeOK, [Next]_vars
    PROVE  /\ cycle' \in Nat
           /\ executionUnits' \in [ExecutionUnitType -> ExecutionUnit]
           /\ activeTasks' \subseteq PendingTask
           /\ nextTaskId' \in Nat
<1>1. CASE UnitsUntouched
  BY <1>1 DEF UnitsUntouched, unitVars, TypeOK
<1>2. CASE UnitsReset
  BY <1>2, IdleUnitsType DEF UnitsReset
<1>3. CASE CyclesPass
  BY <1>3, ElapseType DEF CyclesPass
<1>4. CASE TaskDispatched
  BY <1>4, DispatchType DEF TaskDispatched
<1> QED BY <1>1, <1>2, <1>3, <1>4, StepEffect

(***************************************************************************)
(* Frames on the call stack keep their type through a push and a pop.      *)
(***************************************************************************)
LEMMA CallStackType ==
    ASSUME TypeOK
    PROVE  /\ Append(callStack, [returnPC |-> pc + 1, savedValues |-> store])
                \in Seq(CallFrame)
           /\ callStack # <<>> =>
                /\ SubSeq(callStack, 1, Len(callStack) - 1) \in Seq(CallFrame)
                /\ callStack[Len(callStack)] \in CallFrame
<1>1. callStack \in Seq(CallFrame) /\ pc + 1 \in Nat /\ store \in Store
  BY DEF TypeOK
<1>2. [returnPC |-> pc + 1, savedValues |-> store] \in CallFrame
  BY <1>1 DEF CallFrame
<1>3. Len(callStack) \in Nat /\ \A i \in 1 .. Len(callStack) : callStack[i] \in CallFrame
  BY <1>1, LenProperties, ElementOfSeq
<1>4. callStack # <<>> => Len(callStack) > 0
  BY <1>1, EmptySeq, <1>3
<1>5. SubSeq(callStack, 1, Len(callStack) - 1) \in Seq(CallFrame)
  BY <1>3, SubSeqProperties
<1> QED BY <1>1, <1>2, <1>3, <1>4, <1>5, AppendProperties

LEMMA TypeOKStep == TypeOK /\ [Next]_vars => TypeOK'
<1> SUFFICES ASSUME TypeOK, [Next]_vars
             PROVE  TypeOK'
  OBVIOUS
<1> DEFINE Rest ==
      /\ sequence' \in Programs \cup {<<>>}
      /\ pc' \in Nat
      /\ asyncMode' \in BOOLEAN
      /\ blocked' \in BOOLEAN
      /\ blockingUnit' \in ExecutionUnitType
      /\ halted' \in BOOLEAN
      /\ store' \in Store
      /\ callStack' \in Seq(CallFrame)
<1>a. pc \in Nat /\ pc + 1 \in Nat /\ 0 \in Nat
  BY DEF TypeOK
<1>b. ASSUME HasInstruction(sequence, pc)
      PROVE  /\ Current.jumpTarget \in Nat
             /\ Current.fallthroughPC \in Nat
             /\ \A after \in Execute(Current, store) : after \in Store
  <2>1. Current \in Instruction /\ store \in Store
    BY <1>b, CurrentType DEF TypeOK
  <2> QED BY <2>1, ExecuteType DEF Instruction
<1>1. ASSUME NEW program \in Programs, Load(program)
      PROVE  Rest
  BY <1>1, <1>a DEF Load, TypeOK, modeVars
<1>2. ASSUME NEW async \in BOOLEAN, SetAsyncMode(async)
      PROVE  Rest
  BY <1>2 DEF SetAsyncMode, TypeOK, ctxVars
<1>3. ASSUME IdleTick
      PROVE  Rest
  BY <1>3 DEF IdleTick, TypeOK, modeVars
<1>4. ASSUME ExecuteOperation
      PROVE  Rest
  BY <1>4, <1>a, <1>b DEF ExecuteOperation, Executes, TypeOK, modeVars
<1>5. ASSUME ExecuteForStep
      PROVE  Rest
  BY <1>5, <1>a, <1>b DEF ExecuteForStep, Executes, TypeOK, modeVars
<1>6. ASSUME TakeJump
      PROVE  Rest
  BY <1>6, <1>b DEF TakeJump, Executes, TypeOK, modeVars, ctxVars
<1>7. ASSUME TakeBranch
      PROVE  Rest
  BY <1>7, <1>b DEF TakeBranch, Executes, TypeOK, modeVars, ctxVars
<1>8. ASSUME CallExternal
      PROVE  Rest
  BY <1>8, <1>a DEF CallExternal, Executes, TypeOK, modeVars, ctxVars
<1>9. ASSUME CallInternal
      PROVE  Rest
  BY <1>9, <1>b, CallStackType DEF CallInternal, Executes, TypeOK, modeVars
<1>10. ASSUME ReturnToCaller
      PROVE  Rest
  <2>1. callStack[Len(callStack)].returnPC \in Nat
        /\ callStack[Len(callStack)].savedValues \in Store
        /\ SubSeq(callStack, 1, Len(callStack) - 1) \in Seq(CallFrame)
    BY <1>10, CallStackType DEF ReturnToCaller, CallFrame
  <2> QED BY <1>10, <2>1 DEF ReturnToCaller, Executes, TypeOK, modeVars
<1>11. ASSUME ReturnAndHalt
      PROVE  Rest
  BY <1>11 DEF ReturnAndHalt, Executes, TypeOK, modeVars
<1>12. ASSUME UNCHANGED vars
      PROVE  Rest
  BY <1>12 DEF vars, TypeOK, modeVars, ctxVars
<1>13. Rest
  <2> HIDE DEF Rest
  <2> QED BY <1>1, <1>2, <1>3, <1>4, <1>5, <1>6, <1>7, <1>8, <1>9, <1>10, <1>11,
             <1>12 DEF Next, Tick
<1> QED BY <1>13, EffectType DEF TypeOK

LEMMA InitType == Init => TypeOK
<1>1. <<>> \in Seq(CallFrame)
  BY EmptySeq
<1>2. EmptyStore \in Store
  BY DEF EmptyStore, Store
<1>3. Init => /\ sequence \in Programs \cup {<<>>}
              /\ pc \in Nat /\ cycle \in Nat /\ nextTaskId \in Nat
              /\ activeTasks \subseteq PendingTask
              /\ callStack \in Seq(CallFrame)
  BY <1>1 DEF Init
<1>4. Init => /\ executionUnits \in [ExecutionUnitType -> ExecutionUnit]
              /\ store \in Store
  BY <1>2, IdleUnitsType DEF Init
<1>5. Init => /\ asyncMode \in BOOLEAN /\ blocked \in BOOLEAN /\ halted \in BOOLEAN
              /\ blockingUnit \in ExecutionUnitType
  BY DEF Init, ExecutionUnitType
<1> QED BY <1>3, <1>4, <1>5 DEF TypeOK

(***************************************************************************)
(* Every reachable state of the executor is well typed, whatever programs  *)
(* are loaded and in whatever order its interface is used.                 *)
(***************************************************************************)
THEOREM TypeCorrect == Spec => []TypeOK
BY InitType, TypeOKStep, PTL DEF Spec

-----------------------------------------------------------------------------
(***************************************************************************)
(* The effects on one unit's queue, in the terms the invariants use.       *)
(***************************************************************************)
Queue(unit) == executionUnits[unit].pendingTasks

LEMMA QueueType ==
    ASSUME TypeOK, NEW unit \in ExecutionUnitType
    PROVE  /\ executionUnits[unit] \in ExecutionUnit
           /\ Queue(unit) \in Seq(PendingTask)
           /\ Len(Queue(unit)) \in Nat
           /\ DOMAIN Queue(unit) = 1 .. Len(Queue(unit))
           /\ \A i \in DOMAIN Queue(unit) : Queue(unit)[i] \in PendingTask
<1>1. executionUnits[unit] \in ExecutionUnit
  BY DEF TypeOK
<1>2. Queue(unit) \in Seq(PendingTask)
  BY <1>1 DEF Queue, ExecutionUnit
<1> HIDE DEF Queue
<1> QED BY <1>1, <1>2, LenProperties, ElementOfSeq

(***************************************************************************)
(* When cycles pass, a queue loses a prefix of completed tasks.            *)
(***************************************************************************)
LEMMA QueueAfterElapse ==
    ASSUME TypeOK, NEW n \in Nat, Elapse(n), NEW unit \in ExecutionUnitType
    PROVE  /\ executionUnits'[unit] = UpdateUnit(executionUnits[unit], cycle')
           /\ executionUnits'[unit].busyUntilCycle = executionUnits[unit].busyUntilCycle
           /\ \E k \in 0 .. Len(Queue(unit)) :
                /\ Len(Queue(unit)') = Len(Queue(unit)) - k
                /\ DOMAIN Queue(unit)' = 1 .. Len(Queue(unit)) - k
                /\ \A i \in DOMAIN Queue(unit)' : Queue(unit)'[i] = Queue(unit)[k + i]
                /\ \A i \in 1 .. k : IsComplete(Queue(unit)[i], cycle')
<1>1. cycle' = cycle + n /\ cycle' \in Nat
  BY DEF Elapse, TypeOK
<1>2. executionUnits'[unit] = UpdateUnit(executionUnits[unit], cycle')
  BY <1>1, UnitsAtType DEF Elapse
<1>3. executionUnits[unit] \in ExecutionUnit
  BY QueueType
<1>4. /\ executionUnits'[unit] \in ExecutionUnit
      /\ executionUnits'[unit].busyUntilCycle = executionUnits[unit].busyUntilCycle
      /\ \E k \in 0 .. Len(Queue(unit)) :
           /\ Len(Queue(unit)') = Len(Queue(unit)) - k
           /\ \A i \in 1 .. Len(Queue(unit)) - k : Queue(unit)'[i] = Queue(unit)[k + i]
           /\ \A i \in 1 .. k : IsComplete(Queue(unit)[i], cycle')
  <2> DEFINE u == executionUnits[unit]
             after == UpdateUnit(u, cycle')
  <2>1. /\ after \in ExecutionUnit
        /\ after.busyUntilCycle = u.busyUntilCycle
        /\ \E k \in 0 .. Len(u.pendingTasks) :
             /\ Len(after.pendingTasks) = Len(u.pendingTasks) - k
             /\ \A i \in 1 .. Len(u.pendingTasks) - k :
                   after.pendingTasks[i] = u.pendingTasks[k + i]
             /\ \A i \in 1 .. k : IsComplete(u.pendingTasks[i], cycle')
    <3> HIDE DEF u
    <3>1. u \in ExecutionUnit
      BY <1>3 DEF u
    <3> QED BY <1>1, <3>1, UpdateUnitProperties
  <2>2. Queue(unit) = u.pendingTasks /\ Queue(unit)' = after.pendingTasks
    BY <1>2 DEF Queue
  <2> HIDE DEF u
  <2>3. executionUnits'[unit] = after /\ executionUnits[unit] = u
    BY <1>2 DEF u
  <2> HIDE DEF after
  <2> QED BY <2>1, <2>2, <2>3
<1>5. DOMAIN Queue(unit)' = 1 .. Len(Queue(unit)')
  <2>1. Queue(unit)' \in Seq(PendingTask)
    BY <1>4 DEF Queue, ExecutionUnit
  <2> QED BY <2>1, LenProperties
<1> QED BY <1>2, <1>4, <1>5

(***************************************************************************)
(* A dispatch is one cycle passing and then one task more on its unit.     *)
(***************************************************************************)
LEMMA QueueAfterDispatch ==
    ASSUME TypeOK, TaskDispatched, NEW unit \in ExecutionUnitType
    PROVE  LET after == UpdateUnit(executionUnits[unit], cycle') IN
           /\ after \in ExecutionUnit
           /\ NewTask \in PendingTask
           /\ executionUnits'[unit] = IF unit = NewTask.unit
                                     THEN DispatchTask(after, NewTask)
                                     ELSE after
<1>1. cycle' = cycle + 1 /\ cycle' \in Nat
  BY DEF TaskDispatched, ElapseAndDispatch, TypeOK
<1>2. UpdateUnit(executionUnits[unit], cycle') \in ExecutionUnit
  BY <1>1, QueueType, UpdateUnitProperties
<1>3. NewTask \in PendingTask /\ NewTask.unit = Current.targetUnit
  BY NewTaskType DEF TaskDispatched
<1>4. /\ UnitsAt(cycle') \in [ExecutionUnitType -> ExecutionUnit]
      /\ UnitsAt(cycle')[unit] = UpdateUnit(executionUnits[unit], cycle')
  BY <1>1, UnitsAtType
<1>5. executionUnits' = [UnitsAt(cycle') EXCEPT
                            ![NewTask.unit] = DispatchTask(@, NewTask)]
  BY <1>1, <1>3 DEF TaskDispatched, ElapseAndDispatch
<1> HIDE DEF NewTask
<1> QED BY <1>2, <1>3, <1>4, <1>5

-----------------------------------------------------------------------------
(***************************************************************************)
(* No task outlives its latency, for every program and every use of the    *)
(* interface.                                                              *)
(***************************************************************************)
LEMMA RetiredOnTimeStep ==
    TypeOK /\ RetiredOnTime /\ [Next]_vars => RetiredOnTime'
<1> SUFFICES ASSUME TypeOK, RetiredOnTime, [Next]_vars
             PROVE  RetiredOnTime'
  OBVIOUS
<1>0. cycle \in Nat /\ \A task \in activeTasks : task.startCycle \in Nat
  BY DEF TypeOK, PendingTask
<1>1. CASE UnitsUntouched
  BY <1>1 DEF UnitsUntouched, unitVars, RetiredOnTime
<1>2. CASE UnitsReset
  BY <1>2 DEF UnitsReset, RetiredOnTime
<1>3. CASE CyclesPass
  BY <1>0, <1>3 DEF CyclesPass, Elapse, ActiveAt, RetiredOnTime
<1>4. CASE TaskDispatched
  <2>1. NewTask.startCycle = cycle'
    BY <1>4, NewTaskType DEF TaskDispatched, ElapseAndDispatch
  <2>2. cycle' = cycle + 1 /\ activeTasks' = ActiveAt(cycle') \cup {NewTask}
    BY <1>4 DEF TaskDispatched, ElapseAndDispatch
  <2> HIDE DEF NewTask
  <2> QED BY <1>0, <2>1, <2>2 DEF ActiveAt, RetiredOnTime
<1> QED BY <1>1, <1>2, <1>3, <1>4, StepEffect

THEOREM TasksRetireOnTime == Spec => []RetiredOnTime
<1>1. Init => RetiredOnTime
  BY DEF Init, RetiredOnTime
<1> QED BY <1>1, RetiredOnTimeStep, TypeCorrect, PTL DEF Spec

-----------------------------------------------------------------------------
(***************************************************************************)
(* Task numbers: sorted queues and no number used twice.                   *)
(***************************************************************************)
QueueInOrder(unit) ==
    /\ \A i \in DOMAIN Queue(unit) :
          Queue(unit)[i].unit = unit /\ Queue(unit)[i].taskId < nextTaskId
    /\ \A i, j \in DOMAIN Queue(unit) :
          i < j => Queue(unit)[i].taskId < Queue(unit)[j].taskId

ActiveInOrder ==
    /\ \A task \in activeTasks : task.taskId < nextTaskId
    /\ \A s, t \in activeTasks : s.taskId = t.taskId => s = t

LEMMA TasksInOrderParts ==
    TasksInOrder <=> (\A unit \in ExecutionUnitType : QueueInOrder(unit)) /\ ActiveInOrder
BY DEF TasksInOrder, QueueInOrder, ActiveInOrder, Queue

LEMMA IdleQueues ==
    ASSUME NEW unit \in ExecutionUnitType
    PROVE  /\ executionUnits = IdleUnits => /\ Queue(unit) = <<>>
                                            /\ executionUnits[unit].busyUntilCycle = 0
           /\ executionUnits' = IdleUnits => /\ Queue(unit)' = <<>>
                                             /\ executionUnits'[unit].busyUntilCycle = 0
BY DEF IdleUnits, NewUnit, Queue

\* The first m tasks of q are of this unit, sorted, and numbered below bound.
Numbered(q, m, unit, bound) ==
    /\ m \in Nat
    /\ \A i \in 1 .. m : /\ q[i].unit = unit
                         /\ q[i].taskId \in Nat
                         /\ q[i].taskId < bound
    /\ \A i, j \in 1 .. m : i < j => q[i].taskId < q[j].taskId

\* q is p without its first k elements.
IsSuffix(q, p, k) == \A i \in 1 .. Len(p) - k : q[i] = p[k + i]

LEMMA SuffixNumbered ==
    ASSUME TypeOK, NEW unit \in ExecutionUnitType, QueueInOrder(unit),
           NEW k \in 0 .. Len(Queue(unit)), NEW q,
           IsSuffix(q, Queue(unit), k)
    PROVE  Numbered(q, Len(Queue(unit)) - k, unit, nextTaskId)
<1> DEFINE m == Len(Queue(unit)) - k
<1>1. /\ DOMAIN Queue(unit) = 1 .. Len(Queue(unit))
      /\ Len(Queue(unit)) \in Nat
      /\ \A i \in DOMAIN Queue(unit) : Queue(unit)[i].taskId \in Nat
  BY QueueType DEF PendingTask
<1> HIDE DEF Queue
<1>2. m \in Nat /\ \A i \in 1 .. m : k + i \in DOMAIN Queue(unit) /\ q[i] = Queue(unit)[k + i]
  BY <1>1 DEF IsSuffix
<1>3. \A i \in 1 .. m : /\ q[i].unit = unit
                        /\ q[i].taskId \in Nat
                        /\ q[i].taskId < nextTaskId
  BY <1>1, <1>2 DEF QueueInOrder
<1>4. ASSUME NEW i \in 1 .. m, NEW j \in 1 .. m, i < j
      PROVE  q[i].taskId < q[j].taskId
  <2>1. k + i \in DOMAIN Queue(unit) /\ k + j \in DOMAIN Queue(unit) /\ k + i < k + j
    BY <1>2, <1>4
  <2>2. Queue(unit)[k + i].taskId < Queue(unit)[k + j].taskId
    BY <2>1 DEF QueueInOrder
  <2> QED BY <1>2, <2>2
<1> QED BY <1>2, <1>3, <1>4 DEF Numbered

LEMMA QueueInOrderStep ==
    ASSUME TypeOK, [Next]_vars, NEW unit \in ExecutionUnitType, QueueInOrder(unit)
    PROVE  QueueInOrder(unit)'
<1>0. nextTaskId \in Nat
  BY DEF TypeOK
<1>1. CASE UnitsUntouched
  BY <1>1 DEF UnitsUntouched, unitVars, QueueInOrder, Queue
<1>2. CASE UnitsReset
  <2>1. Queue(unit)' = <<>>
    BY <1>2, IdleQueues DEF UnitsReset
  <2> QED BY <2>1 DEF QueueInOrder
<1>3. CASE CyclesPass
  <2>1. PICK n \in Nat \ {0} : Elapse(n)
    BY <1>3 DEF CyclesPass
  <2>2. PICK k \in 0 .. Len(Queue(unit)) :
           /\ DOMAIN Queue(unit)' = 1 .. Len(Queue(unit)) - k
           /\ \A i \in DOMAIN Queue(unit)' : Queue(unit)'[i] = Queue(unit)[k + i]
    BY <2>1, QueueAfterElapse
  <2>3. nextTaskId' = nextTaskId
    BY <2>1 DEF Elapse
  <2>4. IsSuffix(Queue(unit)', Queue(unit), k)
    BY <2>2 DEF IsSuffix
  <2> DEFINE after == Queue(unit)'
  <2> HIDE DEF after, Queue
  <2>5. Numbered(after, Len(Queue(unit)) - k, unit, nextTaskId)
    BY <2>4, SuffixNumbered DEF after
  <2>6. DOMAIN after = 1 .. Len(Queue(unit)) - k
    BY <2>2 DEF after
  <2>7. QueueInOrder(unit)' <=>
          /\ \A i \in DOMAIN after : after[i].unit = unit /\ after[i].taskId < nextTaskId'
          /\ \A i, j \in DOMAIN after : i < j => after[i].taskId < after[j].taskId
    BY DEF QueueInOrder, after
  <2> QED BY <2>3, <2>5, <2>6, <2>7 DEF Numbered
<1>4. CASE TaskDispatched
  <2> DEFINE u == executionUnits[unit]
             after == UpdateUnit(u, cycle')
             q == after.pendingTasks
  <2>1. /\ after \in ExecutionUnit /\ NewTask \in PendingTask
        /\ executionUnits'[unit] = IF unit = NewTask.unit
                                  THEN DispatchTask(after, NewTask) ELSE after
    BY <1>4, QueueAfterDispatch
  <2>2. /\ NewTask.taskId = nextTaskId /\ nextTaskId' = nextTaskId + 1
        /\ cycle' \in Nat
    BY <1>4, NewTaskType DEF TaskDispatched, ElapseAndDispatch, TypeOK
  <2>3. u \in ExecutionUnit /\ Queue(unit) = u.pendingTasks
    BY QueueType DEF Queue
  <2> HIDE DEF u, Queue, NewTask
  <2>4. PICK k \in 0 .. Len(Queue(unit)) :
           /\ Len(q) = Len(Queue(unit)) - k
           /\ \A i \in 1 .. Len(Queue(unit)) - k : q[i] = Queue(unit)[k + i]
    <3>1. \E k \in 0 .. Len(u.pendingTasks) :
             /\ Len(q) = Len(u.pendingTasks) - k
             /\ \A i \in 1 .. Len(u.pendingTasks) - k : q[i] = u.pendingTasks[k + i]
      BY <2>2, <2>3, UpdateUnitProperties
    <3> HIDE DEF q
    <3> QED BY <3>1, <2>3
  <2>5. q \in Seq(PendingTask) /\ DOMAIN q = 1 .. Len(q)
    BY <2>1, LenProperties DEF ExecutionUnit
  <2> HIDE DEF after
  <2> DEFINE m == Len(q)
  <2>6. Numbered(q, m, unit, nextTaskId)
    <3>1. IsSuffix(q, Queue(unit), k)
      BY <2>4 DEF IsSuffix
    <3> HIDE DEF q
    <3> QED BY <2>4, <3>1, SuffixNumbered
  <2>7. CASE unit # NewTask.unit
    <3>1. Queue(unit)' = q
      BY <2>1, <2>7 DEF Queue
    <3> HIDE DEF q
    <3> QED BY <1>0, <2>2, <2>5, <2>6, <3>1 DEF QueueInOrder, Numbered
  <2>8. CASE unit = NewTask.unit
    <3>1. /\ DOMAIN Queue(unit)' = 1 .. m + 1
          /\ Queue(unit)'[m + 1] = NewTask
          /\ \A i \in 1 .. m : Queue(unit)'[i] = q[i]
      <4>1. Queue(unit)' = DispatchTask(after, NewTask).pendingTasks
        BY <2>1, <2>8 DEF Queue
      <4> QED BY <2>1, <4>1, DispatchTaskProperties
    <3> HIDE DEF q, m
    <3>2. \A i \in 1 .. m + 1 : i \in 1 .. m \/ i = m + 1
      BY <2>6 DEF Numbered
    <3>3. \A i \in DOMAIN Queue(unit)' :
             Queue(unit)'[i].unit = unit /\ Queue(unit)'[i].taskId < nextTaskId'
      BY <1>0, <2>2, <2>6, <2>8, <3>1, <3>2 DEF Numbered
    <3>4. ASSUME NEW i \in 1 .. m + 1, NEW j \in 1 .. m + 1, i < j
          PROVE  Queue(unit)'[i].taskId < Queue(unit)'[j].taskId
      <4>1. i \in 1 .. m
        BY <2>6, <3>4 DEF Numbered
      <4>2. CASE j \in 1 .. m
        BY <2>6, <3>1, <3>4, <4>1, <4>2 DEF Numbered
      <4>3. CASE j = m + 1
        BY <2>2, <2>6, <3>1, <4>1, <4>3 DEF Numbered
      <4> QED BY <4>2, <4>3, <3>2
    <3> QED BY <3>1, <3>3, <3>4 DEF QueueInOrder
  <2> QED BY <2>7, <2>8
<1> QED BY <1>1, <1>2, <1>3, <1>4, StepEffect

LEMMA ActiveInOrderStep ==
    ASSUME TypeOK, [Next]_vars, ActiveInOrder
    PROVE  ActiveInOrder'
<1>0. nextTaskId \in Nat /\ \A task \in activeTasks : task.taskId \in Nat
  BY DEF TypeOK, PendingTask
<1>1. CASE UnitsUntouched
  BY <1>1 DEF UnitsUntouched, unitVars, ActiveInOrder
<1>2. CASE UnitsReset
  BY <1>2 DEF UnitsReset, ActiveInOrder
<1>3. CASE CyclesPass
  BY <1>3 DEF CyclesPass, Elapse, ActiveAt, ActiveInOrder
<1>4. CASE TaskDispatched
  <2>1. /\ NewTask.taskId = nextTaskId /\ nextTaskId' = nextTaskId + 1
        /\ activeTasks' \subseteq activeTasks \cup {NewTask}
    BY <1>4, NewTaskType DEF TaskDispatched, ElapseAndDispatch, ActiveAt
  <2> HIDE DEF NewTask
  <2> QED BY <1>0, <2>1 DEF ActiveInOrder
<1> QED BY <1>1, <1>2, <1>3, <1>4, StepEffect

(***************************************************************************)
(* Task numbers identify tasks and order every queue, for every program    *)
(* and every use of the interface.                                         *)
(***************************************************************************)
THEOREM TasksStayInOrder == Spec => []TasksInOrder
<1>1. Init => TasksInOrder
  <2>1. Init => /\ executionUnits = IdleUnits /\ activeTasks = {}
    BY DEF Init
  <2>2. Init => \A unit \in ExecutionUnitType : Queue(unit) = <<>>
    BY <2>1, IdleQueues
  <2> QED BY <2>1, <2>2, TasksInOrderParts DEF QueueInOrder, ActiveInOrder
<1>2. TypeOK /\ TasksInOrder /\ [Next]_vars => TasksInOrder'
  <2> SUFFICES ASSUME TypeOK, TasksInOrder, [Next]_vars
               PROVE  TasksInOrder'
    OBVIOUS
  <2>1. \A unit \in ExecutionUnitType : QueueInOrder(unit)'
    BY TasksInOrderParts, QueueInOrderStep
  <2>2. ActiveInOrder'
    BY TasksInOrderParts, ActiveInOrderStep
  <2> QED BY <2>1, <2>2 DEF TasksInOrder, QueueInOrder, ActiveInOrder, Queue
<1> QED BY <1>1, <1>2, TypeCorrect, PTL DEF Spec

-----------------------------------------------------------------------------
(***************************************************************************)
(* The busy clock of one unit.                                             *)
(***************************************************************************)
ClockIsLastTask(unit, time) ==
    LET n == Len(unit.pendingTasks) IN
    /\ n > 0 => unit.busyUntilCycle = CompleteCycle(unit.pendingTasks[n])
    /\ n = 0 => ~ IsBusy(unit, time)

LEMMA ClockAfterUpdate ==
    ASSUME NEW unit \in ExecutionUnit, NEW before \in Nat, NEW time \in Nat,
           before <= time, ClockIsLastTask(unit, before)
    PROVE  ClockIsLastTask(UpdateUnit(unit, time), time)
<1> DEFINE q == unit.pendingTasks
           n == Len(q)
           after == UpdateUnit(unit, time)
<1>1. /\ n \in Nat
      /\ unit.busyUntilCycle \in Nat
      /\ \A i \in 1 .. n : CompleteCycle(q[i]) \in Nat
  <2>1. q \in Seq(PendingTask) /\ unit.busyUntilCycle \in Nat
    BY DEF ExecutionUnit
  <2> HIDE DEF q
  <2>2. Len(q) \in Nat /\ \A i \in 1 .. Len(q) : q[i] \in PendingTask
    BY <2>1, LenProperties, ElementOfSeq
  <2>3. \A task \in PendingTask : CompleteCycle(task) \in Nat
    BY DEF PendingTask, CompleteCycle
  <2> QED BY <2>1, <2>2, <2>3
<1>2. PICK k \in 0 .. n :
        /\ Len(after.pendingTasks) = n - k
        /\ \A i \in 1 .. n - k : after.pendingTasks[i] = q[k + i]
        /\ \A i \in 1 .. k : IsComplete(q[i], time)
  BY UpdateUnitProperties
<1>3. after.busyUntilCycle = unit.busyUntilCycle
  BY UpdateUnitProperties
<1>4. /\ n > 0 => unit.busyUntilCycle = CompleteCycle(q[n])
      /\ n = 0 => ~ (before < unit.busyUntilCycle)
  BY DEF ClockIsLastTask, IsBusy
<1> HIDE DEF q, n, after
<1>5. CASE k < n
  <2>1. n - k \in 1 .. n - k /\ k + (n - k) = n /\ n > 0
    BY <1>1, <1>5
  <2>2. after.pendingTasks[n - k] = q[n]
    BY <1>2, <2>1
  <2>3. after.busyUntilCycle = CompleteCycle(after.pendingTasks[n - k])
    BY <1>3, <1>4, <2>1, <2>2
  <2> QED BY <1>1, <1>2, <1>5, <2>3 DEF ClockIsLastTask, after
<1>6. CASE k = n
  <2>1. n > 0 => CompleteCycle(q[n]) <= time
    BY <1>1, <1>2, <1>6 DEF IsComplete
  <2>2. ~ (time < after.busyUntilCycle)
    BY <1>1, <1>3, <1>4, <2>1
  <2>3. Len(after.pendingTasks) = 0
    BY <1>1, <1>2, <1>6
  <2> QED BY <2>2, <2>3 DEF ClockIsLastTask, IsBusy, after
<1> QED BY <1>1, <1>2, <1>5, <1>6

LEMMA BusyClockStep ==
    TypeOK /\ BusyClockIsLastTask /\ [Next]_vars => BusyClockIsLastTask'
<1> SUFFICES ASSUME TypeOK, BusyClockIsLastTask, [Next]_vars,
                    NEW unit \in ExecutionUnitType
             PROVE  ClockIsLastTask(executionUnits'[unit], cycle')
  BY DEF BusyClockIsLastTask, ClockIsLastTask
<1> DEFINE u == executionUnits[unit]
<1>0. u \in ExecutionUnit /\ cycle \in Nat /\ cycle' \in Nat /\ ClockIsLastTask(u, cycle)
  BY EffectType DEF TypeOK, BusyClockIsLastTask, ClockIsLastTask
<1>1. CASE UnitsUntouched
  BY <1>0, <1>1 DEF UnitsUntouched, unitVars
<1>2. CASE UnitsReset
  <2>1. executionUnits'[unit] = NewUnit /\ cycle' = 0
    BY <1>2 DEF UnitsReset, IdleUnits
  <2>2. Len(<<>>) = 0
    BY EmptySeq
  <2> QED BY <2>1, <2>2 DEF NewUnit, ClockIsLastTask, IsBusy
<1>3. CASE CyclesPass
  <2>1. PICK n \in Nat \ {0} : Elapse(n)
    BY <1>3 DEF CyclesPass
  <2>2. executionUnits'[unit] = UpdateUnit(u, cycle')
    BY <2>1, QueueAfterElapse
  <2>3. cycle <= cycle'
    BY <1>0, <2>1 DEF Elapse
  <2> HIDE DEF u
  <2> QED BY <1>0, <2>2, <2>3, ClockAfterUpdate
<1>4. CASE TaskDispatched
  <2> DEFINE after == UpdateUnit(u, cycle')
  <2>1. /\ after \in ExecutionUnit /\ NewTask \in PendingTask
        /\ executionUnits'[unit] = IF unit = NewTask.unit
                                  THEN DispatchTask(after, NewTask) ELSE after
    BY <1>4, QueueAfterDispatch
  <2>2. cycle <= cycle'
    BY <1>0, <1>4 DEF TaskDispatched, ElapseAndDispatch
  <2>3. ClockIsLastTask(after, cycle')
    <3> HIDE DEF u
    <3> QED BY <1>0, <2>2, ClockAfterUpdate
  <2> HIDE DEF after, NewTask
  <2>4. CASE unit = NewTask.unit
    <3>1. Len(after.pendingTasks) \in Nat
      BY <2>1, LenProperties DEF ExecutionUnit
    <3>2. ClockIsLastTask(DispatchTask(after, NewTask), cycle')
      BY <2>1, <3>1, DispatchTaskProperties DEF ClockIsLastTask
    <3> QED BY <2>1, <2>4, <3>2
  <2> QED BY <2>1, <2>3, <2>4
<1> QED BY <1>1, <1>2, <1>3, <1>4, StepEffect

(***************************************************************************)
(* The busy clock of every unit stays the completion of its last task, for *)
(* every program and every use of the interface.                           *)
(***************************************************************************)
THEOREM BusyClockTracksLastTask == Spec => []BusyClockIsLastTask
<1>1. Init => BusyClockIsLastTask
  <2>1. Len(<<>>) = 0
    BY EmptySeq
  <2> QED BY <2>1 DEF Init, BusyClockIsLastTask, IdleUnits, NewUnit, IsBusy
<1> QED BY <1>1, BusyClockStep, TypeCorrect, PTL DEF Spec

-----------------------------------------------------------------------------
(***************************************************************************)
(* The two books of one unit.                                              *)
(***************************************************************************)
Unfinished(tasks, time) == {task \in tasks : ~ IsComplete(task, time)}

LEMMA UnfinishedLater ==
    ASSUME NEW tasks, NEW before \in Nat, NEW time \in Nat, before <= time,
           tasks \subseteq PendingTask
    PROVE  Unfinished(tasks, time) = Unfinished(Unfinished(tasks, before), time)
BY DEF Unfinished, IsComplete, CompleteCycle, PendingTask

LEMMA TasksOfUpdated ==
    ASSUME TypeOK, NEW time \in Nat, NEW unit \in ExecutionUnitType
    PROVE  LET after == UpdateUnit(executionUnits[unit], time).pendingTasks IN
           Unfinished({after[i] : i \in DOMAIN after}, time)
             = Unfinished(TasksOf(unit), time)
BY QueueType, UpdateKeepsUnfinished DEF Unfinished, TasksOf

LEMMA BooksAgreeStep ==
    TypeOK /\ BooksAgree /\ [Next]_vars => BooksAgree'
<1> SUFFICES ASSUME TypeOK, BooksAgree, [Next]_vars,
                    NEW unit \in ExecutionUnitType
             PROVE  Unfinished(TasksOf(unit)', cycle')
                      = {task \in Unfinished(activeTasks', cycle') : task.unit = unit}
  BY DEF BooksAgree, Unfinished
<1>0. /\ cycle \in Nat /\ cycle' \in Nat
      /\ activeTasks \subseteq PendingTask /\ TasksOf(unit) \subseteq PendingTask
      /\ Unfinished(TasksOf(unit), cycle)
           = {task \in Unfinished(activeTasks, cycle) : task.unit = unit}
  BY EffectType, QueueType DEF TypeOK, BooksAgree, Unfinished, TasksOf, Queue
<1> DEFINE after == UpdateUnit(executionUnits[unit], cycle').pendingTasks
           kept == {after[i] : i \in DOMAIN after}
<1>a. ASSUME cycle <= cycle'
      PROVE  Unfinished(kept, cycle')
               = {task \in Unfinished(ActiveAt(cycle'), cycle') : task.unit = unit}
  <2>1. Unfinished(kept, cycle') = Unfinished(TasksOf(unit), cycle')
    BY <1>0, TasksOfUpdated
  <2>2. Unfinished(TasksOf(unit), cycle')
          = Unfinished(Unfinished(TasksOf(unit), cycle), cycle')
    BY <1>0, <1>a, UnfinishedLater, ZenonT(40)
  <2>3. Unfinished(activeTasks, cycle')
          = Unfinished(Unfinished(activeTasks, cycle), cycle')
    BY <1>0, <1>a, UnfinishedLater
  <2>4. Unfinished(ActiveAt(cycle'), cycle') = Unfinished(activeTasks, cycle')
    BY DEF ActiveAt, Unfinished
  <2>5. Unfinished({task \in Unfinished(activeTasks, cycle) : task.unit = unit}, cycle')
          = {task \in Unfinished(Unfinished(activeTasks, cycle), cycle') : task.unit = unit}
    BY DEF Unfinished
  <2> HIDE DEF kept
  <2> QED BY <1>0, <2>1, <2>2, <2>3, <2>4, <2>5
<1>1. CASE UnitsUntouched
  <2>1. TasksOf(unit)' = TasksOf(unit) /\ cycle' = cycle /\ activeTasks' = activeTasks
    BY <1>1 DEF UnitsUntouched, unitVars, TasksOf
  <2> QED BY <1>0, <2>1
<1>2. CASE UnitsReset
  <2>1. TasksOf(unit)' = {}
    BY <1>2, IdleQueues DEF UnitsReset, TasksOf, Queue
  <2>2. activeTasks' = {}
    BY <1>2 DEF UnitsReset
  <2> QED BY <2>1, <2>2 DEF Unfinished
<1>3. CASE CyclesPass
  <2>1. PICK n \in Nat \ {0} : Elapse(n)
    BY <1>3 DEF CyclesPass
  <2>2. cycle <= cycle' /\ activeTasks' = ActiveAt(cycle')
    BY <1>0, <2>1 DEF Elapse
  <2>3. TasksOf(unit)' = kept
    BY <2>1, QueueAfterElapse DEF TasksOf
  <2> HIDE DEF kept
  <2> QED BY <1>a, <2>2, <2>3
<1>4. CASE TaskDispatched
  <2>1. /\ UpdateUnit(executionUnits[unit], cycle') \in ExecutionUnit
        /\ NewTask \in PendingTask
        /\ executionUnits'[unit]
             = IF unit = NewTask.unit
               THEN DispatchTask(UpdateUnit(executionUnits[unit], cycle'), NewTask)
               ELSE UpdateUnit(executionUnits[unit], cycle')
    BY <1>4, QueueAfterDispatch
  <2>2. cycle <= cycle' /\ activeTasks' = ActiveAt(cycle') \cup {NewTask}
    BY <1>0, <1>4 DEF TaskDispatched, ElapseAndDispatch
  <2>3. DOMAIN after = 1 .. Len(after) /\ Len(after) \in Nat
    BY <2>1, LenProperties DEF ExecutionUnit
  <2> HIDE DEF NewTask
  <2>4. CASE unit # NewTask.unit
    <3>1. TasksOf(unit)' = kept
      BY <2>1, <2>4 DEF TasksOf
    <3>2. {task \in Unfinished(activeTasks', cycle') : task.unit = unit}
            = {task \in Unfinished(ActiveAt(cycle'), cycle') : task.unit = unit}
      BY <2>2, <2>4 DEF Unfinished
    <3> HIDE DEF kept
    <3> QED BY <1>a, <2>2, <3>1, <3>2
  <2>5. CASE unit = NewTask.unit
    <3> DEFINE dispatched == DispatchTask(UpdateUnit(executionUnits[unit], cycle'),
                                          NewTask).pendingTasks
    <3>1. /\ DOMAIN dispatched = 1 .. Len(after) + 1
          /\ dispatched[Len(after) + 1] = NewTask
          /\ \A i \in 1 .. Len(after) : dispatched[i] = after[i]
      BY <2>1, DispatchTaskProperties
    <3>2. TasksOf(unit)' = {dispatched[i] : i \in DOMAIN dispatched}
      BY <2>1, <2>5 DEF TasksOf
    <3> HIDE DEF dispatched, after
    <3>3. {dispatched[i] : i \in DOMAIN dispatched} = kept \cup {NewTask}
      <4>1. \A i \in DOMAIN dispatched : i \in 1 .. Len(after) \/ i = Len(after) + 1
        BY <2>3, <3>1
      <4>2. \A i \in 1 .. Len(after) : i \in DOMAIN dispatched
        BY <2>3, <3>1
      <4>3. Len(after) + 1 \in DOMAIN dispatched
        BY <2>3, <3>1
      <4> QED BY <2>3, <3>1, <4>1, <4>2, <4>3
    <3> HIDE DEF kept
    <3>4. Unfinished(kept \cup {NewTask}, cycle')
            = {task \in Unfinished(ActiveAt(cycle') \cup {NewTask}, cycle') :
                 task.unit = unit}
      BY <1>a, <2>2, <2>5 DEF Unfinished
    <3> QED BY <2>2, <3>2, <3>3, <3>4
  <2> QED BY <2>4, <2>5
<1> QED BY <1>1, <1>2, <1>3, <1>4, StepEffect

(***************************************************************************)
(* The queues and activeTasks never disagree about unfinished work, for    *)
(* every program and every use of the interface.                           *)
(***************************************************************************)
THEOREM BooksStayInAgreement == Spec => []BooksAgree
<1>1. Init => BooksAgree
  <2> SUFFICES ASSUME Init, NEW unit \in ExecutionUnitType
               PROVE  TasksOf(unit) = {} /\ activeTasks = {}
    BY DEF BooksAgree
  <2>1. Queue(unit) = <<>>
    BY IdleQueues DEF Init
  <2> QED BY <2>1 DEF Init, TasksOf, Queue
<1> QED BY <1>1, BooksAgreeStep, TypeCorrect, PTL DEF Spec

-----------------------------------------------------------------------------
(***************************************************************************)
(* The refinement of TaskTimeline: what it sees of a task.                 *)
(***************************************************************************)
Seen(task) == [taskId   |-> task.taskId,
               unit     |-> task.unit,
               deadline |-> CompleteCycle(task)]

Outstanding == {Seen(task) : task \in activeTasks}

LEMMA SeenType ==
    ASSUME NEW task \in PendingTask
    PROVE  /\ Seen(task) \in [taskId : Nat, unit : ExecutionUnitType, deadline : Nat]
           /\ Seen(task).taskId = task.taskId
           /\ Seen(task).deadline = task.startCycle + task.duration
           /\ Seen(task).deadline \in Nat
BY DEF Seen, CompleteCycle, PendingTask

\* What the timeline still sees at a later time is what activeTasks keeps.
LEMMA StillSeen ==
    ASSUME TypeOK, NEW time \in Nat
    PROVE  {Seen(task) : task \in ActiveAt(time)}
             = {seen \in Outstanding : time < seen.deadline}
<1>1. \A task \in activeTasks :
         ~ IsComplete(task, time) <=> time < Seen(task).deadline
  BY DEF TypeOK, PendingTask, IsComplete, CompleteCycle, Seen
<1> HIDE DEF Seen
<1> QED BY <1>1 DEF ActiveAt, Outstanding

LEMMA TimelineStep == TypeOK /\ [Next]_vars => [Timeline!Next]_(Timeline!vars)
<1> SUFFICES ASSUME TypeOK, [Next]_vars
             PROVE  [Timeline!Next]_(Timeline!vars)
  OBVIOUS
<1>1. CASE UnitsUntouched
  BY <1>1 DEF UnitsUntouched, unitVars, Timeline!vars
<1>2. CASE UnitsReset
  <2>1. Timeline!Restart
    BY <1>2 DEF UnitsReset, Timeline!Restart
  <2> QED BY <2>1 DEF Timeline!Next
<1>3. CASE CyclesPass
  <2>1. PICK n \in Nat \ {0} : Elapse(n)
    BY <1>3 DEF CyclesPass
  <2>2. cycle' \in Nat /\ cycle' > cycle /\ activeTasks' = ActiveAt(cycle')
        /\ nextTaskId' = nextTaskId
    BY <2>1 DEF Elapse, TypeOK
  <2>3. Outstanding' = {seen \in Outstanding : cycle' < seen.deadline}
    BY <2>2, StillSeen DEF Outstanding
  <2>4. Timeline!Elapse
    BY <2>2, <2>3 DEF Timeline!Elapse, Timeline!StillRunning, Outstanding, Seen
  <2> QED BY <2>4 DEF Timeline!Next
<1>4. CASE TaskDispatched
  <2>1. /\ cycle' = cycle + 1 /\ cycle' \in Nat
        /\ nextTaskId' = nextTaskId + 1
        /\ activeTasks' = ActiveAt(cycle') \cup {NewTask}
    BY <1>4 DEF TaskDispatched, ElapseAndDispatch, TypeOK
  <2>2. /\ NewTask \in PendingTask
        /\ NewTask.taskId = nextTaskId
        /\ NewTask.startCycle = cycle'
    BY <1>4, <2>1, NewTaskType DEF TaskDispatched
  <2>3. /\ Seen(NewTask) \in [taskId : Nat, unit : ExecutionUnitType, deadline : Nat]
        /\ Seen(NewTask).taskId = nextTaskId
        /\ Seen(NewTask).deadline >= cycle'
    <3> HIDE DEF NewTask
    <3>1. NewTask.duration \in Nat
      BY <2>2 DEF PendingTask
    <3> QED BY <2>1, <2>2, <3>1, SeenType
  <2> HIDE DEF NewTask
  <2>4. Outstanding' = {seen \in Outstanding : cycle' < seen.deadline} \cup {Seen(NewTask)}
    <3>1. Outstanding' = {Seen(task) : task \in ActiveAt(cycle')} \cup {Seen(NewTask)}
      <4> HIDE DEF Seen
      <4> QED BY <2>1 DEF Outstanding
    <3> QED BY <3>1, <2>1, StillSeen
  <2>5. Timeline!Issue
    BY <2>1, <2>3, <2>4
    DEF Timeline!Issue, Timeline!StillRunning, Timeline!Task, Outstanding, Seen
  <2> QED BY <2>5 DEF Timeline!Next
<1> QED BY <1>1, <1>2, <1>3, <1>4, StepEffect

(***************************************************************************)
(* The dispatcher implements the abstract timeline: every program, every   *)
(* latency and every use of the interface shows one of its behaviours.     *)
(***************************************************************************)
THEOREM DispatcherImplementsTimeline == Spec => TimelineSpec
<1>1. Init => Timeline!Init
  BY DEF Init, Timeline!Init
<1> QED BY <1>1, TimelineStep, TypeCorrect, PTL DEF Spec, TimelineSpec, Timeline!Spec

=============================================================================
