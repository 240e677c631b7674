--------------------------- MODULE SimulationProofs ---------------------------
(***************************************************************************)
(* A simulation never leaves the program it has loaded.                    *)
(***************************************************************************)
EXTENDS Simulation, IsaExecutorProofs

\* A frame returns right behind an internal call, inside the program.
FrameInProgram(frame) ==
    /\ frame.returnPC < Len(sequence)
    /\ HasInstruction(sequence, frame.returnPC - 1)
    /\ GetInstructionByPC(sequence, frame.returnPC - 1).isaName = "FuncCall"
    /\ ~ GetInstructionByPC(sequence, frame.returnPC - 1).isExternal

(***************************************************************************)
(* PcInProgram is not inductive by itself: a return takes its pc from a    *)
(* frame, and falling through is safe only because the program is well     *)
(* formed.                                                                 *)
(***************************************************************************)
Loaded ==
    IF stage = "constructed"
    THEN sequence = <<>> /\ callStack = <<>>
    ELSE sequence \in Programs

InProgram ==
    /\ stage # "constructed" /\ ~ halted => pc < Len(sequence)
    /\ \A i \in 1 .. Len(callStack) : FrameInProgram(callStack[i])

SimInv == TypeOK /\ Loaded /\ InProgram

-----------------------------------------------------------------------------
LEMMA LoadedProgram ==
    ASSUME TypeOK, sequence \in Programs
    PROVE  /\ sequence \in Seq(Instruction)
           /\ Len(sequence) \in Nat /\ DOMAIN sequence = 1 .. Len(sequence)
           /\ DensePCs(sequence) /\ JumpsInside(sequence) /\ EndsInTransfer(sequence)
<1>1. sequence \in Seq(Instruction)
  BY ProgramsAssumption, Zenon
<1>2. WellFormed(sequence)
  BY ProgramsAreWellFormed
<1> QED BY <1>1, <1>2, LenProperties DEF WellFormed

(***************************************************************************)
(* Where control can go from an instruction of a well-formed program.      *)
(***************************************************************************)
LEMMA CurrentInProgram ==
    ASSUME TypeOK, sequence \in Programs, HasInstruction(sequence, pc)
    PROVE  /\ pc \in Nat /\ pc < Len(sequence) /\ Len(sequence) \in Nat
           /\ Current = sequence[pc + 1]
           /\ Current.isaName = "Jump"
                \/ (Current.isaName = "FuncCall" /\ ~ Current.isExternal)
                => Current.jumpTarget < Len(sequence)
           /\ Current.isaName \in {"ConditionalJump", "ForCondition", "IfCondition"}
                => /\ Current.jumpTarget < Len(sequence)
                   /\ Current.fallthroughPC < Len(sequence)
           /\ Current.isaName \notin {"Jump", "ConditionalJump", "ForCondition",
                                      "IfCondition", "Return", "FuncReturn"}
                => pc + 1 < Len(sequence)
<1>0. pc \in Nat
  BY DEF TypeOK
<1>1. PICK i \in 1 .. Len(sequence) : sequence[i].pc = pc
  BY LoadedProgram DEF HasInstruction
<1>2. pc = i - 1 /\ pc + 1 = i /\ pc < Len(sequence)
  BY <1>0, <1>1, LoadedProgram DEF DensePCs
<1>3. Current = sequence[pc + 1]
  BY <1>0, <1>2, LoadedProgram, DenseLookup DEF Current, GetInstructionByPC
<1>4. pc + 1 \in DOMAIN sequence
  BY <1>1, <1>2, LoadedProgram
<1>5. /\ Current.isaName = "Jump"
           \/ (Current.isaName = "FuncCall" /\ ~ Current.isExternal)
           => Current.jumpTarget < Len(sequence)
      /\ Current.isaName \in {"ConditionalJump", "ForCondition", "IfCondition"}
           => /\ Current.jumpTarget < Len(sequence)
              /\ Current.fallthroughPC < Len(sequence)
  BY <1>3, <1>4, LoadedProgram DEF JumpsInside
<1>6. sequence # <<>>
  BY <1>1, LoadedProgram, EmptySeq
<1>7. ASSUME pc + 1 = Len(sequence)
      PROVE  Current.isaName \in {"Jump", "ConditionalJump", "ForCondition",
                                  "IfCondition", "Return", "FuncReturn"}
  BY <1>3, <1>6, <1>7, LoadedProgram DEF EndsInTransfer
<1> QED BY <1>0, <1>1, <1>2, <1>3, <1>5, <1>7, LoadedProgram

\* A tick of a loaded program stays inside it.
LEMMA TickStaysInProgram ==
    ASSUME SimInv, sequence \in Programs, Tick, stage' = stage, stage # "constructed"
    PROVE  InProgram' /\ sequence' = sequence
<1> USE DEF SimInv
<1> DEFINE Inside == ~ halted' => pc' < Len(sequence)
           SameFrames == UNCHANGED callStack
<1>0. HasInstruction(sequence, pc) => pc + 1 \in Nat
  BY DEF TypeOK
<1>1. CASE IdleTick
  <2>1. Inside /\ SameFrames /\ sequence' = sequence
    BY <1>1 DEF IdleTick, Ticking, InProgram
  <2> QED BY <2>1 DEF InProgram, FrameInProgram
<1>2. CASE ExecuteOperation
  <2>1. Inside /\ SameFrames /\ sequence' = sequence
    BY <1>2, CurrentInProgram DEF ExecuteOperation, Executes
  <2> QED BY <2>1 DEF InProgram, FrameInProgram
<1>3. CASE ExecuteForStep
  <2>1. Inside /\ SameFrames /\ sequence' = sequence
    BY <1>3, CurrentInProgram DEF ExecuteForStep, Executes
  <2> QED BY <2>1 DEF InProgram, FrameInProgram
<1>4. CASE TakeJump
  <2>1. Inside /\ SameFrames /\ sequence' = sequence
    BY <1>4, CurrentInProgram DEF TakeJump, Executes, ctxVars
  <2> QED BY <2>1 DEF InProgram, FrameInProgram
<1>5. CASE TakeBranch
  <2>1. Inside /\ SameFrames /\ sequence' = sequence
    BY <1>5, CurrentInProgram DEF TakeBranch, Executes, ctxVars
  <2> QED BY <2>1 DEF InProgram, FrameInProgram
<1>6. CASE CallExternal
  <2>1. Inside /\ SameFrames /\ sequence' = sequence
    BY <1>6, CurrentInProgram DEF CallExternal, Executes, ctxVars
  <2> QED BY <2>1 DEF InProgram, FrameInProgram
<1>7. CASE CallInternal
  <2> DEFINE frame == [returnPC |-> pc + 1, savedValues |-> store]
  <2>1. /\ HasInstruction(sequence, pc) /\ Current.isaName = "FuncCall"
        /\ ~ Current.isExternal /\ sequence' = sequence
        /\ pc' = Current.jumpTarget
        /\ callStack' = Append(callStack, frame)
    BY <1>7 DEF CallInternal, Executes
  <2>2. pc' < Len(sequence) /\ pc + 1 < Len(sequence) /\ pc \in Nat
    BY <2>1, CurrentInProgram
  <2>3. frame.returnPC = pc + 1 /\ pc + 1 - 1 = pc
    BY <2>2
  <2>4. FrameInProgram(frame)
    <3> HIDE DEF frame
    <3> QED BY <2>1, <2>2, <2>3 DEF FrameInProgram, Current
  <2> HIDE DEF frame
  <2>5. /\ Len(callStack) \in Nat
        /\ Len(callStack') = Len(callStack) + 1
        /\ \A i \in 1 .. Len(callStack) : callStack'[i] = callStack[i]
        /\ callStack'[Len(callStack) + 1] = frame
    BY <2>1, LenProperties, AppendProperties DEF TypeOK
  <2>6. ASSUME NEW i \in 1 .. Len(callStack')
        PROVE  FrameInProgram(callStack'[i])
    <3>1. i \in 1 .. Len(callStack) \/ i = Len(callStack) + 1
      BY <2>5
    <3> QED BY <3>1, <2>4, <2>5 DEF InProgram
  <2> QED BY <2>1, <2>2, <2>6 DEF InProgram, FrameInProgram
<1>8. CASE ReturnToCaller
  <2> DEFINE n == Len(callStack)
  <2>1. /\ callStack # <<>> /\ sequence' = sequence
        /\ pc' = callStack[n].returnPC
        /\ callStack' = SubSeq(callStack, 1, n - 1)
    BY <1>8 DEF ReturnToCaller, Executes
  <2>2. n \in Nat \ {0} /\ \A i \in 1 .. n : callStack[i] \in CallFrame
    BY <2>1, EmptySeq, ElementOfSeq DEF TypeOK
  <2>3. pc' < Len(sequence)
    BY <2>1, <2>2 DEF InProgram, FrameInProgram
  <2> DEFINE m == n - 1
  <2>4. m \in Nat /\ \A i \in 1 .. m : callStack[i] \in CallFrame
    BY <2>2
  <2>5. callStack' = SubSeq(callStack, 1, m)
    BY <2>1
  <2>6. \A i \in 1 .. m : FrameInProgram(callStack[i])
    BY <2>2 DEF InProgram
  <2> HIDE DEF n, m
  <2>7. /\ Len(callStack') = m
        /\ \A i \in 1 .. m : callStack'[i] = callStack[i]
    <3>1. /\ Len(SubSeq(callStack, 1, m)) = IF 1 <= m THEN m - 1 + 1 ELSE 0
          /\ \A i \in 1 .. m - 1 + 1 : SubSeq(callStack, 1, m)[i] = callStack[1 + i - 1]
      BY <2>4, SubSeqProperties
    <3> QED BY <2>4, <2>5, <3>1
  <2>8. \A i \in 1 .. Len(callStack') : FrameInProgram(callStack'[i])
    BY <2>6, <2>7
  <2> QED BY <2>1, <2>3, <2>8 DEF InProgram, FrameInProgram
<1>9. CASE ReturnAndHalt
  <2>1. Inside /\ SameFrames /\ sequence' = sequence
    BY <1>9 DEF ReturnAndHalt, Executes
  <2> QED BY <2>1 DEF InProgram, FrameInProgram
<1> QED BY <1>1, <1>2, <1>3, <1>4, <1>5, <1>6, <1>7, <1>8, <1>9 DEF Tick

LEMMA SimInvStep == SimInv /\ [SimNext]_simVars => SimInv'
<1> SUFFICES ASSUME SimInv, [SimNext]_simVars
             PROVE  SimInv'
  OBVIOUS
<1>1. CASE LoadModule
  <2>1. PICK program \in Programs : Load(program)
    BY <1>1 DEF LoadModule
  <2>2. stage = "constructed" /\ stage' = "loaded"
    BY <1>1 DEF LoadModule
  <2>3. TypeOK'
    BY <2>1, TypeOKStep DEF Next, SimInv
  <2>4. Loaded'
    BY <2>1, <2>2 DEF Load, Loaded
  <2>5. program \in Seq(Instruction)
    BY ProgramsAssumption, Zenon
  <2>6. program # <<>> => 0 < Len(program)
    BY <2>5, EmptySeq
  <2>7. callStack' = <<>>
    BY <2>1, <2>2 DEF Load, Loaded, SimInv
  <2>8. Len(<<>>) = 0
    BY EmptySeq
  <2>9. (~ halted => pc < Len(sequence))'
    <3>1. halted' = (program = <<>>) /\ pc' = 0 /\ sequence' = program
      BY <2>1 DEF Load
    <3> QED BY <2>6, <3>1
  <2>10. (\A i \in 1 .. Len(callStack) : FrameInProgram(callStack[i]))'
    <3>1. 1 .. Len(callStack') = {}
      BY <2>7, <2>8
    <3> QED BY <3>1 DEF FrameInProgram
  <2>11. InProgram'
    BY <2>9, <2>10 DEF InProgram
  <2> QED BY <2>3, <2>4, <2>11 DEF SimInv
<1>2. CASE ChooseMode
  <2>1. PICK syncMode \in BOOLEAN : SetAsyncMode(~ syncMode)
    BY <1>2 DEF ChooseMode
  <2>2. stage = "loaded" /\ stage' = "running"
    BY <1>2 DEF ChooseMode
  <2>3. (~ syncMode) \in BOOLEAN
    OBVIOUS
  <2>4. TypeOK'
    BY <2>1, <2>3, TypeOKStep DEF Next, SimInv
  <2> QED BY <2>1, <2>2, <2>4
    DEF SetAsyncMode, ctxVars, SimInv, Loaded, InProgram, FrameInProgram
<1>3. CASE RunTick
  <2>1. Tick /\ stage = "running" /\ stage' = "running"
    BY <1>3 DEF RunTick
  <2>2. sequence \in Programs
    BY <2>1 DEF SimInv, Loaded
  <2>3. TypeOK'
    BY <2>1, TypeOKStep DEF Next, SimInv
  <2>4. InProgram' /\ sequence' = sequence
    BY <2>1, <2>2, TickStaysInProgram
  <2> QED BY <2>1, <2>2, <2>3, <2>4 DEF SimInv, Loaded
<1>4. CASE Complete
  <2>1. UNCHANGED vars /\ stage = "running" /\ stage' = "completed"
    BY <1>4 DEF Complete
  <2>2. TypeOK'
    BY <2>1, TypeOKStep DEF SimInv
  <2> QED BY <2>1, <2>2 DEF vars, ctxVars, SimInv, Loaded, InProgram, FrameInProgram
<1>5. CASE UNCHANGED simVars
  <2>1. UNCHANGED vars /\ stage' = stage
    BY <1>5 DEF simVars
  <2>2. TypeOK'
    BY <2>1, TypeOKStep DEF SimInv
  <2> QED BY <2>1, <2>2 DEF vars, ctxVars, SimInv, Loaded, InProgram, FrameInProgram
<1> QED BY <1>1, <1>2, <1>3, <1>4, <1>5 DEF SimNext

LEMMA SimInvariant == SimSafety => []SimInv
<1>1. SimInit => SimInv
  <2> SUFFICES ASSUME SimInit
               PROVE  SimInv
    OBVIOUS
  <2>1. Init /\ stage = "constructed"
    BY DEF SimInit
  <2>2. TypeOK
    BY <2>1, InitType
  <2>3. Len(<<>>) = 0
    BY EmptySeq
  <2> QED BY <2>1, <2>2, <2>3 DEF Init, SimInv, Loaded, InProgram
<1> QED BY <1>1, SimInvStep, PTL DEF SimSafety

-----------------------------------------------------------------------------
(***************************************************************************)
(* Without its fairness: a running simulation finds an instruction at pc.  *)
(***************************************************************************)
LEMMA PcSafety == SimSafety => []PcInProgram
<1>1. SimInv => PcInProgram
  <2> SUFFICES ASSUME SimInv, stage = "running", ~ halted
               PROVE  HasInstruction(sequence, pc)
    BY DEF PcInProgram
  <2>1. sequence \in Programs /\ pc < Len(sequence) /\ pc \in Nat
    BY DEF SimInv, Loaded, InProgram, TypeOK
  <2> QED BY <2>1, LoadedProgram, DenseLookup DEF SimInv
<1> QED BY <1>1, SimInvariant, PTL

(***************************************************************************)
(* Without its fairness: every frame returns right behind an internal call.*)
(***************************************************************************)
LEMMA FramesSafety == SimSafety => []FramesReturnAfterCalls
<1>1. SimInv => FramesReturnAfterCalls
  <2> SUFFICES ASSUME SimInv
               PROVE  FramesReturnAfterCalls
    OBVIOUS
  <2>1. DOMAIN callStack = 1 .. Len(callStack)
    BY LenProperties DEF SimInv, TypeOK
  <2> QED BY <2>1 DEF SimInv, InProgram, FrameInProgram, FramesReturnAfterCalls
<1> QED BY <1>1, SimInvariant, PTL

(***************************************************************************)
(* Nothing blocks the executor, and time begins with the first tick.       *)
(***************************************************************************)
Unblocked == ~ blocked /\ (stage \in {"constructed", "loaded"} => cycle = 0)

Transfers == {"Jump", "ConditionalJump", "ForCondition", "IfCondition",
              "Return", "FuncReturn"}

\* The instruction at pc takes control to where its kind says.
Moves ==
    \/ Current.isaName \notin Transfers /\ pc' = pc + 1
    \/ Current.isaName = "Jump" /\ pc' = Current.jumpTarget
    \/ /\ Current.isaName \in {"ConditionalJump", "ForCondition", "IfCondition"}
       /\ pc' \in {Current.jumpTarget, Current.fallthroughPC}

\* The instruction at pc is a call whose latency the tick waits for.
WaitsForCall ==
    /\ Current.isaName = "FuncCall" /\ Current.isExternal
    /\ ~ RunsOnUnit /\ Current.latency > 1

\* The instruction at pc is a call of a function of the program.
CallsInternal == Current.isaName = "FuncCall" /\ ~ Current.isExternal

\* What a tick does to pc, call stack and clock.
LEMMA TickMoves ==
    ASSUME TypeOK, ~ blocked, Tick
    PROVE  /\ ~ blocked' /\ asyncMode' = asyncMode
           /\ \/ halted' /\ cycle' = cycle + 1
              \/ /\ HasInstruction(sequence, pc) /\ callStack' = callStack
                 /\ Moves /\ (cycle' = cycle + 1 \/ WaitsForCall)
              \/ /\ HasInstruction(sequence, pc) /\ callStack' # callStack
                 /\ CallsInternal
              \/ callStack' # callStack /\ callStack # <<>>
<1>0. ~ Stalled
  BY DEF Stalled
<1>1. CASE IdleTick
  BY <1>0, <1>1 DEF IdleTick, Elapse, modeVars
<1>2. CASE ExecuteOperation \/ ExecuteForStep \/ TakeJump \/ TakeBranch
  <2>1. ~ blocked' /\ asyncMode' = asyncMode /\ HasInstruction(sequence, pc)
    BY <1>2 DEF ExecuteOperation, ExecuteForStep, TakeJump, TakeBranch, Executes, modeVars
  <2>2. callStack' = callStack /\ cycle' = cycle + 1
    BY <1>2 DEF ExecuteOperation, ExecuteForStep, TakeJump, TakeBranch, Elapse,
                ElapseAndDispatch, ctxVars
  <2>3. Moves
    <3> HIDE DEF Current
    <3> QED BY <1>2 DEF ExecuteOperation, ExecuteForStep, TakeJump, TakeBranch, Executes,
                        Moves, Transfers
  <2> QED BY <2>1, <2>2, <2>3
<1>3. CASE CallExternal
  <2>1. /\ ~ blocked' /\ asyncMode' = asyncMode /\ HasInstruction(sequence, pc)
        /\ Current.isaName = "FuncCall" /\ Current.isExternal
        /\ callStack' = callStack /\ pc' = pc + 1
    BY <1>3 DEF CallExternal, Executes, modeVars, ctxVars
  <2>2. Moves
    BY <2>1 DEF Moves, Transfers
  <2>3. cycle' = cycle + 1 \/ (~ RunsOnUnit /\ Current.latency > 1)
    BY <1>3 DEF CallExternal, Elapse, ElapseAndDispatch
  <2> QED BY <2>1, <2>2, <2>3 DEF WaitsForCall
<1>4. CASE CallInternal
  <2>1. /\ ~ blocked' /\ asyncMode' = asyncMode /\ HasInstruction(sequence, pc)
        /\ CallsInternal
        /\ callStack' = Append(callStack, [returnPC |-> pc + 1, savedValues |-> store])
    BY <1>4 DEF CallInternal, Executes, modeVars, CallsInternal
  <2>2. callStack \in Seq(CallFrame)
    BY DEF TypeOK
  <2>3. Len(callStack) \in Nat /\ Len(callStack') = Len(callStack) + 1
    BY <2>1, <2>2, LenProperties, AppendProperties
  <2> QED BY <2>1, <2>3
<1>5. CASE ReturnToCaller
  <2>1. /\ ~ blocked' /\ asyncMode' = asyncMode /\ callStack # <<>>
        /\ callStack' = SubSeq(callStack, 1, Len(callStack) - 1)
    BY <1>5 DEF ReturnToCaller, Executes, modeVars
  <2>2. callStack \in Seq(CallFrame)
    BY DEF TypeOK
  <2>3. Len(callStack) \in Nat \ {0}
    BY <2>1, <2>2, EmptySeq, LenProperties
  <2> DEFINE m == Len(callStack) - 1
  <2>4. m \in Nat /\ m # Len(callStack)
    BY <2>3
  <2>5. Len(SubSeq(callStack, 1, m)) = IF 1 <= m THEN m - 1 + 1 ELSE 0
    BY <2>4, SubSeqProperties
  <2>6. callStack' = SubSeq(callStack, 1, m)
    BY <2>1
  <2> HIDE DEF m
  <2>7. Len(callStack') = m
    BY <2>4, <2>5, <2>6
  <2> QED BY <2>1, <2>4, <2>7
<1>6. CASE ReturnAndHalt
  BY <1>6 DEF ReturnAndHalt, Executes, Elapse, modeVars
<1> QED BY <1>1, <1>2, <1>3, <1>4, <1>5, <1>6 DEF Tick

LEMMA NothingBlocks == SimSafety => []Unblocked
<1>1. SimInit => Unblocked
  BY DEF SimInit, Init, Unblocked
<1>2. SimInv /\ Unblocked /\ [SimNext]_simVars => Unblocked'
  <2> SUFFICES ASSUME SimInv, Unblocked, [SimNext]_simVars
               PROVE  Unblocked'
    OBVIOUS
  <2>1. CASE LoadModule
    BY <2>1 DEF LoadModule, Load, Unblocked
  <2>2. CASE ChooseMode
    BY <2>2 DEF ChooseMode, SetAsyncMode, Unblocked
  <2>3. CASE RunTick
    <3>1. stage' = "running" /\ Tick /\ TypeOK /\ ~ blocked
      BY <2>3 DEF RunTick, SimInv, Unblocked
    <3> QED BY <3>1, TickMoves DEF Unblocked
  <2>4. CASE Complete
    BY <2>4 DEF Complete, vars, Unblocked
  <2>5. CASE UNCHANGED simVars
    BY <2>5 DEF simVars, vars, Unblocked
  <2> QED BY <2>1, <2>2, <2>3, <2>4, <2>5 DEF SimNext
<1> QED BY <1>1, <1>2, SimInvariant, PTL DEF SimSafety

-----------------------------------------------------------------------------
(***************************************************************************)
(* A task in flight is one that an operation or an external call of the    *)
(* loaded program asks for.                                                *)
(***************************************************************************)
TaskOfProgram(task) ==
    LET isa == GetInstructionByPC(sequence, task.pc) IN
    /\ HasInstruction(sequence, task.pc)
    /\ task.unit = isa.targetUnit /\ task.duration = isa.latency
    /\ isa.isaName = "FuncCall" => isa.isExternal

TasksOfProgram == \A task \in activeTasks : TaskOfProgram(task)

LEMMA NewTaskOfProgram ==
    ASSUME TypeOK, sequence \in Programs, HasInstruction(sequence, pc),
           Current.isaName = "FuncCall" => Current.isExternal
    PROVE  TaskOfProgram(NewTask)
<1>1. Current.pc = pc
  BY LoadedProgram, PcToIndexInDomain DEF TypeOK, Current
<1>2. /\ NewTask.pc = pc /\ NewTask.unit = Current.targetUnit
      /\ NewTask.duration = Current.latency
  BY <1>1 DEF NewTask
<1>3. GetInstructionByPC(sequence, NewTask.pc) = Current
  BY <1>2, Zenon DEF Current
<1>4. HasInstruction(sequence, NewTask.pc)
  BY <1>2, Zenon
<1> HIDE DEF NewTask, Current
<1> QED BY <1>2, <1>3, <1>4 DEF TaskOfProgram

LEMMA TasksOfProgramStep ==
    SimInv /\ TasksOfProgram /\ [SimNext]_simVars => TasksOfProgram'
<1> SUFFICES ASSUME SimInv, TasksOfProgram, [SimNext]_simVars
             PROVE  TasksOfProgram'
  OBVIOUS
<1>1. CASE LoadModule
  <2>1. activeTasks' = {}
    BY <1>1 DEF LoadModule, Load
  <2> QED BY <2>1 DEF TasksOfProgram
<1>2. CASE sequence' = sequence /\ activeTasks' \subseteq activeTasks
  BY <1>2 DEF TasksOfProgram, TaskOfProgram
<1>3. CASE RunTick
  <2>1. Tick /\ sequence \in Programs /\ TypeOK
    BY <1>3 DEF RunTick, SimInv, Loaded
  <2>2. ASSUME HasInstruction(sequence, pc), sequence' = sequence,
               Current.isaName = "FuncCall" => Current.isExternal,
               ElapseAndDispatch
        PROVE  TasksOfProgram'
    <3>1. activeTasks' \subseteq activeTasks \cup {NewTask}
      BY <2>2 DEF ElapseAndDispatch, ActiveAt
    <3>2. TaskOfProgram(NewTask)
      BY <2>1, <2>2, NewTaskOfProgram
    <3>3. \A task \in activeTasks' : TaskOfProgram(task)
      BY <3>1, <3>2 DEF TasksOfProgram
    <3> QED BY <2>2, <3>3 DEF TasksOfProgram, TaskOfProgram
  <2>3. ASSUME NEW n, Elapse(n)
        PROVE  activeTasks' \subseteq activeTasks
    BY <2>3 DEF Elapse, ActiveAt
  <2>4. CASE IdleTick
    BY <1>2, <2>3, <2>4 DEF IdleTick
  <2>5. CASE ExecuteOperation
    <3>1. /\ HasInstruction(sequence, pc) /\ Current.isaName # "FuncCall"
          /\ sequence' = sequence
      BY <2>5 DEF ExecuteOperation, Executes
    <3>2. ElapseAndDispatch \/ Elapse(1)
      BY <2>5 DEF ExecuteOperation
    <3> QED BY <1>2, <2>2, <2>3, <3>1, <3>2
  <2>6. CASE CallExternal
    <3>1. /\ HasInstruction(sequence, pc) /\ Current.isExternal
          /\ sequence' = sequence
      BY <2>6 DEF CallExternal, Executes
    <3>2. ElapseAndDispatch
            \/ Elapse(IF Current.latency > 1 THEN Current.latency ELSE 1)
      BY <2>6 DEF CallExternal
    <3> QED BY <1>2, <2>2, <2>3, <3>1, <3>2
  <2>7. CASE \/ ExecuteForStep \/ TakeJump \/ TakeBranch \/ CallInternal
             \/ ReturnToCaller \/ ReturnAndHalt
    <3>1. Elapse(1) /\ sequence' = sequence
      BY <2>7
        DEF ExecuteForStep, TakeJump, TakeBranch, CallInternal, ReturnToCaller,
            ReturnAndHalt, Executes
    <3> QED BY <1>2, <2>3, <3>1
  <2> QED BY <2>1, <2>4, <2>5, <2>6, <2>7 DEF Tick
<1>4. CASE ChooseMode
  BY <1>2, <1>4 DEF ChooseMode, SetAsyncMode, unitVars
<1>5. CASE Complete \/ UNCHANGED simVars
  BY <1>2, <1>5 DEF Complete, simVars, vars, unitVars
<1> QED BY <1>1, <1>3, <1>4, <1>5 DEF SimNext

(***************************************************************************)
(* Without its fairness: a simulation only has tasks of its program.       *)
(***************************************************************************)
LEMMA TasksSafety == SimSafety => []TasksOfProgram
<1>1. SimInit => TasksOfProgram
  BY DEF SimInit, Init, TasksOfProgram
<1>2. SimInv /\ TasksOfProgram /\ [SimNext]_simVars => TasksOfProgram'
  BY TasksOfProgramStep
<1> QED BY <1>1, <1>2, SimInvariant, PTL DEF SimSafety

(***************************************************************************)
(* A running simulation always finds an instruction at pc, for every       *)
(* well-formed program, in both modes.                                     *)
(***************************************************************************)
THEOREM PcStaysInProgram == SimSpec => []PcInProgram
BY PcSafety, PTL DEF SimSpec

(***************************************************************************)
(* Every frame on the call stack returns right behind an internal call.    *)
(***************************************************************************)
THEOREM FramesStayAfterCalls == SimSpec => []FramesReturnAfterCalls
BY FramesSafety, PTL DEF SimSpec

=============================================================================
