----------------------- MODULE ModuleSimulationProofs -----------------------
(***************************************************************************)
(* Builder and simulation fit together: what the builder leaves of any     *)
(* module is what the simulation is promised, so the simulation of every   *)
(* module stays inside the module's program.                               *)
(*                                                                         *)
(* The theorems about the parts are those of IsaSequenceBuilderProofs and  *)
(* SimulationProofs, instantiated as ModuleSimulation does the parts.      *)
(***************************************************************************)
EXTENDS ModuleSimulation, IsaSequenceProofs

BuilderProofs == INSTANCE IsaSequenceBuilderProofs WITH sequence <- built

MainProofs == INSTANCE SimulationProofs WITH Programs <- WellFormedPrograms

ModuleVars == <<builderVars, mainVars>>

-----------------------------------------------------------------------------
(***************************************************************************)
(* The assumptions under which the theorems about the parts are stated.    *)
(***************************************************************************)
LEMMA BuilderAssumptions ==
    /\ BuilderProofs!FunctionsAssumption
    /\ BuilderProofs!InputsAssumption
    /\ BuilderProofs!SizesAssumption
    /\ BuilderProofs!IntegersAssumption
    /\ BuilderProofs!ValueAssumption
<1>1. BuilderProofs!InputsAssumption
  BY InputsAssumption
    DEF LoopHeader, Instruction, IsaName, ExecutionUnitType, Number,
        BuilderProofs!LoopHeader, BuilderProofs!Instruction,
        BuilderProofs!IsaName, BuilderProofs!ExecutionUnitType,
        BuilderProofs!Number
<1>2. BuilderProofs!FunctionsAssumption
  BY FunctionsAssumption
<1>3. BuilderProofs!SizesAssumption
  BY SizesAssumption
<1>4. BuilderProofs!IntegersAssumption /\ BuilderProofs!ValueAssumption
  BY IntegersAssumption, ValueAssumption
<1> QED BY <1>1, <1>2, <1>3, <1>4

\* The instances of well-formedness are one.
LEMMA SameWellFormed ==
    /\ \A s : MainProofs!WellFormed(s) <=> WellFormed(s)
    /\ \A s : BuilderProofs!WellFormed(s) <=> WellFormed(s)
    /\ MainProofs!Instruction = Instruction
    /\ BuilderProofs!Instruction = Instruction
BY DEF
         Instruction, IsaName, ExecutionUnitType, Number, DensePCs,
         JumpsInside, EndsInTransfer, WellFormed,
         MainProofs!Instruction, MainProofs!IsaName,
         MainProofs!ExecutionUnitType, MainProofs!Number,
         MainProofs!DensePCs, MainProofs!JumpsInside,
         MainProofs!EndsInTransfer, MainProofs!WellFormed,
         BuilderProofs!Instruction, BuilderProofs!IsaName,
         BuilderProofs!ExecutionUnitType, BuilderProofs!Number,
         BuilderProofs!DensePCs, BuilderProofs!JumpsInside,
         BuilderProofs!EndsInTransfer, BuilderProofs!WellFormed

LEMMA MainAssumptions ==
    /\ MainProofs!ProgramsAssumption
    /\ MainProofs!BoundsAssumption
    /\ MainProofs!ProgramsAreWellFormed
    /\ MainProofs!IntegersAssumption
    /\ MainProofs!ValueAssumption
<1>1. MainProofs!ProgramsAssumption /\ MainProofs!ProgramsAreWellFormed
  BY SameWellFormed DEF WellFormedPrograms
<1>2. MainProofs!BoundsAssumption
  BY SizesAssumption
<1>3. MainProofs!IntegersAssumption /\ MainProofs!ValueAssumption
  BY IntegersAssumption, ValueAssumption
<1> QED BY <1>1, <1>2, <1>3

-----------------------------------------------------------------------------
(***************************************************************************)
(* The parts of ModuleSimulation are the parts of the proofs.              *)
(***************************************************************************)
LEMMA SameUpdates ==
    /\ \A s, p, yes, no : Builder!UpdateConditionalJump(s, p, yes, no)
                              = BuilderProofs!UpdateConditionalJump(s, p, yes, no)
    /\ \A s, p, target : Builder!UpdateJumpTarget(s, p, target)
                             = BuilderProofs!UpdateJumpTarget(s, p, target)
<1>1. \A s, p : Builder!PcToIndex(s, p) = BuilderProofs!PcToIndex(s, p)
  BY DEF Builder!PcToIndex, BuilderProofs!PcToIndex
<1>2. \A s, p : Builder!GetInstructionByPC(s, p) = BuilderProofs!GetInstructionByPC(s, p)
  BY <1>1 DEF Builder!GetInstructionByPC, BuilderProofs!GetInstructionByPC
<1>3. \A s, p : Builder!HasInstruction(s, p) <=> BuilderProofs!HasInstruction(s, p)
  BY DEF Builder!HasInstruction, BuilderProofs!HasInstruction
<1>4. \A isa : Builder!Kind(isa) = BuilderProofs!Kind(isa)
  BY DEF Builder!Kind, BuilderProofs!Kind
<1>5. \A s, p, target : Builder!UpdateJumpTarget(s, p, target)
                            = BuilderProofs!UpdateJumpTarget(s, p, target)
  BY <1>1, <1>2, <1>3, <1>4
    DEF Builder!UpdateJumpTarget, BuilderProofs!UpdateJumpTarget
<1>6. \A s, p, yes, no : Builder!UpdateConditionalJump(s, p, yes, no)
                             = BuilderProofs!UpdateConditionalJump(s, p, yes, no)
  BY <1>1, <1>2, <1>3, <1>4
    DEF Builder!UpdateConditionalJump,
        BuilderProofs!UpdateConditionalJump
<1> QED BY <1>5, <1>6

LEMMA SameCode ==
    /\ \A name : Builder!NewInstruction(name) = BuilderProofs!NewInstruction(name)
    /\ \A operands : Builder!YieldAssigns(operands) = BuilderProofs!YieldAssigns(operands)
    /\ \A operands : Builder!LoopEnd(operands) = BuilderProofs!LoopEnd(operands)
    /\ \A operands : Builder!IfYields(operands) = BuilderProofs!IfYields(operands)
    /\ \A operands : Builder!ElseEnd(operands) = BuilderProofs!ElseEnd(operands)
    /\ \A isas : Builder!With(isas) = BuilderProofs!With(isas)
    /\ \A isas : Builder!Emit(isas) <=> BuilderProofs!Emit(isas)
    /\ \A kind, code, falsePC, end :
          Builder!Close(kind, code, falsePC, end)
              <=> BuilderProofs!Close(kind, code, falsePC, end)
<1>1. \A name : Builder!NewInstruction(name) = BuilderProofs!NewInstruction(name)
  BY Zenon DEF Builder!NewInstruction, BuilderProofs!NewInstruction
<1>2. \A operands : Builder!YieldAssigns(operands) = BuilderProofs!YieldAssigns(operands)
  <2>1. Builder!Top = BuilderProofs!Top
    BY DEF Builder!Top, BuilderProofs!Top
  <2>2. ASSUME NEW operands
        PROVE  Builder!YieldAssigns(operands) = BuilderProofs!YieldAssigns(operands)
    <3>1. Builder!NewInstruction("YieldAssign") = BuilderProofs!NewInstruction("YieldAssign")
      BY <1>1
    <3> QED BY <2>1, <3>1, Zenon DEF Builder!YieldAssigns, BuilderProofs!YieldAssigns
  <2> QED BY <2>2
<1>3. \A operands : Builder!LoopEnd(operands) = BuilderProofs!LoopEnd(operands)
  BY <1>1, <1>2
    DEF Builder!LoopEnd, Builder!Top, BuilderProofs!LoopEnd,
        BuilderProofs!Top
<1>4. \A operands : Builder!IfYields(operands) = BuilderProofs!IfYields(operands)
  BY <1>1, <1>2
    DEF Builder!IfYields, Builder!Top, BuilderProofs!IfYields,
        BuilderProofs!Top
<1>5. \A operands : Builder!ElseEnd(operands) = BuilderProofs!ElseEnd(operands)
  BY <1>1, <1>4
    DEF Builder!ElseEnd, BuilderProofs!ElseEnd
<1>6. \A isas : Builder!With(isas) = BuilderProofs!With(isas)
  BY DEF Builder!With, BuilderProofs!With, Builder!Numbered, BuilderProofs!Numbered
<1>7. \A isas : Builder!Emit(isas) <=> BuilderProofs!Emit(isas)
  BY <1>6 DEF Builder!Emit, BuilderProofs!Emit
<1>8. \A kind, code, falsePC, end :
          Builder!Close(kind, code, falsePC, end)
              <=> BuilderProofs!Close(kind, code, falsePC, end)
  BY SameUpdates
    DEF Builder!Close, Builder!Pop, Builder!Top, BuilderProofs!Close,
        BuilderProofs!Pop, BuilderProofs!Top
<1> QED BY <1>1, <1>2, <1>3, <1>4, <1>5, <1>6, <1>7, <1>8

LEMMA SameBuild == Builder!Next <=> BuilderProofs!Next
<1>1. \A function : Builder!FlattenFuncOp(function) <=> BuilderProofs!FlattenFuncOp(function)
  BY DEF Builder!FlattenFuncOp, BuilderProofs!FlattenFuncOp,
         Builder!FuncFrame, BuilderProofs!FuncFrame
<1>2. \A op : Builder!AddNormalOp(op) <=> BuilderProofs!AddNormalOp(op)
  BY SameCode
    DEF Builder!AddNormalOp, Builder!Reading,
        BuilderProofs!AddNormalOp, BuilderProofs!Reading
<1>3. \A callee : Builder!AddCall(callee) <=> BuilderProofs!AddCall(callee)
  BY SameCode
    DEF Builder!AddCall, Builder!Reading, Builder!FuncCall,
        BuilderProofs!AddCall, BuilderProofs!Reading,
        BuilderProofs!FuncCall
<1>4. Builder!AddReturn <=> BuilderProofs!AddReturn
  BY SameCode
    DEF Builder!AddReturn, Builder!InPart, Builder!Top, Builder!Pop,
        BuilderProofs!AddReturn, BuilderProofs!InPart,
        BuilderProofs!Top, BuilderProofs!Pop
<1>5. \A loop : Builder!BeginFor(loop) <=> BuilderProofs!BeginFor(loop)
  BY SameCode
    DEF Builder!BeginFor, Builder!Reading, Builder!ForInit,
        Builder!ForCondition, Builder!BodyFrame, Builder!FuncFrame,
        BuilderProofs!BeginFor, BuilderProofs!Reading,
        BuilderProofs!ForInit, BuilderProofs!ForCondition,
        BuilderProofs!BodyFrame, BuilderProofs!FuncFrame
<1>6. \A condition, hasElse, results :
          Builder!BeginIf(condition, hasElse, results)
              <=> BuilderProofs!BeginIf(condition, hasElse, results)
  BY SameCode
    DEF Builder!BeginIf, Builder!Reading, Builder!FuncFrame,
        Builder!Top, BuilderProofs!BeginIf, BuilderProofs!Reading,
        BuilderProofs!FuncFrame, BuilderProofs!Top
<1>7. \A operands : Builder!EndFor(operands) <=> BuilderProofs!EndFor(operands)
  BY SameCode
    DEF Builder!EndFor, Builder!InPart, Builder!Top,
        BuilderProofs!EndFor, BuilderProofs!InPart, BuilderProofs!Top
<1>8. \A operands : Builder!EndThen(operands) <=> BuilderProofs!EndThen(operands)
  BY SameCode
    DEF Builder!EndThen, Builder!InPart, Builder!Top,
        BuilderProofs!EndThen, BuilderProofs!InPart, BuilderProofs!Top
<1>9. \A operands : Builder!EndElse(operands) <=> BuilderProofs!EndElse(operands)
  BY SameCode, SameUpdates
    DEF Builder!EndElse, Builder!InPart, Builder!Top,
        BuilderProofs!EndElse, BuilderProofs!InPart, BuilderProofs!Top
<1>10. Builder!EndIf <=> BuilderProofs!EndIf
  BY SameCode, SMTT(30)
    DEF Builder!EndIf, Builder!InPart, Builder!Top,
        BuilderProofs!EndIf, BuilderProofs!InPart, BuilderProofs!Top
<1> QED BY <1>1, <1>2, <1>3, <1>4, <1>5, <1>6, <1>7, <1>8, <1>9, <1>10
    DEF Builder!Next, BuilderProofs!Next

LEMMA SameTick == Main!RunTick <=> MainProofs!RunTick
BY DEF
         Main!ExecutionUnitType, Main!CompleteCycle, Main!IsComplete,
         Main!NewUnit, Main!IsBusy, Main!DispatchTask, Main!PopCount,
         Main!UpdateUnit, Main!Number, Main!HasValue, Main!IntValue,
         Main!WrappedSum, Main!ForInitExecute,
         Main!ForIncrementExecute, Main!YieldAssignExecute,
         Main!OperationExecute, Main!Execute, Main!BranchTaken,
         Main!HasInstruction, Main!PcToIndex,
         Main!GetInstructionByPC, Main!unitVars, Main!modeVars,
         Main!ctxVars, Main!vars, Main!UnitsAt, Main!ActiveAt,
         Main!Elapse, Main!Current, Main!NewTask,
         Main!ElapseAndDispatch, Main!RunsOnUnit, Main!Stalled,
         Main!Ticking, Main!Executes, Main!IdleTick,
         Main!ExecuteOperation, Main!ExecuteForStep, Main!TakeJump,
         Main!TakeBranch, Main!CallExternal, Main!CallInternal,
         Main!ReturnToCaller, Main!ReturnAndHalt, Main!Tick,
         Main!RunTick,
         MainProofs!ExecutionUnitType, MainProofs!CompleteCycle,
         MainProofs!IsComplete, MainProofs!NewUnit,
         MainProofs!IsBusy, MainProofs!DispatchTask,
         MainProofs!PopCount, MainProofs!UpdateUnit,
         MainProofs!Number, MainProofs!HasValue, MainProofs!IntValue,
         MainProofs!WrappedSum, MainProofs!ForInitExecute,
         MainProofs!ForIncrementExecute,
         MainProofs!YieldAssignExecute, MainProofs!OperationExecute,
         MainProofs!Execute, MainProofs!BranchTaken,
         MainProofs!HasInstruction, MainProofs!PcToIndex,
         MainProofs!GetInstructionByPC, MainProofs!unitVars,
         MainProofs!modeVars, MainProofs!ctxVars, MainProofs!vars,
         MainProofs!UnitsAt, MainProofs!ActiveAt, MainProofs!Elapse,
         MainProofs!Current, MainProofs!NewTask,
         MainProofs!ElapseAndDispatch, MainProofs!RunsOnUnit,
         MainProofs!Stalled, MainProofs!Ticking, MainProofs!Executes,
         MainProofs!IdleTick, MainProofs!ExecuteOperation,
         MainProofs!ExecuteForStep, MainProofs!TakeJump,
         MainProofs!TakeBranch, MainProofs!CallExternal,
         MainProofs!CallInternal, MainProofs!ReturnToCaller,
         MainProofs!ReturnAndHalt, MainProofs!Tick,
         MainProofs!RunTick

LEMMA SameStages ==
    /\ Main!SimInit <=> MainProofs!SimInit
    /\ \A program : Main!Load(program) <=> MainProofs!Load(program)
    /\ Main!ChooseMode <=> MainProofs!ChooseMode
    /\ Main!Complete <=> MainProofs!Complete
BY DEF
         Main!ExecutionUnitType, Main!Number, Main!unitVars,
         Main!modeVars, Main!ctxVars, Main!vars, Main!NewUnit,
         Main!EmptyStore, Main!IdleUnits, Main!Init, Main!Load,
         Main!SetAsyncMode, Main!ChooseMode, Main!Complete,
         Main!SimInit,
         MainProofs!ExecutionUnitType, MainProofs!Number,
         MainProofs!unitVars, MainProofs!modeVars,
         MainProofs!ctxVars, MainProofs!vars, MainProofs!NewUnit,
         MainProofs!EmptyStore, MainProofs!IdleUnits,
         MainProofs!Init, MainProofs!Load, MainProofs!SetAsyncMode,
         MainProofs!ChooseMode, MainProofs!Complete,
         MainProofs!SimInit

-----------------------------------------------------------------------------
(***************************************************************************)
(* The builder's side of a module's simulation is a build, so what it has  *)
(* built when it is done is well formed.                                   *)
(***************************************************************************)
LEMMA ModulesAreBuilt == ModuleSpec => BuilderProofs!Spec
<1>1. ModuleInit => BuilderProofs!Init
  BY DEF ModuleInit, Builder!Init, BuilderProofs!Init
<1>2. [ModuleNext]_ModuleVars => [BuilderProofs!Next]_BuilderProofs!vars
  BY SameBuild
    DEF ModuleNext, Build, LoadBuilt, Simulate, ModuleVars, builderVars,
        BuilderProofs!vars
<1> QED BY <1>1, <1>2, PTL DEF ModuleSpec, BuilderProofs!Spec, ModuleVars

LEMMA BuiltWell ==
    ModuleSpec => [](BuilderProofs!TypeOK /\ BuilderProofs!CompleteIsWellFormed)
<1>1. BuilderProofs!Spec => []BuilderProofs!TypeOK
  BY BuilderProofs!TypeCorrect, BuilderAssumptions, PTL
<1>2. BuilderProofs!Spec => []BuilderProofs!CompleteIsWellFormed
  BY BuilderProofs!CompleteProgramsAreWellFormed, BuilderAssumptions, PTL
<1> QED BY <1>1, <1>2, ModulesAreBuilt, PTL

(***************************************************************************)
(* The simulation of a module is a simulation of some well-formed program: *)
(* a build is no step of it, and what load() takes is well formed.         *)
(***************************************************************************)
THEOREM ModulesAreSimulated == ModuleSpec => MainProofs!SimSafety
<1>1. ModuleInit => MainProofs!SimInit
  BY SameStages DEF ModuleInit
<1>2. ASSUME BuilderProofs!TypeOK, BuilderProofs!CompleteIsWellFormed,
             [ModuleNext]_ModuleVars
      PROVE  [MainProofs!SimNext]_MainProofs!simVars
  <2>1. CASE UNCHANGED mainVars
    BY <2>1 DEF mainVars, MainProofs!simVars, MainProofs!vars, MainProofs!unitVars,
                MainProofs!modeVars, MainProofs!ctxVars
  <2>2. CASE LoadBuilt
    <3>1. built \in Seq(Instruction)
      BY <1>2, SameWellFormed DEF BuilderProofs!TypeOK
    <3>2. WellFormed(built)
      BY <1>2, <2>2, SameWellFormed
        DEF LoadBuilt, AllFlattened, BuilderProofs!CompleteIsWellFormed
    <3>3. built \in WellFormedPrograms
      BY <3>1, <3>2, Zenon DEF WellFormedPrograms
    <3>4. MainProofs!LoadModule
      BY <2>2, <3>3, SameStages DEF LoadBuilt, MainProofs!LoadModule
    <3> QED BY <3>4 DEF MainProofs!SimNext
  <2>3. CASE Simulate
    BY <2>3, SameTick, SameStages DEF Simulate, MainProofs!SimNext
  <2>4. CASE Build
    BY <2>1, <2>4 DEF Build
  <2> QED BY <1>2, <2>1, <2>2, <2>3, <2>4 DEF ModuleNext, ModuleVars
<1> QED BY <1>1, <1>2, BuiltWell, PTL DEF ModuleSpec, MainProofs!SimSafety, ModuleVars

(***************************************************************************)
(* The simulation of every module that the builder can be given always     *)
(* finds an instruction at pc.                                             *)
(***************************************************************************)
THEOREM BuiltModulesStayInside == ModuleSpec => []PcInBuiltProgram
<1>1. MainProofs!SimSafety => []MainProofs!PcInProgram
  BY MainProofs!PcSafety, MainAssumptions, PTL
<1>2. MainProofs!PcInProgram => PcInBuiltProgram
  BY DEF PcInBuiltProgram, MainProofs!PcInProgram, Main!PcInProgram,
         MainProofs!HasInstruction, Main!HasInstruction
<1> QED BY <1>1, <1>2, ModulesAreSimulated, PTL

-----------------------------------------------------------------------------
(***************************************************************************)
(* What is simulated is what was built, and the builder does not touch it  *)
(* any more: the instructions and calls that the executor's frames and     *)
(* tasks come from are the ones the builder recorded.                      *)
(***************************************************************************)
Handover ==
    /\ sequence = IF stage = "constructed" THEN <<>> ELSE built
    /\ stage # "constructed" => open = <<>>

LEMMA HandoverInvariant == ModuleSpec => []Handover
<1>1. ModuleInit => Handover
  BY DEF ModuleInit, Handover, Main!SimInit, Main!Init
<1>2. Handover /\ [ModuleNext]_ModuleVars => Handover'
  <2> SUFFICES ASSUME Handover, [ModuleNext]_ModuleVars
               PROVE  Handover'
    OBVIOUS
  <2>1. CASE Build
    BY <2>1 DEF Build, mainVars, Handover
  <2>2. CASE LoadBuilt
    BY <2>2 DEF LoadBuilt, AllFlattened, Main!Load, builderVars, Handover
  <2>3. CASE Simulate
    <3>1. built' = built /\ open' = open
      BY <2>3 DEF Simulate, builderVars
    <3>2. CASE Main!ChooseMode
      BY <3>1, <3>2 DEF Main!ChooseMode, Main!SetAsyncMode, Handover
    <3>3. CASE Main!RunTick
      <4>1. Main!Tick /\ stage = "running" /\ stage' = stage
        BY <3>3 DEF Main!RunTick
      <4>2. sequence' = sequence
        BY <4>1
          DEF Main!Tick, Main!IdleTick, Main!ExecuteOperation, Main!ExecuteForStep,
              Main!TakeJump, Main!TakeBranch, Main!CallExternal, Main!CallInternal,
              Main!ReturnToCaller, Main!ReturnAndHalt, Main!Executes
      <4> QED BY <3>1, <4>1, <4>2 DEF Handover
    <3>4. CASE Main!Complete
      BY <3>1, <3>4 DEF Main!Complete, Main!vars, Handover
    <3> QED BY <2>3, <3>2, <3>3, <3>4 DEF Simulate
  <2>4. CASE UNCHANGED ModuleVars
    BY <2>4 DEF ModuleVars, builderVars, mainVars, Handover
  <2> QED BY <2>1, <2>2, <2>3, <2>4 DEF ModuleNext
<1> QED BY <1>1, <1>2, PTL DEF ModuleSpec, ModuleVars

\* The builder's side: dense PCs, and calls recorded for what they are.
BuiltInv ==
    /\ BuilderProofs!TypeOK
    /\ BuilderProofs!CounterIsSize
    /\ BuilderProofs!CallsRecorded
    /\ BuilderProofs!OnlyLoopsGoBack

LEMMA BuiltInvariant == ModuleSpec => []BuiltInv
<1>1. BuilderProofs!Spec => []BuilderProofs!TypeOK
  BY BuilderProofs!TypeCorrect, BuilderAssumptions, PTL
<1>2. BuilderProofs!Spec => []BuilderProofs!CounterIsSize
  BY BuilderProofs!CounterStaysSize, BuilderAssumptions, PTL
<1>3. BuilderProofs!Spec => []BuilderProofs!CallsRecorded
  BY BuilderProofs!CallsStayRecorded, BuilderAssumptions, PTL
<1>4. BuilderProofs!Spec => []BuilderProofs!OnlyLoopsGoBack
  BY BuilderProofs!OnlyLoopsEverGoBack, BuilderAssumptions, PTL
<1> QED BY <1>1, <1>2, <1>3, <1>4, ModulesAreBuilt, PTL DEF BuiltInv

\* The instances of the lookup are one.
LEMMA SameLookup ==
    /\ \A s, p : MainProofs!HasInstruction(s, p) <=> HasInstruction(s, p)
    /\ \A s, p : MainProofs!GetInstructionByPC(s, p) = GetInstructionByPC(s, p)
BY DEF HasInstruction, PcToIndex, GetInstructionByPC, MainProofs!HasInstruction,
       MainProofs!PcToIndex, MainProofs!GetInstructionByPC

\* A call of the program is recorded.
LEMMA CallOfProgram ==
    ASSUME BuiltInv, Handover, NEW p \in Int, HasInstruction(sequence, p)
    PROVE  /\ sequence = built
           /\ GetInstructionByPC(built, p).isaName = "FuncCall" =>
                 \E call \in calls :
                    /\ call.pc = p
                    /\ BuilderProofs!CallRecorded(GetInstructionByPC(built, p), call)
<1>1. PICK i \in DOMAIN sequence : sequence[i].pc = p
  BY DEF HasInstruction
<1>2. sequence = built
  BY <1>1 DEF Handover
<1>3. built \in Seq(Instruction) /\ DensePCs(built)
  BY SameWellFormed
    DEF BuiltInv, BuilderProofs!TypeOK, BuilderProofs!CounterIsSize,
        BuilderProofs!DensePCs, DensePCs
<1>4. Len(built) \in Nat /\ i \in 1 .. Len(built) /\ p = i - 1
  BY <1>1, <1>2, <1>3, LenProperties DEF DensePCs
<1>5. p \in 0 .. Len(built) - 1 /\ p \in Nat /\ p < Len(built)
  BY <1>4
<1>6. GetInstructionByPC(built, p) = built[p + 1]
  BY <1>3, <1>5, DenseLookup DEF GetInstructionByPC
<1> QED BY <1>2, <1>5, <1>6 DEF BuiltInv, BuilderProofs!CallsRecorded

(***************************************************************************)
(* Returns go behind calls of the module: each frame of the simulation of  *)
(* any module returns behind a call that was built for one of the module's *)
(* functions.                                                              *)
(***************************************************************************)
THEOREM FramesReturnBehindBuiltCalls == ModuleSpec => []FramesReturnAfterBuiltCalls
<1>1. ASSUME BuiltInv, Handover, MainProofs!TypeOK, MainProofs!FramesReturnAfterCalls
      PROVE  FramesReturnAfterBuiltCalls
  <2> SUFFICES ASSUME NEW i \in DOMAIN callStack
               PROVE  \E call \in calls : /\ call.callee \in Functions
                                          /\ callStack[i].returnPC = call.pc + 1
    BY DEF FramesReturnAfterBuiltCalls
  <2> DEFINE r == callStack[i].returnPC
             p == r - 1
  <2>1. r \in Nat
    <3>1. callStack \in Seq(MainProofs!CallFrame)
      BY <1>1 DEF MainProofs!TypeOK
    <3>2. callStack[i] \in MainProofs!CallFrame
      BY <3>1, LenProperties, ElementOfSeq
    <3> QED BY <3>2 DEF MainProofs!CallFrame
  <2>2. p \in Int /\ r = p + 1
    BY <2>1
  <2>3. /\ HasInstruction(sequence, p)
        /\ GetInstructionByPC(sequence, p).isaName = "FuncCall"
        /\ ~ GetInstructionByPC(sequence, p).isExternal
    BY <1>1, SameLookup DEF MainProofs!FramesReturnAfterCalls
  <2> HIDE DEF p, r
  <2>4. /\ sequence = built
        /\ GetInstructionByPC(built, p).isaName = "FuncCall" =>
              \E call \in calls :
                 /\ call.pc = p
                 /\ BuilderProofs!CallRecorded(GetInstructionByPC(built, p), call)
    BY <1>1, <2>2, <2>3, CallOfProgram
  <2>5. PICK call \in calls :
           call.pc = p /\ BuilderProofs!CallRecorded(GetInstructionByPC(built, p), call)
    BY <2>3, <2>4
  <2>6. call.callee \in Functions
    BY <2>3, <2>4, <2>5 DEF BuilderProofs!CallRecorded
  <2> QED BY <2>2, <2>5, <2>6 DEF r
<1>2. MainProofs!SimSafety => []MainProofs!SimInv
  BY MainProofs!SimInvariant, MainAssumptions, PTL
<1>3. MainProofs!SimInv => MainProofs!TypeOK
  BY DEF MainProofs!SimInv
<1>4. MainProofs!SimSafety => []MainProofs!FramesReturnAfterCalls
  BY MainProofs!FramesSafety, MainAssumptions, PTL
<1> QED
  BY <1>1, <1>2, <1>3, <1>4, BuiltInvariant, HandoverInvariant, ModulesAreSimulated, PTL

(***************************************************************************)
(* Tasks are the module's: the unit and duration of each task in flight    *)
(* are those of the operation or external at its PC, for an external the   *)
(* ones the configuration gives it.                                        *)
(***************************************************************************)
THEOREM TasksAreOfModule == ModuleSpec => []TasksComeFromModule
<1>1. ASSUME BuiltInv, Handover, MainProofs!TypeOK, MainProofs!TasksOfProgram
      PROVE  TasksComeFromModule
  <2> SUFFICES ASSUME NEW task \in activeTasks
               PROVE  LET isa == GetInstructionByPC(built, task.pc) IN
                      /\ HasInstruction(built, task.pc)
                      /\ task.unit = isa.targetUnit /\ task.duration = isa.latency
                      /\ isa.isaName = "FuncCall" =>
                            \E call \in calls :
                                /\ call.pc = task.pc /\ call.callee \in Externals
                                /\ ExternalInfo[call.callee] =
                                      [unit |-> task.unit, latency |-> task.duration]
    BY DEF TasksComeFromModule
  <2> DEFINE p   == task.pc
             isa == GetInstructionByPC(built, p)
  <2>1. p \in Int
    BY <1>1 DEF MainProofs!TypeOK, MainProofs!PendingTask
  <2>2. MainProofs!TaskOfProgram(task)
    BY <1>1 DEF MainProofs!TasksOfProgram
  <2>3. HasInstruction(sequence, p)
    BY <2>2, SameLookup DEF MainProofs!TaskOfProgram
  <2>4. /\ sequence = built
        /\ isa.isaName = "FuncCall" =>
              \E call \in calls : call.pc = p /\ BuilderProofs!CallRecorded(isa, call)
    BY <1>1, <2>1, <2>3, CallOfProgram
  <2>5. /\ task.unit = isa.targetUnit /\ task.duration = isa.latency
        /\ isa.isaName = "FuncCall" => isa.isExternal
    BY <2>2, <2>4, SameLookup DEF MainProofs!TaskOfProgram
  <2> HIDE DEF isa
  <2>6. ASSUME isa.isaName = "FuncCall"
        PROVE  \E call \in calls :
                  /\ call.pc = p /\ call.callee \in Externals
                  /\ ExternalInfo[call.callee] =
                        [unit |-> task.unit, latency |-> task.duration]
    <3>1. PICK call \in calls : call.pc = p /\ BuilderProofs!CallRecorded(isa, call)
      BY <2>4, <2>6
    <3>2. /\ call.callee \in Externals
          /\ ExternalInfo[call.callee] = [unit |-> isa.targetUnit, latency |-> isa.latency]
      BY <2>5, <2>6, <3>1 DEF BuilderProofs!CallRecorded
    <3> QED BY <2>5, <3>1, <3>2
  <2> QED BY <2>3, <2>4, <2>5, <2>6 DEF isa
<1>2. MainProofs!SimSafety => []MainProofs!SimInv
  BY MainProofs!SimInvariant, MainAssumptions, PTL
<1>3. MainProofs!SimInv => MainProofs!TypeOK
  BY DEF MainProofs!SimInv
<1>4. MainProofs!SimSafety => []MainProofs!TasksOfProgram
  BY MainProofs!TasksSafety, MainAssumptions, PTL
<1> QED
  BY <1>1, <1>2, <1>3, <1>4, BuiltInvariant, HandoverInvariant, ModulesAreSimulated, PTL

-----------------------------------------------------------------------------
(***************************************************************************)
(* Where the ticks of a module's simulation go.                            *)
(***************************************************************************)
TickInv ==
    /\ BuiltInv /\ Handover
    /\ MainProofs!SimInv /\ MainProofs!Unblocked
    /\ FramesReturnAfterBuiltCalls

LEMMA TickInvariant == ModuleSpec => []TickInv
<1>1. MainProofs!SimSafety => []MainProofs!SimInv
  BY MainProofs!SimInvariant, MainAssumptions, PTL
<1>2. MainProofs!SimSafety => []MainProofs!Unblocked
  BY MainProofs!NothingBlocks, MainAssumptions, PTL
<1> QED
  BY <1>1, <1>2, BuiltInvariant, HandoverInvariant, ModulesAreSimulated,
     FramesReturnBehindBuiltCalls, PTL DEF TickInv

\* From p, the end of a loop of the module, the simulation goes back to q.
RunsAgain(p, q) ==
    \E c \in closed : c.kind = "for" /\ p = c.endPC - 1 /\ q = c.condPC

\* The instruction at pc is the one the builder put there.
LEMMA CurrentIsBuilt ==
    ASSUME TickInv, stage # "constructed", MainProofs!HasInstruction(sequence, pc)
    PROVE  /\ sequence = built /\ open = <<>>
           /\ Len(built) \in Nat /\ pc \in 0 .. Len(built) - 1
           /\ MainProofs!Current = built[pc + 1]
           /\ built[pc + 1].pc = pc
<1>1. sequence = built /\ open = <<>>
  BY DEF TickInv, Handover
<1>2. MainProofs!TypeOK /\ sequence \in WellFormedPrograms
  BY DEF TickInv, MainProofs!SimInv, MainProofs!Loaded
<1>3. /\ pc \in Nat /\ pc < Len(sequence) /\ Len(sequence) \in Nat
      /\ MainProofs!Current = sequence[pc + 1]
  BY <1>2, MainAssumptions, MainProofs!CurrentInProgram
<1>4. pc + 1 \in 1 .. Len(built) /\ pc \in 0 .. Len(built) - 1 /\ pc + 1 - 1 = pc
  BY <1>1, <1>3
<1>5. built \in Seq(Instruction) /\ DensePCs(built)
  BY <1>1, <1>2 DEF WellFormedPrograms, WellFormed
<1>6. pc + 1 \in DOMAIN built
  BY <1>4, <1>5, LenProperties
<1>7. built[pc + 1].pc = pc
  BY <1>4, <1>5, <1>6 DEF DensePCs
<1> QED BY <1>1, <1>3, <1>4, <1>7

LEMMA MovesForward ==
    ASSUME TickInv, stage # "constructed", MainProofs!HasInstruction(sequence, pc),
           MainProofs!Moves
    PROVE  pc < pc' \/ RunsAgain(pc, pc')
<1>1. /\ open = <<>> /\ pc \in 0 .. Len(built) - 1
      /\ MainProofs!Current = built[pc + 1] /\ built[pc + 1].pc = pc
  BY CurrentIsBuilt
<1>2. BuilderProofs!At(pc) = built[pc + 1]
  BY DEF BuilderProofs!At
<1>3. pc' \in BuilderProofs!Successors(BuilderProofs!At(pc))
  <2> HIDE DEF MainProofs!Current
  <2> QED BY <1>1, <1>2 DEF MainProofs!Moves, MainProofs!Transfers, BuilderProofs!Successors
<1>4. BuilderProofs!OnlyLoopsGoBack /\ Len(<<>>) = 0
  BY EmptySeq DEF TickInv, BuiltInv
<1>5. 2 .. Len(open) = {}
  BY <1>1, <1>4
<1> QED BY <1>1, <1>3, <1>4, <1>5 DEF BuilderProofs!OnlyLoopsGoBack, RunsAgain

\* A step that moves the clock is a tick.
LEMMA ClockTicks ==
    ASSUME TickInv, [ModuleNext]_ModuleVars
    PROVE  \/ /\ stage = "running" /\ MainProofs!Tick
              /\ stage' = stage /\ UNCHANGED builderVars
           \/ cycle = 0 /\ cycle' = 0
           \/ UNCHANGED <<builderVars, cycle, pc, halted, asyncMode>>
<1>1. CASE Build
  <2>1. stage = "constructed" /\ cycle' = cycle
    BY <1>1 DEF Build, mainVars
  <2> QED BY <2>1 DEF TickInv, MainProofs!Unblocked
<1>2. CASE LoadBuilt
  <2>1. stage = "constructed" /\ cycle' = 0
    BY <1>2 DEF LoadBuilt, Main!Load
  <2> QED BY <2>1 DEF TickInv, MainProofs!Unblocked
<1>3. CASE Simulate
  <2>1. UNCHANGED builderVars
    BY <1>3 DEF Simulate
  <2>2. CASE Main!ChooseMode
    <3>1. stage = "loaded" /\ cycle' = cycle
      BY <2>2 DEF Main!ChooseMode, Main!SetAsyncMode
    <3> QED BY <3>1 DEF TickInv, MainProofs!Unblocked
  <2>3. CASE Main!RunTick
    BY <2>1, <2>3, SameTick DEF MainProofs!RunTick
  <2>4. CASE Main!Complete
    BY <2>1, <2>4 DEF Main!Complete, Main!vars, Main!modeVars, Main!ctxVars
  <2> QED BY <1>3, <2>2, <2>3, <2>4 DEF Simulate
<1>4. CASE UNCHANGED ModuleVars
  BY <1>4 DEF ModuleVars, builderVars, mainVars
<1> QED BY <1>1, <1>2, <1>3, <1>4 DEF ModuleNext

(***************************************************************************)
(* The simulation of every module goes forward through its program between *)
(* calls and returns, but for the jumps back of the module's own loops.    *)
(***************************************************************************)
THEOREM OnlyLoopsEverRunAgain == ModuleSpec => OnlyLoopsRunAgain
<1>1. ASSUME TickInv, [ModuleNext]_ModuleVars,
             cycle' # cycle, ~ halted', callStack' = callStack
      PROVE  pc < pc' \/ RunsAgain(pc, pc')
  <2>1. stage = "running" /\ MainProofs!Tick
    BY <1>1, ClockTicks
  <2>2. MainProofs!TypeOK /\ ~ blocked
    BY <1>1 DEF TickInv, MainProofs!SimInv, MainProofs!Unblocked
  <2>3. MainProofs!HasInstruction(sequence, pc) /\ MainProofs!Moves
    BY <1>1, <2>1, <2>2, MainAssumptions, MainProofs!TickMoves
  <2> QED BY <1>1, <2>1, <2>3, MovesForward
<1>2. TickInv /\ [ModuleNext]_ModuleVars =>
         [ cycle' # cycle /\ ~ halted' /\ callStack' = callStack =>
             \/ pc < pc'
             \/ \E c \in closed : c.kind = "for" /\ pc = c.endPC - 1 /\ pc' = c.condPC
         ]_<<builderVars, mainVars>>
  BY <1>1 DEF RunsAgain
<1> QED BY <1>2, TickInvariant, PTL DEF ModuleSpec, OnlyLoopsRunAgain, ModuleVars

-----------------------------------------------------------------------------
(***************************************************************************)
(* A module without loops and internal calls is paced: pc is ahead of the  *)
(* clock, and so the program is used up before the clock has reached its   *)
(* length.                                                                 *)
(***************************************************************************)
LoopFree ==
    /\ \A c \in closed : c.kind # "for"
    /\ \A call \in calls : TakesOneCycle(call)

Paced == LoopFree => (halted \/ cycle <= pc) /\ cycle <= Len(built)

\* What a call in such a module is not.
LEMMA CallsTakeOneCycle ==
    ASSUME TickInv, LoopFree
    PROVE  /\ callStack = <<>>
           /\ MainProofs!HasInstruction(sequence, pc) =>
                 ~ MainProofs!CallsInternal /\ ~ MainProofs!WaitsForCall
<1>1. MainProofs!TypeOK
  BY DEF TickInv, MainProofs!SimInv
<1>2. \A call \in calls : call.callee \in Externals /\ call.callee \notin Functions
  BY FunctionsAssumption DEF LoopFree, TakesOneCycle
<1>3. ASSUME callStack # <<>>
      PROVE  FALSE
  <2>1. callStack \in Seq(MainProofs!CallFrame)
    BY <1>1 DEF MainProofs!TypeOK
  <2>2. Len(callStack) \in Nat \ {0} /\ DOMAIN callStack = 1 .. Len(callStack)
    BY <1>3, <2>1, EmptySeq, LenProperties
  <2>3. 1 \in DOMAIN callStack
    BY <2>2
  <2>4. \E call \in calls : call.callee \in Functions
    BY <2>3 DEF TickInv, FramesReturnAfterBuiltCalls
  <2> QED BY <1>2, <2>4
<1>4. ASSUME MainProofs!HasInstruction(sequence, pc),
             MainProofs!Current.isaName = "FuncCall",
             ~ MainProofs!Current.isExternal \/ MainProofs!WaitsForCall
      PROVE  FALSE
  <2> DEFINE isa == GetInstructionByPC(built, pc)
  <2>1. pc \in Int /\ HasInstruction(sequence, pc)
    BY <1>1, <1>4, SameLookup DEF MainProofs!TypeOK
  <2>2. /\ sequence = built
        /\ isa.isaName = "FuncCall" =>
              \E call \in calls : call.pc = pc /\ BuilderProofs!CallRecorded(isa, call)
    BY <2>1, CallOfProgram DEF TickInv
  <2>3. MainProofs!Current = isa
    BY <2>2, SameLookup DEF MainProofs!Current
  <2> HIDE DEF isa
  <2>4. PICK call \in calls : BuilderProofs!CallRecorded(isa, call)
    BY <1>4, <2>2, <2>3
  <2>5. /\ isa.isExternal
        /\ ExternalInfo[call.callee] = [unit |-> isa.targetUnit, latency |-> isa.latency]
    BY <1>2, <2>4 DEF BuilderProofs!CallRecorded
  <2>6. isa.latency <= 1 \/ (asyncMode /\ isa.targetUnit # "Scalar")
    BY <2>5 DEF LoopFree, TakesOneCycle
  <2>7. ~ (asyncMode /\ isa.targetUnit # "Scalar") /\ isa.latency > 1
    BY <1>4, <2>3, <2>5 DEF MainProofs!WaitsForCall, MainProofs!RunsOnUnit
  <2>8. isa.latency \in Nat
    <3>1. ExternalInfo[call.callee] \in [unit : ExecutionUnitType, latency : Nat]
      BY <1>2, InputsAssumption
    <3> QED BY <2>5, <3>1
  <2> QED BY <2>6, <2>7, <2>8
<1> QED BY <1>3, <1>4 DEF MainProofs!CallsInternal, MainProofs!WaitsForCall

LEMMA PacedStep == TickInv /\ TickInv' /\ Paced /\ [ModuleNext]_ModuleVars => Paced'
<1> SUFFICES ASSUME TickInv, TickInv', Paced, [ModuleNext]_ModuleVars, LoopFree'
             PROVE  (halted' \/ cycle' <= pc') /\ cycle' <= Len(built')
  BY DEF Paced
<1>0. /\ pc \in Nat /\ cycle \in Nat /\ pc' \in Nat /\ cycle' \in Nat
      /\ Len(built') \in Nat
  BY LenProperties
    DEF TickInv, MainProofs!SimInv, MainProofs!TypeOK, BuiltInv, BuilderProofs!TypeOK
<1>1. CASE cycle' = 0
  BY <1>0, <1>1
<1>2. CASE UNCHANGED <<builderVars, cycle, pc, halted, asyncMode>>
  BY <1>2 DEF Paced, LoopFree, TakesOneCycle, builderVars
<1>3. CASE /\ stage = "running" /\ MainProofs!Tick
           /\ stage' = stage /\ UNCHANGED builderVars
  <2>1. MainProofs!TypeOK /\ ~ blocked
    BY DEF TickInv, MainProofs!SimInv, MainProofs!Unblocked
  <2>2. ~ halted
    BY <1>3
      DEF MainProofs!Tick, MainProofs!IdleTick, MainProofs!ExecuteOperation,
          MainProofs!ExecuteForStep, MainProofs!TakeJump, MainProofs!TakeBranch,
          MainProofs!CallExternal, MainProofs!CallInternal, MainProofs!ReturnToCaller,
          MainProofs!ReturnAndHalt, MainProofs!Executes, MainProofs!Ticking
  <2>3. /\ asyncMode' = asyncMode
        /\ \/ halted' /\ cycle' = cycle + 1
           \/ /\ MainProofs!HasInstruction(sequence, pc) /\ MainProofs!Moves
              /\ cycle' = cycle + 1 \/ MainProofs!WaitsForCall
           \/ MainProofs!HasInstruction(sequence, pc) /\ MainProofs!CallsInternal
           \/ callStack # <<>>
    BY <1>3, <2>1, MainAssumptions, MainProofs!TickMoves
  <2>4. LoopFree /\ built' = built
    BY <1>3, <2>3 DEF LoopFree, TakesOneCycle, builderVars
  <2>5. cycle <= pc /\ pc < Len(built)
    <3>1. sequence = built /\ pc < Len(sequence)
      BY <1>3, <2>2 DEF TickInv, Handover, MainProofs!SimInv, MainProofs!InProgram
    <3> QED BY <2>2, <2>4, <3>1 DEF Paced
  <2>6. CASE halted' /\ cycle' = cycle + 1
    BY <1>0, <2>4, <2>5, <2>6
  <2>7. CASE MainProofs!HasInstruction(sequence, pc) /\ MainProofs!Moves /\ cycle' = cycle + 1
    <3>1. pc < pc' \/ RunsAgain(pc, pc')
      BY <1>3, <2>7, MovesForward
    <3>2. pc < pc'
      BY <2>4, <3>1 DEF RunsAgain, LoopFree
    <3> QED BY <1>0, <2>4, <2>5, <2>7, <3>2
  <2> QED BY <2>3, <2>4, <2>6, <2>7, CallsTakeOneCycle
<1> QED BY <1>1, <1>2, <1>3, ClockTicks

(***************************************************************************)
(* A module without loops ends: if its calls take one cycle each, its      *)
(* simulation takes no more cycles than the program has instructions,      *)
(* whatever the branches taken, and every tick takes at least one.         *)
(***************************************************************************)
THEOREM LoopFreeModulesAlwaysEnd == ModuleSpec => []LoopFreeModulesEnd
<1>1. ModuleInit => Paced
  <2> SUFFICES ASSUME ModuleInit
               PROVE  Paced
    OBVIOUS
  <2>1. cycle = 0 /\ pc = 0 /\ built = <<>>
    BY DEF ModuleInit, Main!SimInit, Main!Init, Builder!Init
  <2> QED BY <2>1, EmptySeq DEF Paced
<1>2. Paced => LoopFreeModulesEnd
  BY DEF Paced, LoopFree, LoopFreeModulesEnd
<1> QED BY <1>1, <1>2, PacedStep, TickInvariant, PTL DEF ModuleSpec, ModuleVars

=============================================================================
