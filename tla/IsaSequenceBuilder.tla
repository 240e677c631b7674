-------------------------- MODULE IsaSequenceBuilder --------------------------
(***************************************************************************)
(* IsaSequenceBuilder::buildFromMLIR: one pass over the functions of a     *)
(* module that turns structured control flow (scf.for, scf.if) into a      *)
(* linear program.                                                         *)
(*                                                                         *)
(* The module being read is not a datum of the model.  The pass meets its  *)
(* operations in order, so each action is one thing met next: an           *)
(* operation, a call, the start of a loop or an if, the terminator of a    *)
(* body or a branch, a return.  What is met is any choice that the MLIR    *)
(* verifier allows, so the behaviours are the builds of all modules.  The  *)
(* recursion of flattenSCFFor and flattenSCFIfNested is the stack `open'   *)
(* of constructs begun and not ended.                                      *)
(***************************************************************************)
EXTENDS IsaSequence

CONSTANTS
    Functions,      \* the functions of the module that have a body
    Externals,      \* the functions it only declares, or does not know
    ExternalInfo,   \* unit and latency of an external, from the configuration
    Ops,            \* what createIsa and decode make of plain operations
    Loops,          \* the headers of scf.for operations
    Conditions,     \* the conditions of scf.if operations
    YieldOperands,  \* the operand lists of scf.yield operations
    MaxSize,        \* bound of the model: nothing begins at this size
    MaxNesting      \* bound of the model: constructs open in one function

LoopHeader == [iv : Value, lb : Value, ub : Value, step : Value,
               iterArgs : Seq(Value), iterArgInits : Seq(Value)]

ASSUME FunctionsAssumption == Functions \cap Externals = {}

ASSUME InputsAssumption ==
    /\ ExternalInfo \in [Externals -> [unit : ExecutionUnitType, latency : Nat]]
    /\ Ops \subseteq {isa \in Instruction : isa.isaName = "Operation"}
    /\ Loops \subseteq {loop \in LoopHeader :
                            Len(loop.iterArgs) = Len(loop.iterArgInits)}
    /\ Conditions \subseteq Value
    /\ YieldOperands \subseteq Seq(Value)

ASSUME SizesAssumption == MaxSize \in Nat /\ MaxNesting \in Nat

VARIABLES
    sequence,   \* the program so far
    nextPC,     \* the builder's own counter, apart from the program's size
    open,       \* the constructs begun and not ended, innermost last
    entries,    \* history: the PC at which each function's code begins
    calls,      \* history: the callee of each call, by PC
    closed      \* history: the loops and ifs that are complete

vars == <<sequence, nextPC, open, entries, calls, closed>>

(***************************************************************************)
(* The locals of one flattening: which part is being read, the PC of the   *)
(* condition, the loop's header fields, and the iteration arguments that   *)
(* yields in it assign (an if inherits them from around it).               *)
(***************************************************************************)
Frame == [part     : {"func", "body", "then", "else"},
          condPC   : Nat,
          elsePC   : Nat,
          hasElse  : BOOLEAN,
          results  : Nat,
          iv       : Value,
          step     : Value,
          iterArgs : Seq(Value)]

Construct == [kind : {"for", "if"}, condPC : Nat, elsePC : Nat, endPC : Nat]

TypeOK ==
    /\ sequence \in Seq(Instruction)
    /\ nextPC \in Nat
    /\ open \in Seq(Frame)
    /\ entries \subseteq [function : Functions, pc : Nat]
    /\ calls \subseteq [callee : Functions \cup Externals, pc : Nat]
    /\ closed \subseteq Construct

Init ==
    /\ sequence = <<>>
    /\ nextPC = 0
    /\ open = <<>>
    /\ entries = {}
    /\ calls = {}
    /\ closed = {}

-----------------------------------------------------------------------------
Top == open[Len(open)]

Pop == SubSeq(open, 1, Len(open) - 1)

\* setPC(allocatePC()) for each of some instructions, in order.
Numbered(isas) == [i \in DOMAIN isas |-> [isas[i] EXCEPT !.pc = nextPC + i - 1]]

\* The program with some instructions added, each at the next PC.
With(isas) == sequence \o Numbered(isas)

Emit(isas) ==
    /\ sequence' = With(isas)
    /\ nextPC' = nextPC + Len(isas)

InPart(part) == open # <<>> /\ Top.part = part

\* The pass is inside a function and may still begin something.
Reading == open # <<>> /\ Len(sequence) < MaxSize

FuncFrame(entry) ==
    LET null == CHOOSE v \in Value : TRUE IN
    [part |-> "func", condPC |-> entry, elsePC |-> 0, hasElse |-> FALSE,
     results |-> 0, iv |-> null, step |-> null, iterArgs |-> <<>>]

\* flattenFuncOp meets the next function with a body.
FlattenFuncOp(function) ==
    /\ open = <<>>
    /\ Len(sequence) < MaxSize
    /\ \A entry \in entries : entry.function # function
    /\ open' = <<FuncFrame(nextPC)>>
    /\ entries' = entries \cup {[function |-> function, pc |-> nextPC]}
    /\ UNCHANGED <<sequence, nextPC, calls, closed>>

\* Mutant of AddNormalOp: an operation without an instruction takes a PC.
UnknownOpTakesPC(op) ==
    /\ Reading
    /\ \/ Emit(<<op>>)
       \/ sequence' = sequence /\ nextPC' = nextPC + 1
    /\ UNCHANGED <<open, entries, calls, closed>>

(***************************************************************************)
(* addNormalOp for everything but a call and a return.                     *)
(***************************************************************************)
AddNormalOp(op) ==
    /\ Reading
    /\ Emit(<<op>>)
    /\ UNCHANGED <<open, entries, calls, closed>>

\* FuncCallIsa::decode and the hardware characteristics of a call.
FuncCall(callee) ==
    IF callee \in Externals
    THEN [NewInstruction("FuncCall") EXCEPT
            !.isExternal = TRUE,
            !.targetUnit = ExternalInfo[callee].unit,
            !.latency    = ExternalInfo[callee].latency]
    ELSE [NewInstruction("FuncCall") EXCEPT !.latency = 5]

\* addNormalOp for a call; nothing sets its jump target.
AddCall(callee) ==
    /\ Reading
    /\ Emit(<<FuncCall(callee)>>)
    /\ calls' = calls \cup {[callee |-> callee, pc |-> nextPC]}
    /\ UNCHANGED <<open, entries, closed>>

\* addNormalOp for the return at the end of a function.
AddReturn ==
    /\ InPart("func")
    /\ Emit(<<NewInstruction("FuncReturn")>>)
    /\ open' = Pop
    /\ UNCHANGED <<entries, calls, closed>>

-----------------------------------------------------------------------------
ForInit(loop) ==
    [NewInstruction("ForInit") EXCEPT
        !.forIV = loop.iv, !.forLB = loop.lb, !.forUB = loop.ub,
        !.forStep = loop.step,
        !.iterArgs = loop.iterArgs, !.iterArgInits = loop.iterArgInits]

ForCondition(loop) ==
    [NewInstruction("ForCondition") EXCEPT
        !.forIV = loop.iv, !.forUB = loop.ub, !.forStep = loop.step]

\* Mutant of BodyFrame: condPC counts back from a counter not yet advanced.
CondPCUnderflows(loop) ==
    [FuncFrame(nextPC - 1) EXCEPT
        !.part = "body", !.iv = loop.iv, !.step = loop.step,
        !.iterArgs = loop.iterArgs]

\* Mutant of BodyFrame: yields still assign the arguments of the loop around.
KeepsOuterIterArgs(loop) ==
    [FuncFrame(nextPC + 1) EXCEPT
        !.part = "body", !.iv = loop.iv, !.step = loop.step,
        !.iterArgs = IF Top.iterArgs = <<>> THEN loop.iterArgs ELSE Top.iterArgs]

BodyFrame(loop) ==
    [FuncFrame(nextPC + 1) EXCEPT
        !.part = "body", !.iv = loop.iv, !.step = loop.step,
        !.iterArgs = loop.iterArgs]

\* flattenSCFFor up to the first operation of the body.
BeginFor(loop) ==
    /\ Reading
    /\ Len(open) <= MaxNesting
    /\ Emit(<<ForInit(loop), ForCondition(loop)>>)
    /\ open' = Append(open, BodyFrame(loop))
    /\ UNCHANGED <<entries, calls, closed>>

\* Mutant of YieldAssigns: the last operand is assigned first.
YieldsLastFirst(operands) ==
    LET n == IF Len(operands) < Len(Top.iterArgs) THEN Len(operands) ELSE Len(Top.iterArgs)
    IN  [i \in 1 .. n |->
            [NewInstruction("YieldAssign") EXCEPT
                !.condition = operands[n + 1 - i], !.forIV = Top.iterArgs[n + 1 - i]]]

\* One YieldAssign for each operand that has an iteration argument.
YieldAssigns(operands) ==
    [i \in 1 .. (IF Len(operands) < Len(Top.iterArgs)
                 THEN Len(operands) ELSE Len(Top.iterArgs)) |->
        [NewInstruction("YieldAssign") EXCEPT
            !.condition = operands[i], !.forIV = Top.iterArgs[i]]]

\* Mutant of LoopEnd: the jump goes back to ForInit, not to the condition.
JumpsBackToInit(operands) ==
    YieldAssigns(operands)
        \o <<[NewInstruction("ForIncrement") EXCEPT
                !.forIV = Top.iv, !.forStep = Top.step],
             [NewInstruction("Jump") EXCEPT !.jumpTarget = Top.condPC - 1]>>

\* The code that ends a loop: the yields, the step and the jump back.
LoopEnd(operands) ==
    YieldAssigns(operands)
        \o <<[NewInstruction("ForIncrement") EXCEPT
                !.forIV = Top.iv, !.forStep = Top.step],
             [NewInstruction("Jump") EXCEPT !.jumpTarget = Top.condPC]>>

(***************************************************************************)
(* A construct ends: its condition is patched to enter behind itself or to *)
(* go to falsePC.                                                          *)
(***************************************************************************)
Close(kind, code, falsePC, end) ==
    /\ sequence' = UpdateConditionalJump(code, Top.condPC, Top.condPC + 1, falsePC)
    /\ nextPC' = end
    /\ open' = Pop
    /\ closed' = closed \cup {[kind |-> kind, condPC |-> Top.condPC,
                               elsePC |-> falsePC, endPC |-> end]}
    /\ UNCHANGED <<entries, calls>>

\* Mutant of EndFor: the loop is left one instruction too late.
AfterLoopTooFar(operands) ==
    /\ InPart("body")
    /\ Len(operands) = Len(Top.iterArgs)
    /\ LET end == nextPC + Len(LoopEnd(operands)) IN
          Close("for", With(LoopEnd(operands)), end + 1, end)

(***************************************************************************)
(* The rest of flattenSCFFor, from the yield of the body.  The verifier    *)
(* asks for one operand per iteration argument.                            *)
(***************************************************************************)
EndFor(operands) ==
    /\ InPart("body")
    /\ Len(operands) = Len(Top.iterArgs)
    /\ LET end == nextPC + Len(LoopEnd(operands)) IN
          Close("for", With(LoopEnd(operands)), end, end)

-----------------------------------------------------------------------------
(***************************************************************************)
(* flattenSCFIfNested up to the first operation of the then part.  An if   *)
(* with results has an else part (the verifier again), and assigns to the  *)
(* iteration arguments of the loop around it.                              *)
(***************************************************************************)
BeginIf(condition, hasElse, results) ==
    /\ Reading
    /\ Len(open) <= MaxNesting
    /\ results > 0 => hasElse
    /\ Emit(<<[NewInstruction("IfCondition") EXCEPT !.condition = condition]>>)
    /\ open' = Append(open, [FuncFrame(nextPC) EXCEPT
                                !.part = "then", !.hasElse = hasElse,
                                !.results = results, !.iterArgs = Top.iterArgs])
    /\ UNCHANGED <<entries, calls, closed>>

\* The yield of a branch: assignments to the loop around, or an IfYield.
IfYields(operands) ==
    YieldAssigns(operands)
        \o (IF Top.iterArgs = <<>> /\ operands # <<>>
            THEN <<NewInstruction("IfYield")>> ELSE <<>>)

\* The then part ends and the else part begins.
EndThen(operands) ==
    /\ InPart("then") /\ Top.hasElse
    /\ Len(operands) = Top.results
    /\ Emit(IfYields(operands))
    /\ open' = [open EXCEPT ![Len(open)] =
                   [@ EXCEPT !.part = "else",
                             !.elsePC = nextPC + Len(IfYields(operands))]]
    /\ UNCHANGED <<entries, calls, closed>>

\* The then part ends an if that has no else part.
EndIf ==
    /\ InPart("then") /\ ~ Top.hasElse
    /\ Close("if", sequence, nextPC, nextPC)

\* The code that ends an else part: the yields, and a jump to be patched.
ElseEnd(operands) == IfYields(operands) \o <<NewInstruction("Jump")>>

\* Mutant of EndElse: the jump at the end is never patched.
ElseJumpUnpatched(operands) ==
    /\ InPart("else")
    /\ Len(operands) = Top.results
    /\ Close("if", With(ElseEnd(operands)),
             Top.elsePC, nextPC + Len(ElseEnd(operands)))

\* Mutant of EndElse: the jump patched is the last one of the then part.
PatchesJumpBeforeElse(operands) ==
    /\ InPart("else")
    /\ Len(operands) = Top.results
    /\ LET end == nextPC + Len(ElseEnd(operands)) IN
          Close("if", UpdateJumpTarget(With(ElseEnd(operands)), Top.elsePC - 1, end),
                Top.elsePC, end)

(***************************************************************************)
(* The else part ends.  The jump over the else part is added here, after   *)
(* it, and so jumps to the instruction that follows it.                    *)
(***************************************************************************)
EndElse(operands) ==
    /\ InPart("else")
    /\ Len(operands) = Top.results
    /\ LET end == nextPC + Len(ElseEnd(operands)) IN
          Close("if", UpdateJumpTarget(With(ElseEnd(operands)), end - 1, end),
                Top.elsePC, end)

Next ==
    \/ \E function \in Functions : FlattenFuncOp(function)
    \/ \E op \in Ops : AddNormalOp(op)
    \/ \E callee \in Functions \cup Externals : AddCall(callee)
    \/ AddReturn
    \/ \E loop \in Loops : BeginFor(loop)
    \/ \E condition \in Conditions, hasElse \in BOOLEAN, operands \in YieldOperands :
          BeginIf(condition, hasElse, Len(operands))
    \/ \E operands \in YieldOperands :
          EndFor(operands) \/ EndThen(operands) \/ EndElse(operands)
    \/ EndIf

Spec == Init /\ [][Next]_vars

-----------------------------------------------------------------------------
(***************************************************************************)
(* Properties.                                                             *)
(***************************************************************************)

(***************************************************************************)
(* The builder's counter and the program never drift apart: every PC that  *)
(* was handed out went to the instruction at that position.  Jump targets  *)
(* are computed from the counter and looked up in the program.             *)
(***************************************************************************)
CounterIsSize == nextPC = Len(sequence) /\ DensePCs(sequence)

(***************************************************************************)
(* Between functions the program is one the executor never leaves: every   *)
(* target lies inside it and control does not fall off its end.            *)
(***************************************************************************)
CompleteIsWellFormed == open = <<>> => WellFormed(sequence)

At(p) == sequence[p + 1]

(***************************************************************************)
(* Every complete loop, however it is nested, tests and steps its own      *)
(* variable: initialisation and condition share variable and bound, the    *)
(* condition enters the body or goes behind the jump, which comes back to  *)
(* the condition after an increment by the loop's step.                    *)
(***************************************************************************)
LoopsClosed ==
    \A c \in {d \in closed : d.kind = "for"} :
        LET init == At(c.condPC - 1)
            cond == At(c.condPC)
            inc  == At(c.endPC - 2)
            back == At(c.endPC - 1)
        IN
        /\ init.isaName = "ForInit" /\ cond.isaName = "ForCondition"
        /\ inc.isaName = "ForIncrement" /\ back.isaName = "Jump"
        /\ init.forIV = cond.forIV /\ inc.forIV = cond.forIV
        /\ init.forUB = cond.forUB /\ init.forStep = inc.forStep
        /\ cond.jumpTarget = c.condPC + 1 /\ cond.fallthroughPC = c.endPC
        /\ back.jumpTarget = c.condPC

\* The PCs that control can go to from an instruction, calls left out.
Successors(isa) ==
    CASE isa.isaName = "Jump"                  -> {isa.jumpTarget}
      [] isa.isaName \in {"ConditionalJump", "ForCondition", "IfCondition"}
                                               -> {isa.jumpTarget, isa.fallthroughPC}
      [] isa.isaName \in {"Return", "FuncReturn"} -> {}
      [] OTHER                                 -> {isa.pc + 1}

Inside(p, c) == c.condPC <= p /\ p < c.endPC

(***************************************************************************)
(* Complete constructs nest, and each is entered at its condition only and *)
(* left for the instruction behind it only: no jump goes into the middle   *)
(* of a loop or a branch, or out of one past its end.                      *)
(***************************************************************************)
SingleEntryExit ==
    /\ \A c, d \in closed :
          \/ Inside(c.condPC, d) /\ c.endPC <= d.endPC
          \/ Inside(d.condPC, c) /\ d.endPC <= c.endPC
          \/ c.endPC <= d.condPC
          \/ d.endPC <= c.condPC
    /\ \A c \in closed, p \in 0 .. Len(sequence) - 1 :
          \A q \in Successors(At(p)) :
              /\ Inside(q, c) /\ ~ Inside(p, c) => q = c.condPC
              /\ Inside(p, c) /\ ~ Inside(q, c) => q = c.endPC

(***************************************************************************)
(* Control goes back at the end of a complete loop only, to that loop's    *)
(* condition: whatever else is patched or falls through goes forward, the  *)
(* conditions aside that are still to be patched.                          *)
(***************************************************************************)
OnlyLoopsGoBack ==
    \A p \in 0 .. Len(sequence) - 1 : \A q \in Successors(At(p)) :
        \/ p < q
        \/ \E i \in 2 .. Len(open) : open[i].condPC = p
        \/ \E c \in closed : c.kind = "for" /\ p = c.endPC - 1 /\ q = c.condPC

(***************************************************************************)
(* A yield, its own or that of an if inside, assigns to the iteration      *)
(* arguments of the innermost loop around it.                              *)
(***************************************************************************)
YieldsAssignInnermost ==
    \A p \in {q \in 0 .. Len(sequence) - 1 : At(q).isaName = "YieldAssign"} :
        LET around == {c \in closed : c.kind = "for" /\ Inside(p, c)} IN
        \A c \in around :
            (\A d \in around : d.condPC <= c.condPC) =>
                \E i \in DOMAIN At(c.condPC - 1).iterArgs :
                    At(c.condPC - 1).iterArgs[i] = At(p).forIV

(***************************************************************************)
(* Targets are patched into code emitted long before.  A step changes no   *)
(* instruction that is there but one: the condition of the construct that  *)
(* ends with the step, which gets that construct's targets and keeps all   *)
(* else.                                                                   *)
(***************************************************************************)
Retarget(isa, truePC, falsePC) ==
    [isa EXCEPT !.jumpTarget = truePC, !.fallthroughPC = falsePC]

EmittedCodeIsFinal ==
    [][ /\ Len(sequence) <= Len(sequence')
        /\ \A p \in 0 .. Len(sequence) - 1 :
              \/ At(p)' = At(p)
              \/ \E c \in closed' \ closed :
                    /\ c.condPC = p
                    /\ At(p)' = Retarget(At(p), p + 1, c.elsePC) ]_vars

=============================================================================
