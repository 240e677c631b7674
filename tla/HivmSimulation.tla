--------------------------- MODULE HivmSimulation ---------------------------
(***************************************************************************)
(* The simulation of a kernel: main.cpp drives the executor, and an        *)
(* instruction of HivmIsas, when it executes, also acts on the buffers.    *)
(* It does so at once, while the task that stands for its latency is still *)
(* in flight on its unit.                                                  *)
(*                                                                         *)
(* The operands of an operation can be of different types: the parser      *)
(* takes it as an unregistered operation, and execute() does not compare.  *)
(***************************************************************************)
EXTENDS Simulation, HivmIsas

CONSTANTS
    Inputs,     \* the memrefs in global memory: arguments of the function
    Kernels,    \* the programs, each line with its hivm operation if it has one
    NoOp,       \* the line is not a memref or hivm operation
    Undefined   \* the kernel leaves the contents of a buffer open

KernelLine == [isa : Instruction, hivm : HivmOp \cup {NoOp}]

\* The instruction that stands for an operation on buffers.
HivmInstruction(op) ==
    [NewInstruction("Operation") EXCEPT
        !.targetUnit = HivmUnit(op.op), !.latency = HivmLatency(op)]

Program(lines) ==
    [i \in DOMAIN lines |->
        [(IF lines[i].hivm = NoOp THEN lines[i].isa ELSE HivmInstruction(lines[i].hivm))
            EXCEPT !.pc = i - 1]]

ASSUME KernelsAssumption ==
    /\ Inputs \subseteq Memref
    /\ Kernels \subseteq Seq(KernelLine)
    /\ NoOp \notin HivmOp
    /\ NoData \notin Buffer
    /\ Undefined \notin Data
    /\ \A lines \in Kernels : Program(lines) \in Programs

\* The fold of NumElements counts: stated, since proofs cannot unfold it.
ASSUME SizesAssumption == \A v \in Memref : NumElements(v) \in Nat

VARIABLES
    kernel,     \* the lines of the loaded program
    memory,     \* ctx.memrefData
    outside,    \* execute() has walked on beyond the end of a buffer
    meant       \* history: what each buffer holds by the kernel's meaning

hivmVars == <<simVars, kernel, memory, outside, meant>>

Contents == Data \cup {Undefined}

\* The test data an input is taken to hold from the start.
InputData(v) == IF IsF16(v) THEN TestData ELSE Zeros

HivmInit ==
    /\ SimInit
    /\ kernel = <<>>
    /\ memory = [v \in Memref |-> NoData]
    /\ outside = FALSE
    /\ meant = [v \in Memref |-> IF v \in Inputs THEN InputData(v) ELSE Undefined]

-----------------------------------------------------------------------------
(***************************************************************************)
(* The meaning of an operation, for a reader who takes the inputs to be    *)
(* there from the start.  It is open when the operands are not all of one  *)
(* type, and when an input is read by anything but a load: until the first *)
(* load execute() takes it for missing.  What is not f16 is not computed,  *)
(* and matmul is not either: a cleared buffer stands for the result.       *)
(***************************************************************************)
SameType(u, v) == Shape[u] = Shape[v] /\ Element[u] = Element[v]

CopyMeaning(src, dst, contents) ==
    IF SameType(src, dst) THEN contents[src] ELSE Undefined

Local(src, contents) == src \notin Inputs /\ contents[src] # Undefined

StoreMeaning(src, dst, contents) ==
    IF Local(src, contents) THEN CopyMeaning(src, dst, contents) ELSE Undefined

VectorMeaning(table, srcA, srcB, dst, contents) ==
    IF /\ Local(srcA, contents) /\ Local(srcB, contents)
       /\ SameType(srcA, dst) /\ SameType(srcB, dst)
    THEN IF IsF16(dst) THEN table[<<contents[srcA], contents[srcB]>>] ELSE Zeros
    ELSE Undefined

MatmulMeaning(srcA, srcB, contents) ==
    IF Local(srcA, contents) /\ Local(srcB, contents) THEN Zeros ELSE Undefined

Meaning(op, contents) ==
    LET v == op.operands
        To(dst, x) == [contents EXCEPT ![dst] = x]
    IN
    IF Len(v) < Arity(op.op) THEN contents
    ELSE CASE op.op = "alloc"  -> To(v[1], Zeros)
           [] op.op = "load"   -> To(v[2], CopyMeaning(v[1], v[2], contents))
           [] op.op = "store"  -> To(v[2], StoreMeaning(v[1], v[2], contents))
           [] op.op = "vadd"   -> To(v[3], VectorMeaning(Sums, v[1], v[2], v[3], contents))
           [] op.op = "vmul"   -> To(v[3], VectorMeaning(Products, v[1], v[2], v[3], contents))
           [] op.op = "matmul" -> To(v[3], MatmulMeaning(v[1], v[2], contents))

-----------------------------------------------------------------------------
LoadKernel ==
    /\ stage = "constructed"
    /\ \E lines \in Kernels : kernel' = lines /\ Load(Program(lines))
    /\ stage' = "loaded"
    /\ UNCHANGED <<memory, outside, meant>>

ChooseKernelMode == ChooseMode /\ UNCHANGED <<kernel, memory, outside, meant>>

OpAt(p) == kernel[p + 1].hivm

\* tick() is about to execute an operation on buffers.
AtOp ==
    /\ stage = "running" /\ ~ halted /\ ~ Stalled
    /\ HasInstruction(sequence, pc)
    /\ OpAt(pc) # NoOp

KernelTick ==
    /\ ~ outside
    /\ RunTick
    /\ IF AtOp
       THEN /\ AccessesFit(OpAt(pc), memory)
            /\ memory' \in HivmOutcomes(OpAt(pc), memory)
            /\ meant' = Meaning(OpAt(pc), meant)
       ELSE UNCHANGED <<memory, meant>>
    /\ UNCHANGED <<kernel, outside>>

\* The walk of execute() leaves a buffer: what follows is not defined.
WalkOutside ==
    /\ ~ outside
    /\ AtOp /\ ~ AccessesFit(OpAt(pc), memory)
    /\ outside' = TRUE
    /\ UNCHANGED <<simVars, kernel, memory, meant>>

CompleteKernel == ~ outside /\ Complete /\ UNCHANGED <<kernel, memory, outside, meant>>

HivmNext == LoadKernel \/ ChooseKernelMode \/ KernelTick \/ WalkOutside \/ CompleteKernel

HivmSafety == HivmInit /\ [][HivmNext]_hivmVars

\* main() goes on while it has a step, as in SimSpec.
HivmSpec == HivmSafety /\ WF_hivmVars(HivmNext)

-----------------------------------------------------------------------------
(***************************************************************************)
(* A buffer with data holds what the kernel means it to hold, although     *)
(* inputs get their data only when something loads them and every effect   *)
(* is there before its task is complete.                                   *)
(***************************************************************************)
DataAsMeant ==
    \A v \in Memref :
        HasData(memory, v) /\ meant[v] # Undefined => memory[v].data = meant[v]

\* A copy or a vector operation reads a buffer of a type smaller than dst's.
Widens(op) ==
    LET dst == op.operands[Arity(op.op)] IN
    /\ op.op \in {"load", "store", "vadd", "vmul"}
    /\ Len(op.operands) >= Arity(op.op)
    /\ \E i \in 1 .. (Arity(op.op) - 1) : MemrefSize(op.operands[i]) < MemrefSize(dst)

(***************************************************************************)
(* The walk over the elements of the destination's type leaves a buffer    *)
(* only in a kernel that somewhere widens: in all others every buffer, by  *)
(* whatever chain of copies and results it was made, is large enough for   *)
(* every operation that reads it.  (That a kernel does not widen is not    *)
(* checked by the code.)                                                   *)
(***************************************************************************)
OnlyWideningGoesOutside ==
    outside => \E i \in DOMAIN kernel :
                  kernel[i].hivm # NoOp /\ Widens(kernel[i].hivm)

(***************************************************************************)
(* A kernel whose loops count up to their bound comes to its end, unless   *)
(* an operation walks outside.                                             *)
(***************************************************************************)
KernelsComplete == stage = "running" ~> stage = "completed" \/ outside

-----------------------------------------------------------------------------
(***************************************************************************)
(* Claims of the documentation that a run puts to the code, at the moment  *)
(* the simulation reports its total of cycles.                             *)
(***************************************************************************)
\* The operation at a task's instruction has all it needs.
Works(task) == OpAt(task.pc) # NoOp /\ Len(OpAt(task.pc).operands) >= Arity(OpAt(task.pc).op)

ReadsOf(op) == {op.operands[i] : i \in 1 .. (Arity(op.op) - 1)}

Written(op) == op.operands[Arity(op.op)]

(***************************************************************************)
(* docs/SimulatorDesign.md:91 has tick() wait for execution units to       *)
(* complete: an operation that reads a buffer does not start before the    *)
(* task that writes it has ended.                                          *)
(***************************************************************************)
ReadsAwaitWrites ==
    \A writer, reader \in {task \in activeTasks : Works(task)} :
        /\ writer.taskId < reader.taskId
        /\ Written(OpAt(writer.pc)) \in ReadsOf(OpAt(reader.pc))
        => IsComplete(writer, reader.startCycle)

\* The component table of README_SIMULATOR.md:112-116.
BaseLatency(unit) == CASE unit = "MTE" -> 10 [] unit = "Vec" -> 5 [] unit = "Cube" -> 20

BytesPerCycle(unit) == CASE unit = "MTE" -> 128 [] unit = "Vec" -> 256 [] unit = "Cube" -> 512

\* The bytes an operation moves or computes on.
DataSize(op) ==
    CASE op.op = "load"   -> MemrefSize(op.operands[2])
      [] op.op = "store"  -> MemrefSize(op.operands[1])
      [] op.op = "matmul" -> MemrefSize(op.operands[1]) + MemrefSize(op.operands[2])
      [] OTHER            -> MemrefSize(op.operands[3])

(***************************************************************************)
(* README_SIMULATOR.md:118: the latency of a task is the larger of the     *)
(* base latency and the data's size over the throughput of its component.  *)
(***************************************************************************)
LatencyFollowsModel ==
    \A task \in activeTasks :
        Works(task) =>
            LET throughput == DataSize(OpAt(task.pc)) \div BytesPerCycle(task.unit) IN
            task.duration = IF throughput > BaseLatency(task.unit)
                            THEN throughput ELSE BaseLatency(task.unit)

(***************************************************************************)
(* The reported total is the total time of the kernel (TotalCoversAllTasks *)
(* of Simulation), in which operations waited for their operands and took  *)
(* the time of the latency model.                                          *)
(***************************************************************************)
TimedAsDocumented ==
    stage = "completed" => TotalCoversAllTasks /\ ReadsAwaitWrites /\ LatencyFollowsModel

=============================================================================
