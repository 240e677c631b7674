------------------------------- MODULE HivmIsas -------------------------------
(***************************************************************************)
(* The memref and hivm instructions of HivmIsas.h: the unit and latency of *)
(* each, from the sizes of its operands, and what execute() does to the    *)
(* buffers of the context (memrefData).                                    *)
(*                                                                         *)
(* The elements of a buffer are worked on one by one and all alike, so one *)
(* datum stands for them, cut off by the buffer's size; the f16 arithmetic *)
(* on it is a parameter.  Nothing checks that the operands of an operation *)
(* have one type: a buffer's size is that of what was put into it.         *)
(***************************************************************************)
EXTENDS ExecutionUnits

LOCAL INSTANCE Functions

CONSTANTS
    Memref,     \* the SSA values of memref type
    Shape,      \* the shape of each type; a dynamic dimension is negative
    Element,    \* the element type of each type
    Data,       \* what a buffer can hold
    Zeros,      \* a cleared buffer
    TestData,   \* 0, 1, 2, ...: what a load invents for an unknown source
    Sums,       \* APFloat::add on two buffers
    Products,   \* APFloat::multiply on two buffers
    NoData      \* hasMemrefData is false

ElementType == {"f16", "f32", "i8", "i1", "index"}

ASSUME MemrefAssumption ==
    /\ Shape \in [Memref -> Seq(Int)]
    /\ Element \in [Memref -> ElementType]

ASSUME DataAssumption ==
    /\ Zeros \in Data /\ TestData \in Data
    /\ Sums \in [Data \X Data -> Data]
    /\ Products \in [Data \X Data -> Data]

\* The operands of an alloc are its result alone.
HivmOp == [op       : {"alloc", "load", "store", "vadd", "vmul", "matmul"},
           operands : Seq(Memref)]

-----------------------------------------------------------------------------
\* getMemrefNumElements: dimensions that are zero or dynamic count once.
NumElements(v) ==
    FoldFunction(LAMBDA m, n : m * n, 1,
                 [i \in DOMAIN Shape[v] |->
                     IF Shape[v][i] > 0 THEN Shape[v][i] ELSE 1])

\* Whole bytes per element; what is neither integer nor float has none.
ElementSize(type) ==
    CASE type = "f16" -> 2
      [] type = "f32" -> 4
      [] type = "i8"  -> 1
      [] type \in {"i1", "index"} -> 0

MemrefSize(v) == NumElements(v) * ElementSize(Element[v])

\* getExecutionUnit, and the unit in getHardwareCharacteristics.
HivmUnit(op) ==
    CASE op = "alloc"              -> "Scalar"
      [] op \in {"load", "store"}  -> "MTE"
      [] op \in {"vadd", "vmul"}   -> "Vec"
      [] op = "matmul"             -> "Cube"

\* getHardwareCharacteristics().latency, in cycles.
HivmLatency(isa) ==
    LET operand == isa.operands
        n == Len(operand)
    IN
    CASE isa.op = "alloc"  -> 1
      [] isa.op = "load"   -> IF n >= 2 THEN 5 + MemrefSize(operand[2]) \div 1024 ELSE 10
      [] isa.op = "store"  -> IF n >= 1 THEN 5 + MemrefSize(operand[1]) \div 1024 ELSE 10
      [] isa.op = "vadd"   -> IF n >= 3 THEN 2 + MemrefSize(operand[3]) \div 2048 ELSE 5
      [] isa.op = "vmul"   -> IF n >= 3 THEN 3 + MemrefSize(operand[3]) \div 1024 ELSE 5
      [] isa.op = "matmul" ->
            IF n >= 2
            THEN 10 + (MemrefSize(operand[1]) + MemrefSize(operand[2])) \div 512
            ELSE 20

-----------------------------------------------------------------------------
Buffer == [size : Nat, data : Data]

Memory == [Memref -> Buffer \cup {NoData}]

HasData(memory, v) == memory[v] # NoData

IsF16(v) == Element[v] = "f16"

Cleared(v) == [size |-> MemrefSize(v), data |-> Zeros]

\* What a load leaves in dst for a source that nothing has written.
Invented(dst) ==
    [size |-> MemrefSize(dst), data |-> IF IsF16(dst) THEN TestData ELSE Zeros]

\* Mutant of LoadExecute: a load always brings fresh test data.
LoadInventsAlways(src, dst, memory) == [memory EXCEPT ![dst] = Invented(dst)]

\* Mutant of LoadExecute: the invented buffer has an element count for a size.
LoadCountsElements(src, dst, memory) ==
    [memory EXCEPT ![dst] =
        IF HasData(memory, src) THEN memory[src]
        ELSE [Invented(dst) EXCEPT !.size = NumElements(dst)]]

LoadExecute(src, dst, memory) ==
    [memory EXCEPT ![dst] = IF HasData(memory, src) THEN memory[src] ELSE Invented(dst)]

\* A source without data is not stored; the destination keeps what it has.
StoreExecute(src, dst, memory) ==
    IF HasData(memory, src) THEN [memory EXCEPT ![dst] = memory[src]] ELSE memory

(***************************************************************************)
(* vadd and vmul: a cleared buffer as large as the first operand's, into   *)
(* which the elements of dst's type are computed if they are f16.  Where   *)
(* these are not all of the buffer the rest stays cleared, and no one      *)
(* datum stands for the whole: it can be any.                              *)
(***************************************************************************)
VectorData(table, a, b, dst) ==
    IF ~ IsF16(dst) THEN {Zeros}
    ELSE IF NumElements(dst) * ElementSize("f16") = a.size THEN {table[<<a.data, b.data>>]}
    ELSE Data

\* Nothing is done when an operand has no data.
VectorOutcomes(table, srcA, srcB, dst, memory) ==
    IF HasData(memory, srcA) /\ HasData(memory, srcB)
    THEN {[memory EXCEPT ![dst] = [size |-> memory[srcA].size, data |-> x]] :
             x \in VectorData(table, memory[srcA], memory[srcB], dst)}
    ELSE {memory}

\* matmul: a cleared result stands for the product.
MatmulExecute(srcA, srcB, dst, memory) ==
    IF HasData(memory, srcA) /\ HasData(memory, srcB)
    THEN [memory EXCEPT ![dst] = Cleared(dst)]
    ELSE memory

\* How many operands execute() asks for before it does anything.
Arity(op) == CASE op = "alloc" -> 1
               [] op \in {"load", "store"} -> 2
               [] op \in {"vadd", "vmul", "matmul"} -> 3

\* What execute() can leave of the buffers.
HivmOutcomes(isa, memory) ==
    LET operand == isa.operands IN
    IF Len(operand) < Arity(isa.op) THEN {memory}
    ELSE CASE isa.op = "alloc" -> {[memory EXCEPT ![operand[1]] = Cleared(operand[1])]}
           [] isa.op = "load"  -> {LoadExecute(operand[1], operand[2], memory)}
           [] isa.op = "store" -> {StoreExecute(operand[1], operand[2], memory)}
           [] isa.op = "vadd"  ->
                VectorOutcomes(Sums, operand[1], operand[2], operand[3], memory)
           [] isa.op = "vmul"  ->
                VectorOutcomes(Products, operand[1], operand[2], operand[3], memory)
           [] isa.op = "matmul" ->
                {MatmulExecute(operand[1], operand[2], operand[3], memory)}

-----------------------------------------------------------------------------
(***************************************************************************)
(* The memory accesses of execute(): the elements of the destination's     *)
(* type are walked over in f16 buffers that may have another size.         *)
(***************************************************************************)
Covers(memory, v, dst) ==
    HasData(memory, v) => NumElements(dst) * ElementSize("f16") <= memory[v].size

AccessesFit(isa, memory) ==
    LET operand == isa.operands IN
    Len(operand) >= Arity(isa.op) =>
        CASE isa.op = "store" ->
                IsF16(operand[2]) => Covers(memory, operand[1], operand[2])
          [] isa.op \in {"vadd", "vmul"} ->
                IsF16(operand[3]) /\ HasData(memory, operand[1]) /\ HasData(memory, operand[2])
                    => /\ Covers(memory, operand[1], operand[3])
                       /\ Covers(memory, operand[2], operand[3])
          [] OTHER -> TRUE

=============================================================================
