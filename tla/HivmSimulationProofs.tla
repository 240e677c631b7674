------------------------ MODULE HivmSimulationProofs ------------------------
(***************************************************************************)
(* Proofs that the buffers of a simulated kernel hold what the kernel      *)
(* means, and that only a kernel that widens walks outside a buffer, for   *)
(* every kernel, every shape and every arithmetic on the data.             *)
(***************************************************************************)
EXTENDS HivmSimulation, SimulationProofs

\* A buffer whose meaning is known has the size of its type.
KnownFit(m, c) ==
    \A v \in Memref : HasData(m, v) /\ c[v] # Undefined => m[v].size = MemrefSize(v)

Agrees(m, c) ==
    \A v \in Memref : HasData(m, v) /\ c[v] # Undefined => m[v].data = c[v]

\* What has a meaning and no data yet is an input with its initial data.
LazyInputs(m, c) ==
    \A v \in Memref : ~ HasData(m, v) /\ c[v] # Undefined =>
        v \in Inputs /\ c[v] = InputData(v)

BufferInv(m, c) ==
    /\ m \in Memory
    /\ c \in [Memref -> Contents]
    /\ KnownFit(m, c)
    /\ Agrees(m, c)
    /\ LazyInputs(m, c)

\* Every buffer is at least as large as its type.
LargeEnough(m) == \A v \in Memref : HasData(m, v) => m[v].size >= MemrefSize(v)

KernelWidens ==
    \E i \in DOMAIN kernel : kernel[i].hivm # NoOp /\ Widens(kernel[i].hivm)

\* EXCEPT as an operator, so that steps about it are first-order.
Put(f, v, x) == [f EXCEPT ![v] = x]

\* As long as no program is loaded, nothing is in the buffers.
KernelLoaded ==
    /\ stage # "constructed" => kernel \in Kernels /\ sequence = Program(kernel)
    /\ stage = "constructed" => ~ outside /\ \A v \in Memref : ~ HasData(memory, v)

(***************************************************************************)
(* The inductive invariant: what is meant holds, and unless the kernel     *)
(* widens, no buffer is too small and the walks have stayed inside.        *)
(***************************************************************************)
HivmInv ==
    /\ KernelLoaded
    /\ BufferInv(memory, meant)
    /\ ~ KernelWidens => LargeEnough(memory) /\ ~ outside

-----------------------------------------------------------------------------
(***************************************************************************)
(* The size of a buffer is a natural number.                               *)
(***************************************************************************)
LEMMA SizeType == \A v \in Memref : MemrefSize(v) \in Nat /\ NumElements(v) \in Nat
<1> SUFFICES ASSUME NEW v \in Memref
             PROVE  MemrefSize(v) \in Nat /\ NumElements(v) \in Nat
  OBVIOUS
<1>1. NumElements(v) \in Nat
  BY SizesAssumption
<1>2. Element[v] \in ElementType
  BY MemrefAssumption
<1>3. ElementSize(Element[v]) \in Nat
  BY <1>2 DEF ElementType, ElementSize
<1> QED
  BY <1>1, <1>3 DEF MemrefSize

(***************************************************************************)
(* Memrefs of one type have buffers of one size, of as many elements.      *)
(***************************************************************************)
LEMMA SameSize ==
    ASSUME NEW u \in Memref, NEW v \in Memref, SameType(u, v)
    PROVE  /\ MemrefSize(u) = MemrefSize(v)
           /\ NumElements(u) = NumElements(v)
           /\ IsF16(u) = IsF16(v)
BY Zenon DEF SameType, MemrefSize, NumElements, IsF16

(***************************************************************************)
(* A buffer of the right size with the data that is meant, or any buffer   *)
(* whose meaning is open, can be put in any place.                         *)
(***************************************************************************)
LEMMA PutBuffer ==
    ASSUME NEW m, NEW c, BufferInv(m, c),
           NEW d \in Memref, NEW b \in Buffer, NEW x \in Contents,
           x # Undefined => b.size = MemrefSize(d) /\ b.data = x
    PROVE  BufferInv(Put(m, d, b), Put(c, d, x))
<1> DEFINE mm == Put(m, d, b)
           cc == Put(c, d, x)
<1>1. /\ m \in [Memref -> Buffer \cup {NoData}]
      /\ c \in [Memref -> Contents]
  BY DEF BufferInv, Memory
<1>2. /\ mm \in [Memref -> Buffer \cup {NoData}]
      /\ cc \in [Memref -> Contents]
  BY <1>1 DEF Put
<1>3. mm[d] = b /\ cc[d] = x
  BY <1>1 DEF Put
<1>4. \A v \in Memref : v # d => mm[v] = m[v] /\ cc[v] = c[v]
  BY <1>1 DEF Put
<1>5. HasData(mm, d)
  BY <1>3, KernelsAssumption DEF HasData
<1> HIDE DEF mm, cc
<1>6. KnownFit(mm, cc)
  BY <1>3, <1>4 DEF BufferInv, KnownFit, HasData
<1>7. Agrees(mm, cc)
  BY <1>3, <1>4 DEF BufferInv, Agrees, HasData
<1>8. LazyInputs(mm, cc)
  BY <1>3, <1>4, <1>5 DEF BufferInv, LazyInputs, HasData
<1>9. BufferInv(mm, cc)
  BY <1>2, <1>6, <1>7, <1>8 DEF BufferInv, Memory
<1> QED
  BY <1>9 DEF mm, cc

(***************************************************************************)
(* The meaning of a buffer may be left open at any time.                   *)
(***************************************************************************)
LEMMA LeaveOpen ==
    ASSUME NEW m, NEW c, BufferInv(m, c), NEW d \in Memref
    PROVE  BufferInv(m, Put(c, d, Undefined))
<1> DEFINE cc == Put(c, d, Undefined)
<1>1. cc \in [Memref -> Contents] /\ cc[d] = Undefined
  BY DEF BufferInv, Contents, Put
<1>2. \A v \in Memref : v # d => cc[v] = c[v]
  BY DEF BufferInv, Put
<1> HIDE DEF cc
<1>3. KnownFit(m, cc)
  BY <1>1, <1>2 DEF BufferInv, KnownFit
<1>4. Agrees(m, cc)
  BY <1>1, <1>2 DEF BufferInv, Agrees
<1>5. LazyInputs(m, cc)
  BY <1>1, <1>2 DEF BufferInv, LazyInputs
<1>6. BufferInv(m, cc)
  BY <1>1, <1>3, <1>4, <1>5 DEF BufferInv
<1> QED
  BY <1>6 DEF cc

\* What is there and what is meant of one memref.
LEMMA BufferOf ==
    ASSUME NEW m, NEW c, BufferInv(m, c), NEW s \in Memref
    PROVE  /\ c[s] \in Contents
           /\ HasData(m, s) => m[s] \in Buffer
           /\ HasData(m, s) /\ c[s] # Undefined =>
                 m[s].size = MemrefSize(s) /\ m[s].data = c[s]
           /\ ~ HasData(m, s) /\ c[s] # Undefined =>
                 s \in Inputs /\ c[s] = InputData(s)
           /\ Local(s, c) => HasData(m, s)
<1>1. c[s] \in Contents /\ m[s] \in Buffer \cup {NoData}
  BY DEF BufferInv, Memory
<1>2. /\ HasData(m, s) /\ c[s] # Undefined =>
            m[s].size = MemrefSize(s) /\ m[s].data = c[s]
      /\ ~ HasData(m, s) /\ c[s] # Undefined => s \in Inputs /\ c[s] = InputData(s)
  BY DEF BufferInv, KnownFit, Agrees, LazyInputs
<1> QED BY <1>1, <1>2 DEF HasData, Local

-----------------------------------------------------------------------------
(***************************************************************************)
(* load: a copy of what the source holds or, for an input that nothing has *)
(* written yet, the data it is taken to hold.                              *)
(***************************************************************************)
LEMMA LoadKeeps ==
    ASSUME NEW m, NEW c, BufferInv(m, c), NEW s \in Memref, NEW d \in Memref
    PROVE  BufferInv(LoadExecute(s, d, m), Put(c, d, CopyMeaning(s, d, c)))
<1> DEFINE x == CopyMeaning(s, d, c)
<1>1. x \in Contents /\ (x # Undefined => SameType(s, d) /\ x = c[s])
  BY BufferOf DEF CopyMeaning, Contents
<1>2. CASE HasData(m, s)
  <2>1. m[s] \in Buffer
    BY <1>2, BufferOf
  <2>2. x # Undefined => m[s].size = MemrefSize(d) /\ m[s].data = x
    BY <1>1, <1>2, BufferOf, SameSize
  <2>3. LoadExecute(s, d, m) = Put(m, d, m[s])
    BY <1>2 DEF LoadExecute, Put
  <2> HIDE DEF x
  <2>4. BufferInv(Put(m, d, m[s]), Put(c, d, x))
    BY <1>1, <2>1, <2>2, PutBuffer
  <2> QED
    BY <2>3, <2>4 DEF x
<1>3. CASE ~ HasData(m, s)
  <2>1. Invented(d) \in Buffer /\ Invented(d).size = MemrefSize(d)
    BY SizeType, DataAssumption DEF Invented, Buffer
  <2>2. x # Undefined => Invented(d).data = x
    BY <1>1, <1>3, BufferOf, SameSize DEF Invented, InputData
  <2>3. LoadExecute(s, d, m) = Put(m, d, Invented(d))
    BY <1>3 DEF LoadExecute, Put
  <2> HIDE DEF x
  <2>4. BufferInv(Put(m, d, Invented(d)), Put(c, d, x))
    BY <1>1, <2>1, <2>2, PutBuffer
  <2> QED
    BY <2>3, <2>4 DEF x
<1> QED
  BY <1>2, <1>3

(***************************************************************************)
(* store: a copy; an input that is stored from has no meaning there, since *)
(* nothing is stored as long as it has no data.                            *)
(***************************************************************************)
LEMMA StoreKeeps ==
    ASSUME NEW m, NEW c, BufferInv(m, c), NEW s \in Memref, NEW d \in Memref
    PROVE  BufferInv(StoreExecute(s, d, m), Put(c, d, StoreMeaning(s, d, c)))
<1> DEFINE x == StoreMeaning(s, d, c)
<1>1. /\ x \in Contents
      /\ x # Undefined => Local(s, c) /\ SameType(s, d) /\ x = c[s]
  BY BufferOf DEF StoreMeaning, CopyMeaning, Contents
<1>2. CASE HasData(m, s)
  <2>1. m[s] \in Buffer
    BY <1>2, BufferOf
  <2>2. x # Undefined => m[s].size = MemrefSize(d) /\ m[s].data = x
    BY <1>1, <1>2, BufferOf, SameSize
  <2>3. StoreExecute(s, d, m) = Put(m, d, m[s])
    BY <1>2 DEF StoreExecute, Put
  <2> HIDE DEF x
  <2>4. BufferInv(Put(m, d, m[s]), Put(c, d, x))
    BY <1>1, <2>1, <2>2, PutBuffer
  <2> QED
    BY <2>3, <2>4 DEF x
<1>3. CASE ~ HasData(m, s)
  <2>1. x = Undefined
    BY <1>1, <1>3, BufferOf
  <2>2. StoreExecute(s, d, m) = m
    BY <1>3 DEF StoreExecute
  <2> QED
    BY <2>1, <2>2, LeaveOpen
<1> QED
  BY <1>2, <1>3

(***************************************************************************)
(* vadd and vmul: what the table says of the operands, or the cleared      *)
(* buffer of another element type, when both are known and of one type     *)
(* with the result; then the elements computed are all of the buffer.      *)
(***************************************************************************)
LEMMA VectorKeeps ==
    ASSUME NEW m, NEW c, BufferInv(m, c),
           NEW p \in Memref, NEW q \in Memref, NEW d \in Memref,
           NEW table \in [Data \X Data -> Data],
           NEW mm \in VectorOutcomes(table, p, q, d, m)
    PROVE  BufferInv(mm, Put(c, d, VectorMeaning(table, p, q, d, c)))
<1> DEFINE x == VectorMeaning(table, p, q, d, c)
<1>1. x \in Contents
  <2>1. c[p] # Undefined /\ c[q] # Undefined => c[p] \in Data /\ c[q] \in Data
    BY BufferOf DEF Contents
  <2> QED
    BY <2>1, DataAssumption DEF VectorMeaning, Contents, Local
<1>2. CASE HasData(m, p) /\ HasData(m, q)
  <2>1. /\ m[p].size \in Nat /\ m[p].data \in Data /\ m[q].data \in Data
    BY <1>2, BufferOf DEF Buffer
  <2>2. PICK y \in VectorData(table, m[p], m[q], d) :
           mm = [m EXCEPT ![d] = [size |-> m[p].size, data |-> y]]
    BY <1>2 DEF VectorOutcomes
  <2> DEFINE b == [size |-> m[p].size, data |-> y]
  <2>3. y \in Data
    BY <2>1, DataAssumption DEF VectorData
  <2>4. b \in Buffer
    BY <2>1, <2>3 DEF Buffer
  <2>5. ASSUME x # Undefined
        PROVE  b.size = MemrefSize(d) /\ b.data = x
    <3>1. Local(p, c) /\ Local(q, c) /\ SameType(p, d)
      BY <2>5 DEF VectorMeaning
    <3>2. /\ m[p].size = MemrefSize(d)
          /\ m[p].data = c[p] /\ m[q].data = c[q]
      BY <1>2, <3>1, BufferOf, SameSize DEF Local
    <3>3. CASE IsF16(d)
      <4>1. NumElements(d) * ElementSize("f16") = m[p].size
        BY <3>2, <3>3 DEF MemrefSize, IsF16
      <4>2. y = table[<<m[p].data, m[q].data>>]
        BY <3>3, <4>1 DEF VectorData
      <4> QED
        BY <2>5, <3>2, <3>3, <4>2 DEF VectorMeaning
    <3>4. CASE ~ IsF16(d)
      BY <2>5, <3>2, <3>4 DEF VectorMeaning, VectorData
    <3> QED
      BY <3>3, <3>4
  <2>6. mm = Put(m, d, b)
    BY <2>2 DEF Put
  <2> HIDE DEF b, x
  <2>7. BufferInv(Put(m, d, b), Put(c, d, x))
    BY <1>1, <2>4, <2>5, PutBuffer
  <2> QED
    BY <2>6, <2>7 DEF x
<1>3. CASE ~ (HasData(m, p) /\ HasData(m, q))
  <2>1. x = Undefined
    BY <1>3, BufferOf DEF VectorMeaning
  <2>2. mm = m
    BY <1>3 DEF VectorOutcomes
  <2> QED
    BY <2>1, <2>2, LeaveOpen
<1> QED
  BY <1>2, <1>3

(***************************************************************************)
(* alloc and matmul: a cleared buffer.                                     *)
(***************************************************************************)
LEMMA ClearKeeps ==
    ASSUME NEW m, NEW c, BufferInv(m, c), NEW d \in Memref, NEW x \in {Zeros, Undefined}
    PROVE  BufferInv(Put(m, d, Cleared(d)), Put(c, d, x))
<1>1. /\ Cleared(d) \in Buffer
      /\ Cleared(d).size = MemrefSize(d) /\ Cleared(d).data = Zeros
  BY SizeType, DataAssumption DEF Cleared, Buffer
<1>2. x \in Contents
  BY DataAssumption DEF Contents
<1> QED
  BY <1>1, <1>2, PutBuffer

LEMMA MatmulKeeps ==
    ASSUME NEW m, NEW c, BufferInv(m, c),
           NEW p \in Memref, NEW q \in Memref, NEW d \in Memref
    PROVE  BufferInv(MatmulExecute(p, q, d, m), Put(c, d, MatmulMeaning(p, q, c)))
<1>1. MatmulMeaning(p, q, c) \in {Zeros, Undefined}
  BY DEF MatmulMeaning
<1>2. CASE HasData(m, p) /\ HasData(m, q)
  <2>1. MatmulExecute(p, q, d, m) = Put(m, d, Cleared(d))
    BY <1>2 DEF MatmulExecute, Put
  <2> QED
    BY <1>1, <2>1, ClearKeeps
<1>3. CASE ~ (HasData(m, p) /\ HasData(m, q))
  <2>1. MatmulMeaning(p, q, c) = Undefined /\ MatmulExecute(p, q, d, m) = m
    BY <1>3, BufferOf DEF MatmulMeaning, MatmulExecute
  <2> QED
    BY <2>1, LeaveOpen
<1> QED
  BY <1>2, <1>3

\* The operands that execute() reads and writes are memrefs.
LEMMA OperandsOf ==
    ASSUME NEW op \in HivmOp, ~ (Len(op.operands) < Arity(op.op))
    PROVE  /\ op.op \in {"alloc", "load", "store", "vadd", "vmul", "matmul"}
           /\ op.operands[1] \in Memref
           /\ op.op \in {"load", "store"} => op.operands[2] \in Memref
           /\ op.op \in {"vadd", "vmul", "matmul"} =>
                 op.operands[2] \in Memref /\ op.operands[3] \in Memref
<1>1. /\ op.op \in {"alloc", "load", "store", "vadd", "vmul", "matmul"}
      /\ op.operands \in Seq(Memref)
  BY DEF HivmOp
<1> QED BY <1>1 DEF Arity

(***************************************************************************)
(* Every operation keeps the buffers and their meaning aligned.            *)
(***************************************************************************)
LEMMA OperationKeeps ==
    ASSUME NEW m, NEW c, BufferInv(m, c), NEW op \in HivmOp,
           NEW mm \in HivmOutcomes(op, m)
    PROVE  BufferInv(mm, Meaning(op, c))
<1> DEFINE v == op.operands
<1>1. CASE Len(v) < Arity(op.op)
  BY <1>1 DEF HivmOutcomes, Meaning
<1>2. CASE ~ (Len(v) < Arity(op.op)) /\ op.op = "alloc"
  <2>1. mm = Put(m, v[1], Cleared(v[1])) /\ Meaning(op, c) = Put(c, v[1], Zeros)
    BY <1>2 DEF HivmOutcomes, Meaning, Put
  <2> QED
    BY <1>2, <2>1, OperandsOf, ClearKeeps
<1>3. CASE ~ (Len(v) < Arity(op.op)) /\ op.op = "load"
  <2>1. /\ mm = LoadExecute(v[1], v[2], m)
        /\ Meaning(op, c) = Put(c, v[2], CopyMeaning(v[1], v[2], c))
    BY <1>3 DEF HivmOutcomes, Meaning, Put
  <2> QED
    BY <1>3, <2>1, OperandsOf, LoadKeeps
<1>4. CASE ~ (Len(v) < Arity(op.op)) /\ op.op = "store"
  <2>1. /\ mm = StoreExecute(v[1], v[2], m)
        /\ Meaning(op, c) = Put(c, v[2], StoreMeaning(v[1], v[2], c))
    BY <1>4 DEF HivmOutcomes, Meaning, Put
  <2> QED
    BY <1>4, <2>1, OperandsOf, StoreKeeps
<1>5. CASE ~ (Len(v) < Arity(op.op)) /\ op.op = "vadd"
  <2>1. /\ mm \in VectorOutcomes(Sums, v[1], v[2], v[3], m)
        /\ Meaning(op, c) = Put(c, v[3], VectorMeaning(Sums, v[1], v[2], v[3], c))
    BY <1>5 DEF HivmOutcomes, Meaning, Put
  <2> QED
    BY <1>5, <2>1, OperandsOf, DataAssumption, VectorKeeps
<1>6. CASE ~ (Len(v) < Arity(op.op)) /\ op.op = "vmul"
  <2>1. /\ mm \in VectorOutcomes(Products, v[1], v[2], v[3], m)
        /\ Meaning(op, c) = Put(c, v[3], VectorMeaning(Products, v[1], v[2], v[3], c))
    BY <1>6 DEF HivmOutcomes, Meaning, Put
  <2> QED
    BY <1>6, <2>1, OperandsOf, DataAssumption, VectorKeeps
<1>7. CASE ~ (Len(v) < Arity(op.op)) /\ op.op = "matmul"
  <2>1. /\ mm = MatmulExecute(v[1], v[2], v[3], m)
        /\ Meaning(op, c) = Put(c, v[3], MatmulMeaning(v[1], v[2], c))
    BY <1>7 DEF HivmOutcomes, Meaning, Put
  <2> QED
    BY <1>7, <2>1, OperandsOf, MatmulKeeps
<1> QED
  BY <1>1, <1>2, <1>3, <1>4, <1>5, <1>6, <1>7, OperandsOf

-----------------------------------------------------------------------------
(***************************************************************************)
(* Sizes, whatever the buffers hold.                                       *)
(***************************************************************************)
\* The sources of an operation that does not widen are as large as its result.
LEMMA SourcesOf ==
    ASSUME NEW op \in HivmOp, ~ Widens(op), ~ (Len(op.operands) < Arity(op.op))
    PROVE  LET v == op.operands IN
           /\ op.op \in {"load", "store"} => MemrefSize(v[1]) >= MemrefSize(v[2])
           /\ op.op \in {"vadd", "vmul"} =>
                 /\ MemrefSize(v[1]) >= MemrefSize(v[3])
                 /\ MemrefSize(v[2]) >= MemrefSize(v[3])
<1> DEFINE v == op.operands
           n == Arity(op.op)
<1>1. Len(v) >= n
  <2>1. v \in Seq(Memref) /\ n \in Nat
    BY DEF HivmOp, Arity
  <2> QED BY <2>1, LenProperties
<1>2. ASSUME op.op \in {"load", "store", "vadd", "vmul"}, NEW i \in 1 .. (n - 1)
      PROVE  ~ (MemrefSize(v[i]) < MemrefSize(v[n]))
  BY <1>1, <1>2 DEF Widens
<1>3. CASE op.op \in {"load", "store"}
  <2>1. n = 2 /\ 1 \in 1 .. (n - 1)
    BY <1>3 DEF Arity
  <2>2. ~ (MemrefSize(v[1]) < MemrefSize(v[2]))
    BY <1>2, <1>3, <2>1
  <2>3. MemrefSize(v[1]) \in Nat /\ MemrefSize(v[2]) \in Nat
    BY <1>3, OperandsOf, SizeType
  <2> QED BY <1>3, <2>2, <2>3
<1>4. CASE op.op \in {"vadd", "vmul"}
  <2>1. n = 3 /\ 1 \in 1 .. (n - 1) /\ 2 \in 1 .. (n - 1)
    BY <1>4 DEF Arity
  <2>2. ~ (MemrefSize(v[1]) < MemrefSize(v[3])) /\ ~ (MemrefSize(v[2]) < MemrefSize(v[3]))
    BY <1>2, <1>4, <2>1
  <2>3. MemrefSize(v[1]) \in Nat /\ MemrefSize(v[2]) \in Nat /\ MemrefSize(v[3]) \in Nat
    BY <1>4, OperandsOf, SizeType
  <2> QED BY <1>4, <2>2, <2>3
<1> QED BY <1>3, <1>4

LEMMA PutLarge ==
    ASSUME NEW m \in Memory, LargeEnough(m),
           NEW d \in Memref, NEW b, b.size >= MemrefSize(d)
    PROVE  LargeEnough(Put(m, d, b))
<1>1. /\ Put(m, d, b)[d] = b
      /\ \A v \in Memref : v # d => Put(m, d, b)[v] = m[v]
  BY DEF Memory, Put
<1> QED BY <1>1 DEF LargeEnough, HasData

\* An operation that does not widen leaves no buffer too small.
LEMMA OperationLeavesLarge ==
    ASSUME NEW m \in Memory, LargeEnough(m), NEW op \in HivmOp, ~ Widens(op),
           NEW mm \in HivmOutcomes(op, m)
    PROVE  LargeEnough(mm)
<1> DEFINE v == op.operands
<1>1. ASSUME NEW s \in Memref, NEW d \in Memref, HasData(m, s),
             MemrefSize(s) >= MemrefSize(d)
      PROVE  m[s].size >= MemrefSize(d)
  <2>1. m[s].size >= MemrefSize(s)
    BY <1>1 DEF LargeEnough
  <2>2. m[s].size \in Nat /\ MemrefSize(s) \in Nat /\ MemrefSize(d) \in Nat
    BY <1>1, SizeType DEF Memory, HasData, Buffer
  <2> QED BY <1>1, <2>1, <2>2
<1>2. ASSUME NEW d \in Memref
      PROVE  Cleared(d).size >= MemrefSize(d) /\ Invented(d).size >= MemrefSize(d)
  BY SizeType DEF Cleared, Invented
<1>3. CASE Len(v) < Arity(op.op)
  BY <1>3 DEF HivmOutcomes
<1>4. CASE ~ (Len(v) < Arity(op.op)) /\ op.op = "alloc"
  <2>1. mm = Put(m, v[1], Cleared(v[1]))
    BY <1>4 DEF HivmOutcomes, Put
  <2> QED
    BY <1>2, <1>4, <2>1, OperandsOf, PutLarge
<1>5. CASE ~ (Len(v) < Arity(op.op)) /\ op.op \in {"load", "store"}
  <2>1. v[1] \in Memref /\ v[2] \in Memref /\ MemrefSize(v[1]) >= MemrefSize(v[2])
    BY <1>5, OperandsOf, SourcesOf
  <2>2. \/ HasData(m, v[1]) /\ mm = Put(m, v[2], m[v[1]])
        \/ mm = Put(m, v[2], Invented(v[2]))
        \/ mm = m
    BY <1>5 DEF HivmOutcomes, LoadExecute, StoreExecute, Put
  <2> QED
    BY <1>1, <1>2, <2>1, <2>2, PutLarge
<1>6. CASE ~ (Len(v) < Arity(op.op)) /\ op.op \in {"vadd", "vmul"}
  <2>1. v[1] \in Memref /\ v[3] \in Memref /\ MemrefSize(v[1]) >= MemrefSize(v[3])
    BY <1>6, OperandsOf, SourcesOf
  <2>2. PICK table : mm \in VectorOutcomes(table, v[1], v[2], v[3], m)
    BY <1>6 DEF HivmOutcomes
  <2>3. CASE HasData(m, v[1]) /\ HasData(m, v[2])
    <3>1. PICK y : mm = [m EXCEPT ![v[3]] = [size |-> m[v[1]].size, data |-> y]]
      BY <2>2, <2>3 DEF VectorOutcomes
    <3> DEFINE b == [size |-> m[v[1]].size, data |-> y]
    <3>2. b.size >= MemrefSize(v[3])
      BY <1>1, <2>1, <2>3
    <3>3. mm = Put(m, v[3], b)
      BY <3>1 DEF Put
    <3> HIDE DEF b
    <3> QED
      BY <2>1, <3>2, <3>3, PutLarge
  <2>4. CASE ~ (HasData(m, v[1]) /\ HasData(m, v[2]))
    BY <2>2, <2>4 DEF VectorOutcomes
  <2> QED
    BY <2>3, <2>4
<1>7. CASE ~ (Len(v) < Arity(op.op)) /\ op.op = "matmul"
  <2>1. mm = Put(m, v[3], Cleared(v[3])) \/ mm = m
    BY <1>7 DEF HivmOutcomes, MatmulExecute, Put
  <2> QED
    BY <1>2, <1>7, <2>1, OperandsOf, PutLarge
<1> QED
  BY <1>3, <1>4, <1>5, <1>6, <1>7, OperandsOf

\* In buffers that are not too small, such an operation stays inside.
LEMMA OperationFits ==
    ASSUME NEW m \in Memory, LargeEnough(m), NEW op \in HivmOp, ~ Widens(op)
    PROVE  AccessesFit(op, m)
<1> DEFINE v == op.operands
<1>1. ASSUME NEW s \in Memref, NEW d \in Memref, IsF16(d),
             MemrefSize(s) >= MemrefSize(d)
      PROVE  Covers(m, s, d)
  <2>1. NumElements(d) * ElementSize("f16") = MemrefSize(d)
    BY <1>1 DEF MemrefSize, IsF16
  <2>2. HasData(m, s) => m[s].size >= MemrefSize(s) /\ m[s].size \in Nat
    BY DEF LargeEnough, Memory, HasData, Buffer
  <2>3. MemrefSize(s) \in Nat /\ MemrefSize(d) \in Nat
    BY SizeType
  <2>4. HasData(m, s) => MemrefSize(d) <= m[s].size
    BY <1>1, <2>2, <2>3
  <2> QED
    BY <2>1, <2>4 DEF Covers
<1> SUFFICES ASSUME Len(v) >= Arity(op.op), op.op \in {"store", "vadd", "vmul"}
             PROVE  AccessesFit(op, m)
  BY DEF AccessesFit
<1>2. ~ (Len(v) < Arity(op.op))
  <2>1. v \in Seq(Memref) /\ Arity(op.op) \in Nat
    BY DEF HivmOp, Arity
  <2> QED
    BY <2>1, LenProperties
<1>3. CASE op.op = "store"
  <2>1. v[1] \in Memref /\ v[2] \in Memref /\ MemrefSize(v[1]) >= MemrefSize(v[2])
    BY <1>2, <1>3, OperandsOf, SourcesOf
  <2> QED
    BY <1>1, <1>3, <2>1 DEF AccessesFit
<1>4. CASE op.op \in {"vadd", "vmul"}
  <2>1. /\ v[1] \in Memref /\ v[2] \in Memref /\ v[3] \in Memref
        /\ MemrefSize(v[1]) >= MemrefSize(v[3]) /\ MemrefSize(v[2]) >= MemrefSize(v[3])
    BY <1>2, <1>4, OperandsOf, SourcesOf
  <2> QED
    BY <1>1, <1>4, <2>1 DEF AccessesFit
<1> QED
  BY <1>3, <1>4

-----------------------------------------------------------------------------
(***************************************************************************)
(* A program has the PCs of its kernel's lines.                            *)
(***************************************************************************)
LEMMA LineAtPC ==
    ASSUME NEW lines \in Kernels, NEW p, HasInstruction(Program(lines), p)
    PROVE  p + 1 \in DOMAIN lines
<1>1. lines \in Seq(KernelLine)
  BY KernelsAssumption
<1>2. PICK i \in DOMAIN Program(lines) : Program(lines)[i].pc = p
  BY DEF HasInstruction
<1>3. i \in DOMAIN lines
  BY <1>2 DEF Program
<1> DEFINE base == IF lines[i].hivm = NoOp THEN lines[i].isa
                   ELSE HivmInstruction(lines[i].hivm)
<1>4. Program(lines)[i] = [base EXCEPT !.pc = i - 1]
  BY <1>3 DEF Program
<1>5. lines[i].isa \in Instruction
  <2>1. lines[i] \in KernelLine
    BY <1>1, <1>3
  <2> QED
    BY <2>1, Zenon DEF KernelLine
<1>6. "pc" \in DOMAIN base
  BY <1>5 DEF Instruction, HivmInstruction, NewInstruction
<1> HIDE DEF base
<1>7. Program(lines)[i].pc = i - 1
  BY <1>4, <1>6
<1>8. i \in Nat
  BY <1>1, <1>3
<1> QED
  BY <1>2, <1>3, <1>7, <1>8

(***************************************************************************)
(* What is about to execute is an operation of the kernel.                 *)
(***************************************************************************)
LEMMA NextOp ==
    ASSUME KernelLoaded, AtOp
    PROVE  /\ OpAt(pc) \in HivmOp
           /\ ~ KernelWidens => ~ Widens(OpAt(pc))
<1>1. kernel \in Kernels /\ sequence = Program(kernel)
  BY DEF KernelLoaded, AtOp
<1>2. pc + 1 \in DOMAIN kernel
  BY <1>1, LineAtPC DEF AtOp
<1>3. kernel \in Seq(KernelLine)
  BY <1>1, KernelsAssumption
<1>4. kernel[pc + 1] \in KernelLine
  BY <1>2, <1>3
<1>5. OpAt(pc) \in HivmOp
  BY <1>4 DEF KernelLine, OpAt, AtOp
<1>6. ~ KernelWidens => ~ Widens(OpAt(pc))
  BY <1>2 DEF KernelWidens, OpAt, AtOp
<1> QED
  BY <1>5, <1>6

LEMMA HivmInvInit == HivmInit => HivmInv
<1> SUFFICES ASSUME HivmInit PROVE HivmInv
  OBVIOUS
<1>1. \A v \in Memref : ~ HasData(memory, v)
  BY DEF HivmInit, HasData
<1>2. KernelLoaded /\ LargeEnough(memory) /\ ~ outside
  BY <1>1 DEF HivmInit, SimInit, KernelLoaded, LargeEnough
<1>3. memory \in Memory
  BY DEF HivmInit, Memory
<1>4. meant \in [Memref -> Contents]
  BY DataAssumption DEF HivmInit, Contents, InputData
<1>5. LazyInputs(memory, meant)
  BY DEF HivmInit, LazyInputs
<1> QED
  BY <1>1, <1>2, <1>3, <1>4, <1>5 DEF HivmInv, BufferInv, KnownFit, Agrees

\* A tick executes the operation at pc, if there is one, inside the buffers.
LEMMA TickKeeps == HivmInv /\ KernelTick => HivmInv'
<1> SUFFICES ASSUME HivmInv, KernelTick PROVE HivmInv'
  OBVIOUS
<1>1. stage = "running" /\ UNCHANGED <<stage, kernel, outside>> /\ ~ outside
  BY DEF KernelTick, RunTick
<1>2. sequence' = sequence
  BY DEF KernelTick, RunTick, Tick, IdleTick, ExecuteOperation, ExecuteForStep,
      TakeJump, TakeBranch, CallExternal, CallInternal, ReturnToCaller,
      ReturnAndHalt, Executes
<1>3. KernelLoaded' /\ KernelWidens' = KernelWidens
  BY <1>1, <1>2 DEF HivmInv, KernelLoaded, KernelWidens
<1>4. BufferInv(memory, meant)' /\ (~ KernelWidens => LargeEnough(memory)')
  <2>1. CASE AtOp
    <3> PICK op, m, c, mm, cc :
            op = OpAt(pc) /\ m = memory /\ c = meant /\ mm = memory' /\ cc = meant'
      OBVIOUS
    <3>1. mm \in HivmOutcomes(op, m) /\ cc = Meaning(op, c)
      BY <2>1 DEF KernelTick
    <3>2. /\ op \in HivmOp /\ (~ KernelWidens => ~ Widens(op))
          /\ BufferInv(m, c) /\ m \in Memory /\ (~ KernelWidens => LargeEnough(m))
      BY <2>1, NextOp DEF HivmInv, BufferInv
    <3>3. BufferInv(mm, cc) /\ (~ KernelWidens => LargeEnough(mm))
      BY <3>1, <3>2, OperationKeeps, OperationLeavesLarge
    <3> QED
      BY <3>3
  <2>2. CASE ~ AtOp
    BY <2>2 DEF KernelTick, HivmInv
  <2> QED
    BY <2>1, <2>2
<1> QED
  BY <1>1, <1>3, <1>4 DEF HivmInv

LEMMA HivmInvStep == HivmInv /\ [HivmNext]_hivmVars => HivmInv'
<1> SUFFICES ASSUME HivmInv, [HivmNext]_hivmVars PROVE HivmInv'
  OBVIOUS
<1>1. CASE LoadKernel
  <2>1. /\ stage = "constructed" /\ stage' = "loaded"
        /\ memory' = memory /\ outside' = outside /\ meant' = meant
    BY <1>1 DEF LoadKernel
  <2>2. kernel' \in Kernels /\ sequence' = Program(kernel')
    BY <1>1 DEF LoadKernel, Load
  <2>3. LargeEnough(memory) /\ ~ outside
    BY <2>1 DEF HivmInv, KernelLoaded, LargeEnough
  <2> QED
    BY <2>1, <2>2, <2>3 DEF HivmInv, KernelLoaded
<1>2. CASE ChooseKernelMode \/ CompleteKernel
  <2>1. /\ stage # "constructed" /\ stage' # "constructed" /\ sequence' = sequence
        /\ UNCHANGED <<kernel, memory, outside, meant>>
    BY <1>2 DEF ChooseKernelMode, ChooseMode, SetAsyncMode, CompleteKernel, Complete, vars
  <2> QED
    BY <2>1 DEF HivmInv, KernelLoaded, KernelWidens
<1>3. CASE KernelTick
  BY <1>3, TickKeeps
<1>4. CASE WalkOutside
  <2>1. /\ stage = "running" /\ AtOp /\ ~ AccessesFit(OpAt(pc), memory)
        /\ UNCHANGED <<stage, sequence, kernel, memory, meant>>
    BY <1>4 DEF WalkOutside, AtOp, simVars, vars
  <2>2. KernelWidens
    BY <2>1, NextOp, OperationFits DEF HivmInv, BufferInv
  <2> QED
    BY <2>1, <2>2 DEF HivmInv, KernelLoaded, KernelWidens
<1>5. CASE UNCHANGED hivmVars
  BY <1>5 DEF hivmVars, simVars, vars, HivmInv, KernelLoaded, KernelWidens
<1> QED
  BY <1>1, <1>2, <1>3, <1>4, <1>5 DEF HivmNext

(***************************************************************************)
(* Buffers hold what is meant; none is too small unless the kernel widens. *)
(***************************************************************************)
LEMMA HivmInvariant == HivmSafety => []HivmInv
<1> QED
  BY HivmInvInit, HivmInvStep, PTL DEF HivmSafety

(***************************************************************************)
(* Whatever the kernel, every buffer with data holds what the kernel means *)
(* it to hold: lazy inputs and immediate effects do not show.              *)
(***************************************************************************)
THEOREM BuffersHoldMeaning == HivmSpec => []DataAsMeant
<1>1. HivmInv => DataAsMeant
  BY DEF HivmInv, BufferInv, Agrees, DataAsMeant
<1> QED
  BY <1>1, HivmInvariant, PTL DEF HivmSpec

(***************************************************************************)
(* Whatever the types of the operands, execute() walks outside a buffer in *)
(* no kernel but one that has a copy or a vector operation that widens.    *)
(***************************************************************************)
THEOREM AccessesStayInside == HivmSpec => []OnlyWideningGoesOutside
<1>1. HivmInv => OnlyWideningGoesOutside
  BY DEF HivmInv, OnlyWideningGoesOutside, KernelWidens
<1> QED
  BY <1>1, HivmInvariant, PTL DEF HivmSpec

-----------------------------------------------------------------------------
(***************************************************************************)
(* The simulation of a kernel implements that of its program: what a tick  *)
(* does to the buffers steers nothing, until a walk outside ends it.       *)
(***************************************************************************)
THEOREM KernelsAreSimulated == HivmSafety => SimSafety
<1>1. HivmInit => SimInit
  BY DEF HivmInit
<1>2. HivmNext => SimNext \/ UNCHANGED simVars
  <2>1. ASSUME LoadKernel PROVE LoadModule
    <3>1. \A lines \in Kernels : Program(lines) \in Programs
      BY KernelsAssumption
    <3> QED
      BY <2>1, <3>1 DEF LoadKernel, LoadModule
  <2> QED
    BY <2>1 DEF HivmNext, ChooseKernelMode, KernelTick, CompleteKernel, SimNext, WalkOutside
<1>3. [HivmNext]_hivmVars => [SimNext]_simVars
  BY <1>2 DEF hivmVars
<1> QED
  BY <1>1, <1>2, <1>3, PTL DEF HivmSafety, SimSafety

(***************************************************************************)
(* A running kernel always finds an instruction at pc.                     *)
(***************************************************************************)
THEOREM KernelsStayInside == HivmSpec => []PcInProgram
BY KernelsAreSimulated, PcSafety, PTL DEF HivmSpec

(***************************************************************************)
(* Each frame of the simulation of a kernel returns behind a call in it.   *)
(***************************************************************************)
THEOREM KernelFramesStayAfterCalls == HivmSpec => []FramesReturnAfterCalls
BY KernelsAreSimulated, FramesSafety, PTL DEF HivmSpec

=============================================================================
