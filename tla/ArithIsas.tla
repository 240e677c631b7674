------------------------------ MODULE ArithIsas ------------------------------
(***************************************************************************)
(* The integer operations of ArithIsas.h, which module Isa leaves as       *)
(* "Operation": addi, subi, muli, divsi, cmpi and index_cast on            *)
(* llvm::APInt, whose width goes with the stored number and not with the   *)
(* type of the SSA value.                                                  *)
(*                                                                         *)
(* A program is the body of a loop: its operations run in order, again and *)
(* again, on inputs that change from one iteration to the next.  Beside    *)
(* what the simulator stores the model keeps what MLIR says each value is. *)
(***************************************************************************)
EXTENDS Integers, Sequences

CONSTANTS
    Value,          \* the SSA values of the body
    Inputs,         \* those set before each iteration (constants, loop values)
    TypeWidth,      \* the width of each value's type
    IndexWidth,     \* the width of index (64 in the code)
    Programs,       \* the loop bodies to run
    Unset           \* never set: hasIntValue is false; undefined in MLIR

Predicate == {"eq", "ne", "slt", "sle", "sgt", "sge", "ult", "ule", "ugt", "uge"}

\* The operands have one type, which for all but the last two is the result's.
Operation == [op : {"addi", "subi", "muli", "divsi", "cmpi", "index_cast"},
              predicate : Predicate, lhs : Value, rhs : Value, result : Value]

ASSUME WidthsAssumption ==
    /\ IndexWidth \in Nat \ {0}
    /\ TypeWidth \in [Value -> 1 .. IndexWidth]
    /\ Inputs \subseteq Value

ASSUME ProgramsAssumption ==
    \A program \in Programs :
        /\ program \in Seq(Operation) /\ program # <<>>
        /\ \A i \in DOMAIN program :
              /\ program[i].result \notin Inputs
              /\ TypeWidth[program[i].lhs] = TypeWidth[program[i].rhs]
              /\ program[i].op \notin {"cmpi", "index_cast"} =>
                    TypeWidth[program[i].result] = TypeWidth[program[i].lhs]
              /\ program[i].op = "cmpi" => TypeWidth[program[i].result] = 1

VARIABLES
    program,    \* the loop body that runs
    next,       \* the position in it of the operation that runs next
    values,     \* intValues of the context
    meant       \* history: the bits each value has by the MLIR semantics

vars == <<program, next, values, meant>>

APInts == UNION {[width : {w}, bits : 0 .. 2^w - 1] : w \in 1 .. IndexWidth}

ASSUME UnsetAssumption == Unset \notin APInts

TypeOK ==
    /\ program \in Programs
    /\ next \in 1 .. Len(program) + 1
    /\ values \in [Value -> APInts \cup {Unset}]
    /\ \A v \in Value : meant[v] \in 0 .. 2^TypeWidth[v] - 1 \cup {Unset}

-----------------------------------------------------------------------------
(***************************************************************************)
(* llvm::APInt, modelled from what the code asks of it.                    *)
(***************************************************************************)
\* Mutant of APInt: bits beyond the width are kept.
UnmaskedAPInt(w, n) == [width |-> w, bits |-> n]

APInt(w, n) == [width |-> w, bits |-> n % 2^w]

SExtValue(a) == IF a.bits >= 2^(a.width - 1) THEN a.bits - 2^a.width ELSE a.bits

SExt(a, w) == APInt(w, SExtValue(a))

Abs(n) == IF n < 0 THEN - n ELSE n

\* Division towards zero.
SDiv(m, n) == IF (m < 0) = (n < 0) THEN Abs(m) \div Abs(n) ELSE - (Abs(m) \div Abs(n))

\* APInt's comparisons, on operands of one width.
Compare(predicate, a, b) ==
    CASE predicate = "eq"  -> a.bits = b.bits
      [] predicate = "ne"  -> a.bits # b.bits
      [] predicate = "slt" -> SExtValue(a) < SExtValue(b)
      [] predicate = "sle" -> SExtValue(a) <= SExtValue(b)
      [] predicate = "sgt" -> SExtValue(a) > SExtValue(b)
      [] predicate = "sge" -> SExtValue(a) >= SExtValue(b)
      [] predicate = "ult" -> a.bits < b.bits
      [] predicate = "ule" -> a.bits <= b.bits
      [] predicate = "ugt" -> a.bits > b.bits
      [] predicate = "uge" -> a.bits >= b.bits

-----------------------------------------------------------------------------
\* getIntValue: a value that was never set reads as a 64-bit zero.
IntValue(v) == IF values[v] = Unset THEN APInt(IndexWidth, 0) ELSE values[v]

Widest(a, b) == IF a.width < b.width THEN b.width ELSE a.width

Lhs(isa) == IntValue(isa.lhs)
Rhs(isa) == IntValue(isa.rhs)

MaxBits(isa) == Widest(Lhs(isa), Rhs(isa))
LhsExt(isa) == SExt(Lhs(isa), MaxBits(isa))
RhsExt(isa) == SExt(Rhs(isa), MaxBits(isa))

\* The execute() of addi, subi and muli: the operands at the wider width.
AddiExecute(isa) == APInt(MaxBits(isa), LhsExt(isa).bits + RhsExt(isa).bits)
SubiExecute(isa) == APInt(MaxBits(isa), LhsExt(isa).bits - RhsExt(isa).bits)
MuliExecute(isa) == APInt(MaxBits(isa), LhsExt(isa).bits * RhsExt(isa).bits)

\* Mutant of DiviExecute: the operands are divided as unsigned numbers.
DiviUnsigned(isa) ==
    IF RhsExt(isa).bits = 0 THEN values[isa.result]
    ELSE APInt(TypeWidth[isa.result], LhsExt(isa).bits \div RhsExt(isa).bits)

(***************************************************************************)
(* ArithDiviIsa::execute: the quotient at the widest width (no operand is  *)
(* narrower than the result), cut to the result's; a zero divisor writes   *)
(* nothing, so the quotient of the previous iteration stays.               *)
(***************************************************************************)
DiviExecute(isa) ==
    IF RhsExt(isa).bits = 0 THEN values[isa.result]
    ELSE APInt(TypeWidth[isa.result],
               SDiv(SExtValue(LhsExt(isa)), SExtValue(RhsExt(isa))))

\* Mutant of CmpiExecute: the outcome is as wide as the operands.
CmpiAtOperandWidth(isa) ==
    APInt(MaxBits(isa),
          IF Compare(isa.predicate, LhsExt(isa), RhsExt(isa)) THEN 1 ELSE 0)

CmpiExecute(isa) ==
    APInt(1, IF Compare(isa.predicate, LhsExt(isa), RhsExt(isa)) THEN 1 ELSE 0)

IndexCastExecute(isa) == APInt(TypeWidth[isa.result], SExtValue(Lhs(isa)))

Execute(isa) ==
    CASE isa.op = "addi"       -> AddiExecute(isa)
      [] isa.op = "subi"       -> SubiExecute(isa)
      [] isa.op = "muli"       -> MuliExecute(isa)
      [] isa.op = "divsi"      -> DiviExecute(isa)
      [] isa.op = "cmpi"       -> CmpiExecute(isa)
      [] isa.op = "index_cast" -> IndexCastExecute(isa)

-----------------------------------------------------------------------------
(***************************************************************************)
(* The reference: what MLIR says of the operations, at the types' widths.  *)
(***************************************************************************)
Signed(w, n) == CHOOSE m \in - 2^(w - 1) .. 2^(w - 1) - 1 : (m - n) % 2^w = 0

\* The quotients whose remainder is smaller than n and has the sign of m.
Quotients(w, m, n) ==
    {q \in - 2^(w - 1) .. 2^(w - 1) - 1 :
        LET r == m - q * n IN
        /\ - Abs(n) < r /\ r < Abs(n)
        /\ r # 0 => (r < 0) = (m < 0)}

Holds(predicate, w, m, n) ==
    LET less == IF predicate \in {"slt", "sle", "sgt", "sge"}
                THEN Signed(w, m) < Signed(w, n) ELSE m < n IN
    CASE predicate \in {"slt", "ult"} -> less
      [] predicate \in {"sgt", "ugt"} -> ~ less /\ m # n
      [] predicate \in {"sle", "ule"} -> less \/ m = n
      [] predicate \in {"sge", "uge"} -> ~ less
      [] predicate = "eq"             -> m = n
      [] predicate = "ne"             -> m # n

\* Division by zero and overflow are undefined, and so is what uses undefined.
Meaning(isa) ==
    LET w == TypeWidth[isa.lhs]
        m == meant[isa.lhs]
        n == meant[isa.rhs]
    IN
    IF m = Unset \/ n = Unset THEN Unset
    ELSE CASE isa.op = "addi" -> (m + n) % 2^w
           [] isa.op = "subi" -> (m - n) % 2^w
           [] isa.op = "muli" -> (m * n) % 2^w
           [] isa.op = "divsi" ->
                LET quotients == Quotients(w, Signed(w, m), Signed(w, n)) IN
                IF n = 0 \/ quotients = {} THEN Unset
                ELSE (CHOOSE q \in quotients : TRUE) % 2^w
           [] isa.op = "cmpi" -> IF Holds(isa.predicate, w, m, n) THEN 1 ELSE 0
           [] isa.op = "index_cast" -> Signed(w, m) % 2^TypeWidth[isa.result]

-----------------------------------------------------------------------------
Init ==
    /\ program \in Programs
    /\ next = Len(program) + 1
    /\ values = [v \in Value |-> Unset]
    /\ meant = [v \in Value |-> Unset]

\* An iteration begins: constants and loop values are set, at their widths.
BeginIteration ==
    /\ next > Len(program)
    /\ \E bits \in [Inputs -> 0 .. 2^IndexWidth - 1] :
          /\ \A v \in Inputs : bits[v] < 2^TypeWidth[v]
          /\ values' = [v \in Value |-> IF v \in Inputs THEN APInt(TypeWidth[v], bits[v])
                                       ELSE values[v]]
          /\ meant' = [v \in Value |-> IF v \in Inputs THEN bits[v] ELSE meant[v]]
    /\ next' = 1
    /\ UNCHANGED program

\* executeIsa() runs the next operation.
ExecuteNext ==
    /\ next <= Len(program)
    /\ LET isa == program[next] IN
          /\ values' = [values EXCEPT ![isa.result] = Execute(isa)]
          /\ meant' = [meant EXCEPT ![isa.result] = Meaning(isa)]
    /\ next' = next + 1
    /\ UNCHANGED program

Next == BeginIteration \/ ExecuteNext

Spec == Init /\ [][Next]_vars

-----------------------------------------------------------------------------
(***************************************************************************)
(* Wherever MLIR gives a value a meaning the simulator stores it, at the   *)
(* width of its type: wrapping, the sign of quotients, signed and unsigned *)
(* comparison, and casts that widen and narrow.  What is undefined in MLIR *)
(* (a function argument, a quotient by zero and all that is computed from  *)
(* them) reads as some number and never leaks into a defined value.        *)
(***************************************************************************)
MatchesMlir ==
    \A v \in Value :
        meant[v] # Unset => values[v] = [width |-> TypeWidth[v], bits |-> meant[v]]

(***************************************************************************)
(* However undefined operands mix with others, a stored number has the     *)
(* width of its type or of index.  So two values of type index always      *)
(* agree in width, which the comparison and the step of a loop over index, *)
(* done without extension (IsaExecutor.cpp:167, ControlFlowIsas.h:110),    *)
(* need.                                                                   *)
(***************************************************************************)
WidthsStayKnown ==
    \A v \in Value :
        values[v] # Unset => values[v].width \in {TypeWidth[v], IndexWidth}

=============================================================================
