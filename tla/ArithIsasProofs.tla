-------------------------- MODULE ArithIsasProofs --------------------------
(***************************************************************************)
(* The integer operations agree with MLIR at every width: what ArithIsas   *)
(* promises, for every loop body, every width of its values and of index.  *)
(***************************************************************************)
EXTENDS ArithIsas, FiniteSetTheorems, TLAPS

-----------------------------------------------------------------------------
(***************************************************************************)
(* Powers of two.  2^w is the number of subsets of 1 .. w, and one more    *)
(* element doubles them.                                                   *)
(***************************************************************************)
LEMMA PowerCounts ==
    ASSUME NEW w \in Nat
    PROVE  /\ IsFiniteSet(SUBSET (1 .. w))
           /\ Cardinality(SUBSET (1 .. w)) = 2^w
           /\ 2^w \in Nat
<1>1. IsFiniteSet(1 .. w) /\ Cardinality(1 .. w) = w
  <2>1. Cardinality(1 .. w) = IF 1 > w THEN 0 ELSE w - 1 + 1
    BY FS_Interval
  <2> QED BY <2>1, FS_Interval
<1> QED BY <1>1, FS_SUBSET, FS_CardinalityType

LEMMA PowerDoubles ==
    ASSUME NEW w \in Nat
    PROVE  2^(w + 1) = 2 * 2^w
<1> DEFINE Low   == SUBSET (1 .. w)
           with(A) == A \cup {w + 1}
           High  == {with(A) : A \in Low}
           f     == [A \in Low |-> with(A)]
<1>1. w + 1 \in Nat /\ w + 1 \notin 1 .. w /\ 1 .. w + 1 = (1 .. w) \cup {w + 1}
  OBVIOUS
<1>2. SUBSET (1 .. w + 1) = Low \cup High
  <2>1. ASSUME NEW B \in SUBSET (1 .. w + 1), w + 1 \in B
        PROVE  B \in High
    <3>1. B \ {w + 1} \in Low /\ with(B \ {w + 1}) = B
      BY <1>1, <2>1
    <3> QED BY <3>1
  <2>2. \A B \in SUBSET (1 .. w + 1) : w + 1 \notin B => B \in Low
    BY <1>1
  <2>3. Low \subseteq SUBSET (1 .. w + 1) /\ High \subseteq SUBSET (1 .. w + 1)
    BY <1>1
  <2> HIDE DEF Low, High
  <2> QED BY <2>1, <2>2, <2>3
<1>3. Low \cap High = {}
  BY <1>1
<1>4. ExistsBijection(Low, High)
  <2>1. \A A, B \in Low : with(A) = with(B) => A = B
    BY <1>1
  <2>2. f \in [Low -> High] /\ \A A \in Low : f[A] = with(A)
    OBVIOUS
  <2> HIDE DEF Low, with
  <2>3. \A B \in High : \E A \in Low : f[A] = B
    BY <2>2
  <2> HIDE DEF f, High
  <2>4. f \in Bijection(Low, High)
    BY <2>1, <2>2, <2>3 DEF Bijection, Injection, Surjection, IsInjective
  <2> QED BY <2>4 DEF ExistsBijection
<1>5. IsFiniteSet(Low) /\ Cardinality(Low) = 2^w /\ 2^w \in Nat
  BY PowerCounts
<1> HIDE DEF Low, High
<1>6. IsFiniteSet(High) /\ Cardinality(High) = 2^w
  BY <1>4, <1>5, FS_Bijection
<1>7. Cardinality(Low \cup High) = 2^w + 2^w
  <2>1. Cardinality(Low \cup High)
            = Cardinality(Low) + Cardinality(High) - Cardinality(Low \cap High)
    BY <1>5, <1>6, FS_Union
  <2>2. Cardinality(Low \cap High) = 0
    BY <1>3, FS_EmptySet
  <2> QED BY <1>5, <1>6, <2>1, <2>2
<1>8. 2^(w + 1) = Cardinality(SUBSET (1 .. w + 1))
  BY <1>1, PowerCounts
<1>9. 2^(w + 1) = 2^w + 2^w
  BY <1>2, <1>7, <1>8
<1> QED BY <1>5, <1>9

\* What the proofs use of a width: half a word is a word's half.
LEMMA Word ==
    ASSUME NEW w \in Nat \ {0}
    PROVE  /\ 2^w \in Nat /\ 2^(w - 1) \in Nat \ {0} /\ 2^w = 2 * 2^(w - 1)
           /\ 2^w > 1
<1>1. ASSUME NEW n \in Nat
      PROVE  2^n \in Nat \ {0}
  <2>1. {} \in SUBSET (1 .. n)
    OBVIOUS
  <2>2. Cardinality(SUBSET (1 .. n)) # 0
    BY <2>1, PowerCounts, FS_EmptySet
  <2> QED BY <2>2, PowerCounts
<1>2. w - 1 \in Nat /\ w - 1 + 1 = w
  OBVIOUS
<1>3. 2^w = 2 * 2^(w - 1)
  BY <1>2, PowerDoubles
<1>4. 2^(w - 1) \in Nat \ {0}
  BY <1>1, <1>2
<1> QED BY <1>3, <1>4

-----------------------------------------------------------------------------
(***************************************************************************)
(* Remainders and quotients.                                               *)
(***************************************************************************)
LEMMA Remainder ==
    ASSUME NEW P \in Nat \ {0}, NEW n \in Int
    PROVE  /\ n % P \in 0 .. P - 1
           /\ n \in 0 .. P - 1 => n % P = n
           /\ n + P \in 0 .. P - 1 => n % P = n + P
           /\ n % P = 0 /\ - 2 * P < n /\ n < P => n = 0 \/ n = - P
<1>1. n % P \in 0 .. P - 1 /\ (n \in 0 .. P - 1 => n % P = n)
  OBVIOUS
<1> DEFINE q == n \div P
<1>2. q \in Int /\ n = P * q + (n % P)
  OBVIOUS
<1> HIDE DEF q
<1>3. ASSUME n + P \in 0 .. P - 1
      PROVE  n % P = n + P
  <2>1. P \in Nat /\ P > 0
    OBVIOUS
  <2> QED BY <1>3, <2>1
<1>4. ASSUME n % P = 0, - 2 * P < n, n < P
      PROVE  n = 0 \/ n = - P
  <2>1. n = P * q
    BY <1>2, <1>4
  <2>2. q >= 1 => P * q >= P
    BY <1>2
  <2>3. q <= - 2 => P * q <= - 2 * P
    BY <1>2
  <2>4. q = 0 \/ q = - 1
    BY <1>2, <1>4, <2>1, <2>2, <2>3
  <2> QED BY <2>1, <2>4
<1> QED BY <1>1, <1>3, <1>4

\* A number has one quotient with a remainder below the divisor.
LEMMA OneQuotient ==
    ASSUME NEW a \in Int, NEW b \in Nat \ {0}, NEW x \in Int,
           0 <= a - b * x, a - b * x < b
    PROVE  x = a \div b
<1> DEFINE y == a \div b
<1>1. y \in Int /\ 0 <= a - b * y /\ a - b * y < b
  OBVIOUS
<1> HIDE DEF y
<1>2. b * x \in Int /\ b * y \in Int
  BY <1>1
<1>3. x > y => b * x >= b * y + b
  <2>1. x > y => x - y - 1 \in Nat
    BY <1>1
  <2>2. x > y => b * (x - y - 1) >= 0
    BY <2>1
  <2>3. b * (x - y - 1) = b * x - b * y - b
    BY <1>1
  <2> QED BY <1>2, <2>2, <2>3
<1>4. y > x => b * y >= b * x + b
  <2>1. y > x => y - x - 1 \in Nat
    BY <1>1
  <2>2. y > x => b * (y - x - 1) >= 0
    BY <2>1
  <2>3. b * (y - x - 1) = b * y - b * x - b
    BY <1>1
  <2> QED BY <1>2, <2>2, <2>3
<1>5. ~ (x > y) /\ ~ (y > x)
  BY <1>1, <1>2, <1>3, <1>4
<1> QED BY <1>1, <1>5 DEF y

(***************************************************************************)
(* Division towards zero is the only quotient whose remainder is smaller   *)
(* than the divisor and has the sign of the dividend.                      *)
(***************************************************************************)
LEMMA DivisionTowardsZero ==
    ASSUME NEW m \in Int, NEW n \in Int, n # 0, NEW q \in Int,
           - Abs(n) < m - q * n, m - q * n < Abs(n),
           m - q * n # 0 => (m - q * n < 0) = (m < 0)
    PROVE  q = SDiv(m, n)
<1> DEFINE a == Abs(m)
           b == Abs(n)
<1>1. /\ a \in Nat /\ b \in Nat \ {0}
      /\ m < 0 => a = - m
      /\ ~ (m < 0) => a = m
      /\ n < 0 => b = - n
      /\ ~ (n < 0) => b = n
  BY DEF Abs
<1>2. q * n \in Int
  OBVIOUS
<1>3. /\ m < 0 => m - q * n <= 0
      /\ ~ (m < 0) => m - q * n >= 0
  BY <1>2
<1>4. - b < m - q * n /\ m - q * n < b
  OBVIOUS
<1> HIDE DEF a, b
<1>5. CASE (m < 0) = (n < 0)
  <2>1. a - b * q = m - q * n \/ a - b * q = - (m - q * n)
    BY <1>1, <1>5
  <2>2. m < 0 => a - b * q = - (m - q * n)
    BY <1>1, <1>5
  <2>3. ~ (m < 0) => a - b * q = m - q * n
    BY <1>1, <1>5
  <2>4. b * q \in Int
    BY <1>1
  <2>5. 0 <= a - b * q /\ a - b * q < b
    BY <1>1, <1>2, <1>3, <1>4, <2>2, <2>3, <2>4
  <2>6. q = a \div b
    BY <1>1, <2>5, OneQuotient
  <2> QED BY <1>5, <2>6 DEF SDiv, a, b
<1>6. CASE (m < 0) # (n < 0)
  <2> DEFINE x == - q
  <2>1. x \in Int /\ q = - x
    OBVIOUS
  <2>2. m < 0 => a - b * x = - (m - q * n)
    BY <1>1, <1>6
  <2>3. ~ (m < 0) => a - b * x = m - q * n
    BY <1>1, <1>6
  <2> HIDE DEF x
  <2>4. b * x \in Int
    BY <1>1, <2>1
  <2>5. 0 <= a - b * x /\ a - b * x < b
    BY <1>1, <1>2, <1>3, <1>4, <2>2, <2>3, <2>4
  <2>6. x = a \div b
    BY <1>1, <2>1, <2>5, OneQuotient
  <2>7. q = - (a \div b)
    BY <2>1, <2>6
  <2> QED BY <1>6, <2>7 DEF SDiv, a, b
<1> QED BY <1>5, <1>6

-----------------------------------------------------------------------------
(***************************************************************************)
(* A number of w bits and its signed value, in the code and in MLIR.       *)
(***************************************************************************)
Number(w, n) == [width |-> w, bits |-> n]

LEMMA SignedIsSExt ==
    ASSUME NEW w \in Nat \ {0}, NEW n \in 0 .. 2^w - 1
    PROVE  /\ Signed(w, n) = SExtValue(Number(w, n))
           /\ Signed(w, n) \in Int
           /\ Signed(w, n) \in - 2^(w - 1) .. 2^(w - 1) - 1
           /\ Signed(w, n) % 2^w = n
           /\ Signed(w, n) = 0 <=> n = 0
<1> DEFINE P == 2^w
           H == 2^(w - 1)
           m == IF n >= H THEN n - P ELSE n
<1>1. P \in Nat \ {0} /\ H \in Nat \ {0} /\ P = 2 * H /\ n \in 0 .. P - 1
  BY Word
<1>2. SExtValue(Number(w, n)) = m
  BY DEF SExtValue, Number
<1>3. Signed(w, n) = CHOOSE k \in - H .. H - 1 : (k - n) % P = 0
  BY DEF Signed
<1> HIDE DEF P, H
<1>4. m \in Int /\ m \in - H .. H - 1 /\ (m = 0 <=> n = 0)
  BY <1>1
<1>5. (m - n) % P = 0
  <2>1. m - n = 0 \/ m - n = - P
    BY <1>1
  <2>2. 0 \in 0 .. P - 1 /\ - P \in Int /\ 0 \in Int /\ - P + P = 0
    BY <1>1
  <2>3. 0 % P = 0
    BY <1>1, <2>2
  <2> DEFINE k == - P
  <2>4. k \in Int /\ k + P \in 0 .. P - 1 /\ k + P = 0
    BY <1>1, <2>2
  <2> HIDE DEF k
  <2>5. k % P = 0
    BY <1>1, <2>4, Remainder
  <2> QED BY <2>1, <2>3, <2>5 DEF k
<1>6. ASSUME NEW k \in - H .. H - 1, (k - n) % P = 0
      PROVE  k = m
  <2> DEFINE d == k - n
  <2>1. d \in Int /\ - 2 * P < d /\ d < P /\ d % P = 0 /\ k = n + d
    BY <1>1, <1>6
  <2> HIDE DEF d
  <2>2. d = 0 \/ d = - P
    BY <1>1, <2>1, Remainder
  <2> QED BY <1>1, <2>1, <2>2
<1>7. m % P = n
  <2>1. m = n \/ m + P = n
    BY <1>1
  <2> HIDE DEF m
  <2> QED BY <1>1, <1>4, <2>1, Remainder
<1> HIDE DEF m
<1>8. Signed(w, n) = m
  BY <1>3, <1>4, <1>5, <1>6
<1> QED BY <1>2, <1>4, <1>7, <1>8 DEF P, H

LEMMA APIntType ==
    ASSUME NEW w \in 1 .. IndexWidth, NEW n \in Int
    PROVE  /\ APInt(w, n) \in APInts
           /\ APInt(w, n) = Number(w, n % 2^w)
           /\ APInt(w, n).width = w
           /\ n % 2^w \in 0 .. 2^w - 1
<1>1. w \in Nat \ {0}
  BY WidthsAssumption
<1>2. 2^w \in Nat \ {0}
  BY <1>1, Word
<1>3. n % 2^w \in 0 .. 2^w - 1
  BY <1>2, Remainder
<1>4. APInt(w, n) = Number(w, n % 2^w)
  BY DEF APInt, Number
<1>5. APInt(w, n) \in [width : {w}, bits : 0 .. 2^w - 1]
  BY <1>3, <1>4 DEF Number
<1>6. APInt(w, n).width = w
  BY <1>4 DEF Number
<1> QED BY <1>3, <1>4, <1>5, <1>6 DEF APInts

LEMMA NumberType ==
    ASSUME NEW a \in APInts
    PROVE  /\ a.width \in 1 .. IndexWidth /\ a.width \in Nat \ {0}
           /\ a.bits \in 0 .. 2^(a.width) - 1 /\ a.bits \in Int
           /\ a = Number(a.width, a.bits)
           /\ SExtValue(a) \in Int
<1>1. PICK w \in 1 .. IndexWidth : a \in [width : {w}, bits : 0 .. 2^w - 1]
  BY DEF APInts
<1>2. /\ a.width = w /\ a.bits \in 0 .. 2^w - 1
      /\ a = [width |-> a.width, bits |-> a.bits]
  BY <1>1
<1>3. w \in Nat \ {0}
  BY WidthsAssumption
<1>4. a = Number(w, a.bits)
  BY <1>2 DEF Number
<1>5. 2^w \in Nat
  BY <1>3, Word
<1>6. a.bits \in Int
  BY <1>2, <1>5
<1>7. SExtValue(a) \in Int
  BY <1>2, <1>3, <1>4, SignedIsSExt
<1> QED BY <1>2, <1>3, <1>4, <1>6, <1>7

\* Extension keeps a number that has the width already.
LEMMA SExtType ==
    ASSUME NEW a \in APInts, NEW w \in 1 .. IndexWidth
    PROVE  /\ SExt(a, w) \in APInts /\ SExt(a, w).width = w
           /\ a.width = w => SExt(a, w) = a
<1>1. SExtValue(a) \in Int
  BY NumberType
<1>2. SExt(a, w) = APInt(w, SExtValue(a))
  BY DEF SExt
<1>3. ASSUME a.width = w
      PROVE  SExtValue(a) % 2^w = a.bits
  BY <1>3, NumberType, SignedIsSExt
<1>4. a.width = w => SExt(a, w) = a
  BY <1>1, <1>2, <1>3, APIntType, NumberType
<1> QED BY <1>1, <1>2, <1>4, APIntType

-----------------------------------------------------------------------------
(***************************************************************************)
(* The inductive invariant: the types, the two properties, and that the    *)
(* meanings are a function of the values.  MatchesMlir alone says nothing  *)
(* of what undefined operands leave behind, and the next division or sum   *)
(* is of some width only because WidthsStayKnown says so.                  *)
(***************************************************************************)
IInv ==
    /\ TypeOK
    /\ meant = [v \in Value |-> meant[v]]
    /\ MatchesMlir
    /\ WidthsStayKnown

\* An operation that a loop body may have.
Typed(isa) ==
    /\ isa \in Operation
    /\ TypeWidth[isa.lhs] = TypeWidth[isa.rhs]
    /\ isa.op \notin {"cmpi", "index_cast"} =>
          TypeWidth[isa.result] = TypeWidth[isa.lhs]
    /\ isa.op = "cmpi" => TypeWidth[isa.result] = 1

LEMMA OperationType ==
    ASSUME NEW isa \in Operation
    PROVE  /\ isa.lhs \in Value /\ isa.rhs \in Value /\ isa.result \in Value
           /\ isa.predicate \in Predicate
           /\ isa.op \in {"addi", "subi", "muli", "divsi", "cmpi", "index_cast"}
           /\ TypeWidth[isa.lhs] \in 1 .. IndexWidth
           /\ TypeWidth[isa.rhs] \in 1 .. IndexWidth
           /\ TypeWidth[isa.result] \in 1 .. IndexWidth
BY WidthsAssumption DEF Operation

\* What is read of a value.
LEMMA IntValueType ==
    ASSUME IInv, NEW v \in Value
    PROVE  /\ IntValue(v) \in APInts
           /\ IntValue(v).width \in {TypeWidth[v], IndexWidth}
           /\ meant[v] # Unset =>
                 /\ IntValue(v) = Number(TypeWidth[v], meant[v])
                 /\ meant[v] \in 0 .. 2^(TypeWidth[v]) - 1
<1>1. IndexWidth \in 1 .. IndexWidth /\ TypeWidth[v] \in 1 .. IndexWidth
  BY WidthsAssumption
<1>2. APInt(IndexWidth, 0) \in APInts /\ APInt(IndexWidth, 0).width = IndexWidth
  BY <1>1, APIntType
<1>3. values[v] \in APInts \cup {Unset}
  BY DEF IInv, TypeOK
<1>4. /\ IntValue(v) \in APInts
      /\ IntValue(v).width \in {TypeWidth[v], IndexWidth}
  BY <1>2, <1>3 DEF IntValue, IInv, WidthsStayKnown
<1>5. ASSUME meant[v] # Unset
      PROVE  /\ IntValue(v) = Number(TypeWidth[v], meant[v])
             /\ meant[v] \in 0 .. 2^(TypeWidth[v]) - 1
  <2>1. meant[v] \in 0 .. 2^(TypeWidth[v]) - 1
    BY <1>5 DEF IInv, TypeOK
  <2>2. values[v] = Number(TypeWidth[v], meant[v])
    BY <1>5 DEF IInv, MatchesMlir, Number
  <2>3. values[v] \in [width : {TypeWidth[v]}, bits : 0 .. 2^(TypeWidth[v]) - 1]
    BY <2>1, <2>2 DEF Number
  <2>4. values[v] \in APInts
    BY <1>1, <2>3 DEF APInts
  <2>5. values[v] # Unset
    BY <2>4, UnsetAssumption
  <2> QED BY <2>1, <2>2, <2>5 DEF IntValue
<1> QED BY <1>4, <1>5

(***************************************************************************)
(* The operands as they are computed with: at the wider of their widths,   *)
(* and unchanged where both are defined.                                   *)
(***************************************************************************)
LEMMA OperandsType ==
    ASSUME IInv, NEW isa, Typed(isa)
    PROVE  /\ MaxBits(isa) \in 1 .. IndexWidth
           /\ MaxBits(isa) \in {TypeWidth[isa.lhs], IndexWidth}
           /\ LhsExt(isa) \in APInts /\ LhsExt(isa).width = MaxBits(isa)
           /\ RhsExt(isa) \in APInts /\ RhsExt(isa).width = MaxBits(isa)
           /\ Lhs(isa) \in APInts
<1>1. isa \in Operation /\ TypeWidth[isa.lhs] = TypeWidth[isa.rhs]
  BY DEF Typed
<1>2. /\ Lhs(isa) \in APInts /\ Lhs(isa).width \in {TypeWidth[isa.lhs], IndexWidth}
      /\ Rhs(isa) \in APInts /\ Rhs(isa).width \in {TypeWidth[isa.lhs], IndexWidth}
  BY <1>1, OperationType, IntValueType DEF Lhs, Rhs
<1>3. /\ MaxBits(isa) \in 1 .. IndexWidth
      /\ MaxBits(isa) \in {TypeWidth[isa.lhs], IndexWidth}
  BY <1>2, NumberType DEF MaxBits, Widest
<1> QED BY <1>2, <1>3, SExtType DEF LhsExt, RhsExt

LEMMA OperandsDefined ==
    ASSUME IInv, NEW isa, Typed(isa),
           meant[isa.lhs] # Unset, meant[isa.rhs] # Unset
    PROVE  LET w == TypeWidth[isa.lhs] IN
           /\ w \in 1 .. IndexWidth /\ MaxBits(isa) = w
           /\ Lhs(isa) = Number(w, meant[isa.lhs])
           /\ LhsExt(isa) = Number(w, meant[isa.lhs])
           /\ RhsExt(isa) = Number(w, meant[isa.rhs])
           /\ meant[isa.lhs] \in 0 .. 2^w - 1
           /\ meant[isa.rhs] \in 0 .. 2^w - 1
<1> DEFINE w == TypeWidth[isa.lhs]
<1>1. isa \in Operation /\ TypeWidth[isa.rhs] = w
  BY DEF Typed
<1>2. isa.lhs \in Value /\ isa.rhs \in Value /\ w \in 1 .. IndexWidth
  BY <1>1, OperationType
<1> HIDE DEF w
<1>3. /\ Lhs(isa) \in APInts /\ Lhs(isa) = Number(w, meant[isa.lhs])
      /\ Rhs(isa) \in APInts /\ Rhs(isa) = Number(w, meant[isa.rhs])
      /\ meant[isa.lhs] \in 0 .. 2^w - 1
      /\ meant[isa.rhs] \in 0 .. 2^w - 1
  BY <1>1, <1>2, IntValueType DEF Lhs, Rhs, w
<1>4. Lhs(isa).width = w /\ Rhs(isa).width = w
  BY <1>3 DEF Number
<1>5. MaxBits(isa) = w
  BY <1>4 DEF MaxBits, Widest
<1>6. LhsExt(isa) = Lhs(isa) /\ RhsExt(isa) = Rhs(isa)
  BY <1>2, <1>3, <1>4, <1>5, SExtType DEF LhsExt, RhsExt
<1> QED BY <1>2, <1>3, <1>5, <1>6 DEF w

-----------------------------------------------------------------------------
(***************************************************************************)
(* One operation.                                                          *)
(***************************************************************************)
\* A number is computed, of the width of the result or of index.
LEMMA ExecuteType ==
    ASSUME IInv, NEW isa, Typed(isa)
    PROVE  /\ Execute(isa) \in APInts \cup {Unset}
           /\ Execute(isa) # Unset =>
                 Execute(isa).width \in {TypeWidth[isa.result], IndexWidth}
<1> DEFINE Known(a) == a \in APInts /\ a.width \in {TypeWidth[isa.result], IndexWidth}
<1>1. isa \in Operation
  BY DEF Typed
<1>2. /\ isa.result \in Value /\ TypeWidth[isa.result] \in 1 .. IndexWidth
      /\ isa.op \in {"addi", "subi", "muli", "divsi", "cmpi", "index_cast"}
  BY <1>1, OperationType
<1>3. /\ MaxBits(isa) \in 1 .. IndexWidth
      /\ MaxBits(isa) \in {TypeWidth[isa.lhs], IndexWidth}
      /\ LhsExt(isa) \in APInts /\ RhsExt(isa) \in APInts /\ Lhs(isa) \in APInts
  BY OperandsType
<1>4. /\ LhsExt(isa).bits \in Int /\ RhsExt(isa).bits \in Int
      /\ SExtValue(LhsExt(isa)) \in Int /\ SExtValue(RhsExt(isa)) \in Int
      /\ SExtValue(Lhs(isa)) \in Int
  BY <1>3, NumberType
<1>5. ASSUME NEW n \in Int, isa.op \in {"addi", "subi", "muli"}
      PROVE  Known(APInt(MaxBits(isa), n))
  <2>1. TypeWidth[isa.result] = TypeWidth[isa.lhs]
    BY <1>5 DEF Typed
  <2> QED BY <1>3, <2>1, APIntType
<1>6. ASSUME NEW n \in Int
      PROVE  Known(APInt(TypeWidth[isa.result], n))
  BY <1>2, APIntType
<1>7. CASE isa.op = "addi"
  <2>1. LhsExt(isa).bits + RhsExt(isa).bits \in Int
    BY <1>4
  <2>2. Known(AddiExecute(isa))
    BY <1>5, <1>7, <2>1 DEF AddiExecute
  <2> QED BY <1>7, <2>2 DEF Execute
<1>8. CASE isa.op = "subi"
  <2>1. LhsExt(isa).bits - RhsExt(isa).bits \in Int
    BY <1>4
  <2>2. Known(SubiExecute(isa))
    BY <1>5, <1>8, <2>1 DEF SubiExecute
  <2> QED BY <1>8, <2>2 DEF Execute
<1>9. CASE isa.op = "muli"
  <2>1. LhsExt(isa).bits * RhsExt(isa).bits \in Int
    BY <1>4
  <2>2. Known(MuliExecute(isa))
    BY <1>5, <1>9, <2>1 DEF MuliExecute
  <2> QED BY <1>9, <2>2 DEF Execute
<1>10. CASE isa.op = "divsi"
  <2>1. CASE RhsExt(isa).bits = 0
    <3>1. Execute(isa) = values[isa.result]
      BY <1>10, <2>1 DEF Execute, DiviExecute
    <3> QED BY <1>2, <3>1 DEF IInv, TypeOK, WidthsStayKnown
  <2>2. CASE RhsExt(isa).bits # 0
    <3> DEFINE m == SExtValue(LhsExt(isa))
               n == SExtValue(RhsExt(isa))
    <3>1. n # 0
      <4>1. /\ RhsExt(isa).width \in Nat \ {0}
            /\ RhsExt(isa).bits \in 0 .. 2^(RhsExt(isa).width) - 1
            /\ RhsExt(isa) = Number(RhsExt(isa).width, RhsExt(isa).bits)
        BY <1>3, NumberType
      <4> QED BY <2>2, <4>1, SignedIsSExt
    <3>2. SDiv(m, n) \in Int
      <4> HIDE DEF m, n
      <4>1. m \in Int /\ n \in Int
        BY <1>4 DEF m, n
      <4>2. Abs(m) \in Int /\ Abs(n) \in Nat \ {0}
        BY <3>1, <4>1 DEF Abs
      <4>3. Abs(m) \div Abs(n) \in Int
        BY <4>2
      <4> QED BY <4>3 DEF SDiv
    <3>3. Execute(isa) = APInt(TypeWidth[isa.result], SDiv(m, n))
      BY <1>10, <2>2 DEF Execute, DiviExecute
    <3> HIDE DEF m, n
    <3> QED BY <1>6, <3>2, <3>3
  <2> QED BY <2>1, <2>2
<1>11. CASE isa.op = "cmpi"
  <2>1. TypeWidth[isa.result] = 1
    BY <1>11 DEF Typed
  <2>2. /\ 0 \in Int /\ 1 \in Int
        /\ CmpiExecute(isa) = APInt(1, 0) \/ CmpiExecute(isa) = APInt(1, 1)
    BY DEF CmpiExecute
  <2>3. Known(CmpiExecute(isa))
    BY <1>6, <2>1, <2>2
  <2> QED BY <1>11, <2>3 DEF Execute
<1>12. CASE isa.op = "index_cast"
  <2>1. Known(IndexCastExecute(isa))
    BY <1>4, <1>6 DEF IndexCastExecute
  <2> QED BY <1>12, <2>1 DEF Execute
<1> QED BY <1>2, <1>7, <1>8, <1>9, <1>10, <1>11, <1>12

\* An operation does what MLIR says of it, where MLIR says anything.
Agrees(isa) ==
    /\ Meaning(isa) \in 0 .. 2^(TypeWidth[isa.result]) - 1 \cup {Unset}
    /\ Meaning(isa) # Unset =>
          Execute(isa) = Number(TypeWidth[isa.result], Meaning(isa))

\* Sums, differences and products wrap as MLIR's do.
LEMMA WrappingAgrees ==
    ASSUME IInv, NEW isa, Typed(isa), isa.op \in {"addi", "subi", "muli"},
           meant[isa.lhs] # Unset, meant[isa.rhs] # Unset
    PROVE  Agrees(isa)
<1> DEFINE w == TypeWidth[isa.lhs]
           m == meant[isa.lhs]
           n == meant[isa.rhs]
<1>1. /\ w \in 1 .. IndexWidth /\ MaxBits(isa) = w
      /\ LhsExt(isa) = Number(w, m) /\ RhsExt(isa) = Number(w, n)
      /\ m \in 0 .. 2^w - 1 /\ n \in 0 .. 2^w - 1
  BY OperandsDefined
<1>2. TypeWidth[isa.result] = w
  BY DEF Typed
<1>3. LhsExt(isa).bits = m /\ RhsExt(isa).bits = n
  BY <1>1 DEF Number
<1>4. m \in Int /\ n \in Int
  <2>1. w \in Nat \ {0}
    BY <1>1, WidthsAssumption
  <2>2. 2^w \in Nat
    BY <2>1, Word
  <2> HIDE DEF w, m, n
  <2> QED BY <1>1, <2>2
<1>5. CASE isa.op = "addi"
  <2>1. Meaning(isa) = (m + n) % 2^w
    BY <1>5 DEF Meaning
  <2>2. Execute(isa) = APInt(w, m + n)
    BY <1>1, <1>3, <1>5 DEF Execute, AddiExecute
  <2>3. m + n \in Int
    BY <1>4
  <2> HIDE DEF w, m, n
  <2> QED BY <1>1, <1>2, <2>1, <2>2, <2>3, APIntType DEF Agrees
<1>6. CASE isa.op = "subi"
  <2>1. Meaning(isa) = (m - n) % 2^w
    BY <1>6 DEF Meaning
  <2>2. Execute(isa) = APInt(w, m - n)
    BY <1>1, <1>3, <1>6 DEF Execute, SubiExecute
  <2>3. m - n \in Int
    BY <1>4
  <2> HIDE DEF w, m, n
  <2> QED BY <1>1, <1>2, <2>1, <2>2, <2>3, APIntType DEF Agrees
<1>7. CASE isa.op = "muli"
  <2>1. Meaning(isa) = (m * n) % 2^w
    BY <1>7 DEF Meaning
  <2>2. Execute(isa) = APInt(w, m * n)
    BY <1>1, <1>3, <1>7 DEF Execute, MuliExecute
  <2>3. m * n \in Int
    BY <1>4
  <2> HIDE DEF w, m, n
  <2> QED BY <1>1, <1>2, <2>1, <2>2, <2>3, APIntType DEF Agrees
<1> QED BY <1>5, <1>6, <1>7

\* A quotient that MLIR defines is the one the code computes.
LEMMA DiviAgrees ==
    ASSUME IInv, NEW isa, Typed(isa), isa.op = "divsi",
           meant[isa.lhs] # Unset, meant[isa.rhs] # Unset
    PROVE  Agrees(isa)
<1> DEFINE w  == TypeWidth[isa.lhs]
           m  == meant[isa.lhs]
           n  == meant[isa.rhs]
           sm == Signed(w, m)
           sn == Signed(w, n)
           Q  == Quotients(w, sm, sn)
<1>1. /\ w \in 1 .. IndexWidth
      /\ LhsExt(isa) = Number(w, m) /\ RhsExt(isa) = Number(w, n)
      /\ m \in 0 .. 2^w - 1 /\ n \in 0 .. 2^w - 1
  BY OperandsDefined
<1>2. TypeWidth[isa.result] = w
  BY DEF Typed
<1>3. Meaning(isa) = IF n = 0 \/ Q = {} THEN Unset ELSE (CHOOSE q \in Q : TRUE) % 2^w
  BY DEF Meaning
<1>4. CASE n = 0 \/ Q = {}
  BY <1>3, <1>4 DEF Agrees
<1>5. CASE ~ (n = 0 \/ Q = {})
  <2>1. w \in Nat \ {0}
    BY <1>1, WidthsAssumption
  <2>2. /\ sm \in Int /\ sn \in Int /\ (sn = 0 <=> n = 0)
        /\ SExtValue(LhsExt(isa)) = sm /\ SExtValue(RhsExt(isa)) = sn
    <3> HIDE DEF w, m, n
    <3> QED BY <1>1, <2>1, SignedIsSExt
  <2>3. RhsExt(isa).bits # 0
    BY <1>1, <1>5 DEF Number
  <2>4. Execute(isa) = APInt(w, SDiv(sm, sn))
    BY <1>2, <2>2, <2>3 DEF Execute, DiviExecute
  <2>5. 2^(w - 1) \in Nat
    <3> HIDE DEF w
    <3> QED BY <2>1, Word
  <2> HIDE DEF sm, sn
  <2>6. ASSUME NEW q \in Q
        PROVE  q = SDiv(sm, sn) /\ q \in Int
    <3> DEFINE r == sm - q * sn
    <3>1. /\ q \in - 2^(w - 1) .. 2^(w - 1) - 1
          /\ - Abs(sn) < r /\ r < Abs(sn)
          /\ r # 0 => (r < 0) = (sm < 0)
      BY <2>6 DEF Quotients
    <3>2. q \in Int
      <4> HIDE DEF w
      <4> QED BY <2>5, <3>1
    <3> QED BY <1>5, <2>2, <3>1, <3>2, DivisionTowardsZero
  <2> DEFINE q == CHOOSE k \in Q : TRUE
  <2>7. q \in Q
    BY <1>5
  <2>8. q = SDiv(sm, sn) /\ q \in Int
    BY <2>6, <2>7
  <2>9. Meaning(isa) = q % 2^w
    BY <1>3, <1>5 DEF sm, sn
  <2> HIDE DEF w, m, n, Q, q
  <2>10. Execute(isa) = Number(w, q % 2^w) /\ q % 2^w \in 0 .. 2^w - 1
    BY <1>1, <2>4, <2>8, APIntType
  <2> QED BY <1>2, <2>9, <2>10 DEF Agrees
<1> QED BY <1>4, <1>5

\* Comparisons of signed and of unsigned numbers.
LEMMA CmpiAgrees ==
    ASSUME IInv, NEW isa, Typed(isa), isa.op = "cmpi",
           meant[isa.lhs] # Unset, meant[isa.rhs] # Unset
    PROVE  Agrees(isa)
<1> DEFINE w  == TypeWidth[isa.lhs]
           m  == meant[isa.lhs]
           n  == meant[isa.rhs]
           p  == isa.predicate
           sm == Signed(w, m)
           sn == Signed(w, n)
<1>1. /\ w \in 1 .. IndexWidth
      /\ LhsExt(isa) = Number(w, m) /\ RhsExt(isa) = Number(w, n)
      /\ m \in 0 .. 2^w - 1 /\ n \in 0 .. 2^w - 1
  BY OperandsDefined
<1>2. TypeWidth[isa.result] = 1 /\ p \in Predicate
  BY OperationType DEF Typed
<1>3. w \in Nat \ {0}
  BY <1>1, WidthsAssumption
<1>4. Compare(p, LhsExt(isa), RhsExt(isa)) <=> Holds(p, w, m, n)
  <2> HIDE DEF w, m, n, p
  <2>1. m \in Int /\ n \in Int
    <3>1. 2^w \in Nat
      BY <1>3, Word
    <3> QED BY <1>1, <3>1
  <2>2. /\ sm \in Int /\ sn \in Int
        /\ SExtValue(LhsExt(isa)) = sm /\ SExtValue(RhsExt(isa)) = sn
        /\ sm = sn <=> m = n
    <3>1. sm % 2^w = m /\ sn % 2^w = n
      BY <1>1, <1>3, SignedIsSExt
    <3> QED BY <1>1, <1>3, <3>1, SignedIsSExt
  <2>3. LhsExt(isa).bits = m /\ RhsExt(isa).bits = n
    BY <1>1 DEF Number
  <2>4. Holds(p, w, m, n) <=>
           LET less == IF p \in {"slt", "sle", "sgt", "sge"} THEN sm < sn ELSE m < n IN
           CASE p \in {"slt", "ult"} -> less
             [] p \in {"sgt", "ugt"} -> ~ less /\ m # n
             [] p \in {"sle", "ule"} -> less \/ m = n
             [] p \in {"sge", "uge"} -> ~ less
             [] p = "eq"             -> m = n
             [] p = "ne"             -> m # n
    BY DEF Holds
  <2> HIDE DEF sm, sn
  <2>5. CASE p \in {"eq", "ne"}
    BY <2>3, <2>4, <2>5 DEF Compare
  <2>6. CASE p \in {"slt", "sle", "sgt", "sge"}
    <3>1. /\ p = "slt" => (Compare(p, LhsExt(isa), RhsExt(isa)) <=> sm < sn)
          /\ p = "sle" => (Compare(p, LhsExt(isa), RhsExt(isa)) <=> sm <= sn)
          /\ p = "sgt" => (Compare(p, LhsExt(isa), RhsExt(isa)) <=> sm > sn)
          /\ p = "sge" => (Compare(p, LhsExt(isa), RhsExt(isa)) <=> sm >= sn)
      BY <2>2 DEF Compare
    <3>2. /\ p = "slt" => (Holds(p, w, m, n) <=> sm < sn)
          /\ p = "sle" => (Holds(p, w, m, n) <=> sm < sn \/ m = n)
          /\ p = "sgt" => (Holds(p, w, m, n) <=> ~ (sm < sn) /\ m # n)
          /\ p = "sge" => (Holds(p, w, m, n) <=> ~ (sm < sn))
      BY <2>4
    <3> QED BY <2>2, <2>6, <3>1, <3>2
  <2>7. CASE p \in {"ult", "ule", "ugt", "uge"}
    <3>1. /\ p = "ult" => (Compare(p, LhsExt(isa), RhsExt(isa)) <=> m < n)
          /\ p = "ule" => (Compare(p, LhsExt(isa), RhsExt(isa)) <=> m <= n)
          /\ p = "ugt" => (Compare(p, LhsExt(isa), RhsExt(isa)) <=> m > n)
          /\ p = "uge" => (Compare(p, LhsExt(isa), RhsExt(isa)) <=> m >= n)
      BY <2>3 DEF Compare
    <3>2. /\ p = "ult" => (Holds(p, w, m, n) <=> m < n)
          /\ p = "ule" => (Holds(p, w, m, n) <=> m < n \/ m = n)
          /\ p = "ugt" => (Holds(p, w, m, n) <=> ~ (m < n) /\ m # n)
          /\ p = "uge" => (Holds(p, w, m, n) <=> ~ (m < n))
      BY <2>4
    <3> QED BY <2>1, <2>7, <3>1, <3>2
  <2> QED BY <1>2, <2>5, <2>6, <2>7 DEF Predicate
<1>5. ASSUME NEW k \in {0, 1}
      PROVE  APInt(1, k) = Number(1, k) /\ k \in 0 .. 2^1 - 1
  <2>1. 2^1 \in Nat /\ 2^1 > 1
    BY Word
  <2>2. k \in 0 .. 2^1 - 1 /\ k \in Int /\ 2^1 \in Nat \ {0}
    BY <2>1
  <2>3. k % 2^1 = k
    BY <2>2, Remainder
  <2> QED BY <2>2, <2>3 DEF APInt, Number
<1> DEFINE k == IF Holds(p, w, m, n) THEN 1 ELSE 0
<1>6. Meaning(isa) = k
  BY DEF Meaning
<1>7. Execute(isa) = APInt(1, k)
  BY <1>4 DEF Execute, CmpiExecute
<1>8. k \in {0, 1}
  OBVIOUS
<1> HIDE DEF k
<1> QED BY <1>2, <1>5, <1>6, <1>7, <1>8 DEF Agrees

\* A cast takes the signed value to the width of its result.
LEMMA CastAgrees ==
    ASSUME IInv, NEW isa, Typed(isa), isa.op = "index_cast",
           meant[isa.lhs] # Unset, meant[isa.rhs] # Unset
    PROVE  Agrees(isa)
<1> DEFINE w == TypeWidth[isa.lhs]
           m == meant[isa.lhs]
           t == TypeWidth[isa.result]
<1>1. /\ w \in 1 .. IndexWidth /\ Lhs(isa) = Number(w, m) /\ m \in 0 .. 2^w - 1
  BY OperandsDefined
<1>2. t \in 1 .. IndexWidth
  BY OperationType DEF Typed
<1>3. w \in Nat \ {0}
  BY <1>1, WidthsAssumption
<1>4. Meaning(isa) = Signed(w, m) % 2^t
  BY DEF Meaning
<1>5. Execute(isa) = APInt(t, SExtValue(Lhs(isa)))
  BY DEF Execute, IndexCastExecute
<1> HIDE DEF w, m, t
<1>6. SExtValue(Lhs(isa)) = Signed(w, m) /\ Signed(w, m) \in Int
  BY <1>1, <1>3, SignedIsSExt
<1> QED BY <1>2, <1>4, <1>5, <1>6, APIntType DEF Agrees, t

LEMMA ExecuteAgrees ==
    ASSUME IInv, NEW isa, Typed(isa)
    PROVE  Agrees(isa)
<1>1. CASE meant[isa.lhs] = Unset \/ meant[isa.rhs] = Unset
  <2>1. Meaning(isa) = Unset
    BY <1>1 DEF Meaning
  <2> QED BY <2>1 DEF Agrees
<1>2. CASE meant[isa.lhs] # Unset /\ meant[isa.rhs] # Unset
  <2>1. isa.op \in {"addi", "subi", "muli", "divsi", "cmpi", "index_cast"}
    BY OperationType DEF Typed
  <2> QED BY <1>2, <2>1, WrappingAgrees, DiviAgrees, CmpiAgrees, CastAgrees
<1> QED BY <1>1, <1>2

-----------------------------------------------------------------------------
(***************************************************************************)
(* IInv is inductive.                                                      *)
(***************************************************************************)
LEMMA IInvInit == Init => IInv
<1> SUFFICES ASSUME Init
             PROVE  IInv
  OBVIOUS
<1>1. /\ program \in Programs /\ next = Len(program) + 1
      /\ values = [v \in Value |-> Unset] /\ meant = [v \in Value |-> Unset]
  BY DEF Init
<1>2. Len(program) \in Nat
  BY <1>1, ProgramsAssumption
<1>3. next \in 1 .. Len(program) + 1
  BY <1>1, <1>2
<1> QED BY <1>1, <1>3 DEF IInv, TypeOK, MatchesMlir, WidthsStayKnown

LEMMA BeginIterationStep ==
    ASSUME IInv, BeginIteration
    PROVE  IInv'
<1>1. PICK bits \in [Inputs -> 0 .. 2^IndexWidth - 1] :
         /\ \A v \in Inputs : bits[v] < 2^(TypeWidth[v])
         /\ values' = [v \in Value |-> IF v \in Inputs THEN APInt(TypeWidth[v], bits[v])
                                      ELSE values[v]]
         /\ meant' = [v \in Value |-> IF v \in Inputs THEN bits[v] ELSE meant[v]]
  BY DEF BeginIteration
<1>2. ASSUME NEW v \in Inputs
      PROVE  /\ bits[v] \in 0 .. 2^(TypeWidth[v]) - 1
             /\ APInt(TypeWidth[v], bits[v]) = Number(TypeWidth[v], bits[v])
             /\ APInt(TypeWidth[v], bits[v]) \in APInts
             /\ TypeWidth[v] \in 1 .. IndexWidth
  <2> DEFINE w == TypeWidth[v]
             b == bits[v]
  <2>1. w \in 1 .. IndexWidth /\ w \in Nat \ {0} /\ IndexWidth \in Nat \ {0}
    BY WidthsAssumption
  <2>2. b \in 0 .. 2^IndexWidth - 1 /\ b < 2^w
    BY <1>1
  <2> HIDE DEF w, b
  <2>3. 2^w \in Nat \ {0} /\ 2^IndexWidth \in Nat
    BY <2>1, Word
  <2>4. b \in 0 .. 2^w - 1 /\ b \in Int
    BY <2>2, <2>3
  <2>5. b % 2^w = b
    BY <2>3, <2>4, Remainder
  <2>6. APInt(w, b) = Number(w, b) /\ APInt(w, b) \in APInts
    BY <2>1, <2>4, <2>5, APIntType
  <2> QED BY <2>1, <2>4, <2>6 DEF w, b
<1>3. program' = program /\ next' = 1 /\ program \in Programs
  BY DEF BeginIteration, IInv, TypeOK
<1>4. next' \in 1 .. Len(program') + 1
  <2>1. Len(program) \in Nat
    BY <1>3, ProgramsAssumption
  <2> QED BY <1>3, <2>1
<1>5. values' \in [Value -> APInts \cup {Unset}]
  BY <1>1, <1>2 DEF IInv, TypeOK
<1>6. ASSUME NEW v \in Value
      PROVE  /\ meant'[v] \in 0 .. 2^(TypeWidth[v]) - 1 \cup {Unset}
             /\ meant'[v] # Unset => values'[v] = Number(TypeWidth[v], meant'[v])
             /\ values'[v] # Unset => values'[v].width \in {TypeWidth[v], IndexWidth}
  <2>1. CASE v \in Inputs
    <3>1. /\ meant'[v] = bits[v] /\ values'[v] = Number(TypeWidth[v], bits[v])
      BY <1>1, <1>2, <2>1
    <3>2. values'[v].width = TypeWidth[v]
      BY <3>1 DEF Number
    <3> QED BY <1>2, <2>1, <3>1, <3>2
  <2>2. CASE v \notin Inputs
    <3>1. meant'[v] = meant[v] /\ values'[v] = values[v]
      BY <1>1, <2>2
    <3> QED BY <3>1 DEF IInv, TypeOK, MatchesMlir, WidthsStayKnown, Number
  <2> QED BY <2>1, <2>2
<1>7. meant' = [v \in Value |-> meant'[v]]
  BY <1>1
<1>8. TypeOK'
  BY <1>3, <1>4, <1>5, <1>6 DEF TypeOK
<1>9. MatchesMlir' /\ WidthsStayKnown'
  BY <1>6 DEF MatchesMlir, WidthsStayKnown, Number
<1> QED BY <1>7, <1>8, <1>9 DEF IInv

LEMMA ExecuteNextStep ==
    ASSUME IInv, ExecuteNext
    PROVE  IInv'
<1> DEFINE isa == program[next]
<1>1. /\ program \in Programs /\ next \in 1 .. Len(program) + 1 /\ next <= Len(program)
      /\ program' = program /\ next' = next + 1
      /\ values' = [values EXCEPT ![isa.result] = Execute(isa)]
      /\ meant' = [meant EXCEPT ![isa.result] = Meaning(isa)]
  BY DEF ExecuteNext, IInv, TypeOK
<1>2. program \in Seq(Operation) /\ Len(program) \in Nat
  BY <1>1, ProgramsAssumption
<1>3. next \in DOMAIN program /\ next' \in 1 .. Len(program') + 1
  BY <1>1, <1>2
<1>4. Typed(isa)
  <2>1. isa \in Operation
    BY <1>2, <1>3
  <2> QED BY <1>1, <1>3, <2>1, ProgramsAssumption DEF Typed
<1> HIDE DEF isa
<1>5. isa.result \in Value
  BY <1>4, OperationType DEF Typed
<1>6. /\ Execute(isa) \in APInts \cup {Unset}
      /\ Execute(isa) # Unset =>
            Execute(isa).width \in {TypeWidth[isa.result], IndexWidth}
  BY <1>4, ExecuteType
<1>7. /\ Meaning(isa) \in 0 .. 2^(TypeWidth[isa.result]) - 1 \cup {Unset}
      /\ Meaning(isa) # Unset =>
            Execute(isa) = Number(TypeWidth[isa.result], Meaning(isa))
  BY <1>4, ExecuteAgrees DEF Agrees
<1>8. values' \in [Value -> APInts \cup {Unset}]
  BY <1>1, <1>5, <1>6 DEF IInv, TypeOK
<1>9. /\ meant' = [v \in Value |-> meant'[v]]
      /\ \A v \in Value : meant'[v] = IF v = isa.result THEN Meaning(isa) ELSE meant[v]
  BY <1>1, <1>5 DEF IInv
<1>10. \A v \in Value : values'[v] = IF v = isa.result THEN Execute(isa) ELSE values[v]
  BY <1>1, <1>5 DEF IInv, TypeOK
<1>11. ASSUME NEW v \in Value
       PROVE  /\ meant'[v] \in 0 .. 2^(TypeWidth[v]) - 1 \cup {Unset}
              /\ meant'[v] # Unset => values'[v] = Number(TypeWidth[v], meant'[v])
              /\ values'[v] # Unset => values'[v].width \in {TypeWidth[v], IndexWidth}
  <2>1. CASE v = isa.result
    BY <1>6, <1>7, <1>9, <1>10, <2>1
  <2>2. CASE v # isa.result
    <3>1. meant'[v] = meant[v] /\ values'[v] = values[v]
      BY <1>9, <1>10, <2>2
    <3> QED BY <3>1 DEF IInv, TypeOK, MatchesMlir, WidthsStayKnown, Number
  <2> QED BY <2>1, <2>2
<1>12. TypeOK'
  BY <1>1, <1>3, <1>8, <1>11 DEF TypeOK
<1>13. MatchesMlir' /\ WidthsStayKnown'
  BY <1>11 DEF MatchesMlir, WidthsStayKnown, Number
<1> QED BY <1>9, <1>12, <1>13 DEF IInv

LEMMA IInvInvariant == Spec => []IInv
<1>1. IInv /\ [Next]_vars => IInv'
  <2> SUFFICES ASSUME IInv, [Next]_vars
               PROVE  IInv'
    OBVIOUS
  <2>1. CASE UNCHANGED vars
    BY <2>1 DEF vars, IInv, TypeOK, MatchesMlir, WidthsStayKnown
  <2> QED BY <2>1, BeginIterationStep, ExecuteNextStep DEF Next
<1> QED BY <1>1, IInvInit, PTL DEF Spec

(***************************************************************************)
(* Whatever body runs, a value holds a number of a width up to that of     *)
(* index, or was never set.                                                *)
(***************************************************************************)
THEOREM ArithTypeCorrect == Spec => []TypeOK
<1>1. IInv => TypeOK
  BY DEF IInv
<1> QED BY <1>1, IInvInvariant, PTL

(***************************************************************************)
(* Arithmetic is MLIR's: at every width of every value, and for every      *)
(* body, what the simulator stores is what MLIR says, wherever it says     *)
(* anything.                                                               *)
(***************************************************************************)
THEOREM ArithmeticMatchesMlir == Spec => []MatchesMlir
<1>1. IInv => MatchesMlir
  BY DEF IInv
<1> QED BY <1>1, IInvInvariant, PTL

(***************************************************************************)
(* Widths stay known: undefined operands never leave a number of another   *)
(* width than that of the value's type or of index.                        *)
(***************************************************************************)
THEOREM WidthsRemainKnown == Spec => []WidthsStayKnown
<1>1. IInv => WidthsStayKnown
  BY DEF IInv
<1> QED BY <1>1, IInvInvariant, PTL

=============================================================================
