--------------------------------- MODULE Isa ---------------------------------
(***************************************************************************)
(* The instructions (class Isa and its subclasses): the fields every       *)
(* instruction carries, and what Isa::execute does to the integer and      *)
(* float values of the context.                                            *)
(*                                                                         *)
(* Every operation the registry knows besides calls and returns            *)
(* (the arith and hivm ones) is one kind here, "Operation": it has a       *)
(* hardware unit and a latency, and execute() leaves one of `outcomes' in  *)
(* its result, or writes no scalar at all when `outcomes' is empty (the    *)
(* operations on buffers).                                                 *)
(***************************************************************************)
EXTENDS ExecutionUnits

CONSTANTS
    Value,      \* the SSA values the program names (mlir::Value)
    MinInt,     \* least signed integer of the operands' width
    MaxInt,     \* greatest signed integer of the operands' width
    Unset       \* no instruction has set the value: hasIntValue is false

ASSUME IntegersAssumption ==
    MinInt \in Int /\ MaxInt \in Int /\ MinInt <= 0 /\ 0 < MaxInt

\* The null value is one of them: a module without values has it too.
ASSUME ValueAssumption == Value # {}

Number == MinInt .. MaxInt

(***************************************************************************)
(* intValues and floatValues of the context in one map: an SSA value has   *)
(* one type, so at most one of the two C++ maps ever holds it.             *)
(***************************************************************************)
Store == [Value -> Number \cup {Unset}]

EmptyStore == [v \in Value |-> Unset]

HasValue(store, v) == store[v] # Unset

\* getIntValue answers APInt(64, 0) for a value that was never set.
IntValue(store, v) == IF HasValue(store, v) THEN store[v] ELSE 0

\* Mutant of WrappedSum: the sum keeps bits beyond the width.
UnboundedSum(m, n) == m + n

\* APInt addition wraps at the operands' width.
WrappedSum(m, n) == MinInt + ((m + n - MinInt) % (MaxInt - MinInt + 1))

IsaName == {"Operation", "YieldAssign", "IfYield", "Jump", "ConditionalJump",
            "Return", "ForInit", "ForCondition", "ForIncrement",
            "IfCondition", "FuncCall", "FuncReturn"}

Instruction == [isaName       : IsaName,
                pc            : Nat,
                jumpTarget    : Nat,
                fallthroughPC : Nat,
                condition     : Value,
                forIV         : Value,
                forLB         : Value,
                forUB         : Value,
                forStep       : Value,
                iterArgs      : Seq(Value),
                iterArgInits  : Seq(Value),
                isExternal    : BOOLEAN,
                targetUnit    : ExecutionUnitType,
                latency       : Nat,
                result        : Value,
                outcomes      : SUBSET Number]

(***************************************************************************)
(* A freshly constructed instruction: targets 0, unit Scalar, latency 1.   *)
(* The SSA fields of a fresh C++ object are null; nothing reads the ones   *)
(* its kind does not set, so any value stands for null.                    *)
(***************************************************************************)
NewInstruction(name) ==
    LET null == CHOOSE v \in Value : TRUE IN
    [isaName |-> name, pc |-> 0, jumpTarget |-> 0, fallthroughPC |-> 0,
     condition |-> null, forIV |-> null, forLB |-> null, forUB |-> null,
     forStep |-> null, result |-> null, iterArgs |-> <<>>, iterArgInits |-> <<>>,
     isExternal |-> FALSE, targetUnit |-> "Scalar", latency |-> 1,
     outcomes |-> {}]

(***************************************************************************)
(* Isa::Kind: calls, returns from functions and both yields keep the       *)
(* default kind of an ordinary operation.                                  *)
(***************************************************************************)
Kind(isa) ==
    IF isa.isaName \in {"Operation", "YieldAssign", "IfYield", "FuncCall", "FuncReturn"}
    THEN "Normal"
    ELSE isa.isaName

(***************************************************************************)
(* ForInitIsa::execute: the induction variable takes the lower bound, and  *)
(* an iteration argument takes its initial value when that one is set.     *)
(***************************************************************************)
ForInitExecute(isa, store) ==
    LET started == [store EXCEPT ![isa.forIV] = IntValue(store, isa.forLB)]
        Initial(arg) == {i \in DOMAIN isa.iterArgs \cap DOMAIN isa.iterArgInits :
                            /\ isa.iterArgs[i] = arg
                            /\ HasValue(started, isa.iterArgInits[i])}
    IN  [v \in Value |->
            IF Initial(v) = {} THEN started[v]
            ELSE started[isa.iterArgInits[CHOOSE i \in Initial(v) : TRUE]]]

\* Mutant of ForIncrementExecute: the step is lost.
ForIncrementLosesStep(isa, store) == store

(***************************************************************************)
(* ForIncrementIsa::execute: the induction variable moves by the step.     *)
(***************************************************************************)
ForIncrementExecute(isa, store) ==
    [store EXCEPT ![isa.forIV] =
        WrappedSum(IntValue(store, isa.forIV), IntValue(store, isa.forStep))]

(***************************************************************************)
(* YieldAssignIsa::execute: the yielded value (kept in condition) goes to  *)
(* the iteration argument (kept in forIV) when it is set.                  *)
(***************************************************************************)
YieldAssignExecute(isa, store) ==
    IF HasValue(store, isa.condition)
    THEN [store EXCEPT ![isa.forIV] = store[isa.condition]]
    ELSE store

\* The stores an operation may leave.
OperationExecute(isa, store) ==
    IF isa.outcomes = {} THEN {store}
    ELSE {[store EXCEPT ![isa.result] = n] : n \in isa.outcomes}

(***************************************************************************)
(* Isa::execute: the stores the instruction may leave behind.  Jumps,      *)
(* conditions, calls, returns and IfYield (which only caches text for its  *)
(* description) leave the store alone.                                     *)
(***************************************************************************)
Execute(isa, store) ==
    CASE isa.isaName = "Operation"    -> OperationExecute(isa, store)
      [] isa.isaName = "ForInit"      -> {ForInitExecute(isa, store)}
      [] isa.isaName = "ForIncrement" -> {ForIncrementExecute(isa, store)}
      [] isa.isaName = "YieldAssign"  -> {YieldAssignExecute(isa, store)}
      [] OTHER                        -> {store}

(***************************************************************************)
(* The branch a condition takes: slt for a loop, non-zero for the others.  *)
(***************************************************************************)
BranchTaken(isa, store) ==
    IF isa.isaName = "ForCondition"
    THEN IntValue(store, isa.forIV) < IntValue(store, isa.forUB)
    ELSE IntValue(store, isa.condition) # 0

=============================================================================
