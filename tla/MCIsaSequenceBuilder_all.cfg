SPECIFICATION Spec
CONSTANTS
    Value <- MCValue
    MinInt <- MCMinInt
    MaxInt = 1
    Unset = Unset
    Functions = {f, g}
    Externals = {e}
    ExternalInfo <- MCExternalInfo
    Ops <- MCOps
    Loops <- MCTwoLoops
    Conditions = {"x"}
    YieldOperands <- MCYieldOperands
    MaxSize = 4
    MaxNesting = 3
INVARIANTS
    TypeOK
    CounterIsSize
    CompleteIsWellFormed
    LoopsClosed
    SingleEntryExit
    OnlyLoopsGoBack
    YieldsAssignInnermost
PROPERTIES
    EmittedCodeIsFinal
CHECK_DEADLOCK FALSE
