SPECIFICATION ModuleSpec
CONSTANTS
    Value <- MCValue
    MinInt <- MCMinInt
    MaxInt = 1
    Unset = Unset
    Functions = {f, g}
    Externals = {e}
    ExternalInfo <- MCExternalInfo
    Ops <- MCOps
    Loops <- MCLoops
    Conditions = {"n"}
    YieldOperands <- MCYieldOperands
    MaxSize = 4
    MaxNesting = 1
    MaxCycle = 12
    MaxDepth = 2
INVARIANTS
    StackHoldsCallsOnce
CHECK_DEADLOCK FALSE
