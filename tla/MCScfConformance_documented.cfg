SPECIFICATION ConformSpec
CONSTANTS
    Value <- MCValue
    MinInt <- MCMinInt
    MaxInt = 3
    Unset = Unset
    Functions <- MCFunctions
    Externals = {}
    ExternalInfo <- MCNoExternals
    Ops = {}
    Loops = {}
    Conditions = {}
    YieldOperands = {}
    MaxSize = 40
    MaxNesting = 4
    MaxCycle = 120
    MaxDepth = 0
    Sources <- MCDocumented
INVARIANTS
    FinishesAsScf
CHECK_DEADLOCK FALSE
