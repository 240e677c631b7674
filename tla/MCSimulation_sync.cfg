SPECIFICATION SimSpec
CONSTANTS
    Value <- MCValue
    MinInt <- MCMinInt
    MaxInt = 3
    Unset = Unset
    Programs <- MCPrograms
    MaxCycle = 40
    MaxDepth = 2
PROPERTIES
    SyncWaitsForEach
CHECK_DEADLOCK FALSE
