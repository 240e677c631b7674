SPECIFICATION Spec
CONSTANTS
    f = f
    g = g
    Names <- MCNames
    MaxLatency = 15
    Absent = Absent
    Bad = Bad
    Unknown = Unknown
    Files <- MCFiles
    CommandLines <- MCCommandLines
PROPERTIES
    FuncCycleKeepsUnit
CHECK_DEADLOCK FALSE
