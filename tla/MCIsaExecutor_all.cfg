SPECIFICATION Spec
CONSTANTS
    Value <- MCValue
    MinInt <- MCMinInt
    MaxInt = 3
    Unset = Unset
    Programs <- MCPrograms
    MaxCycle = 8
    MaxDepth = 2
INVARIANTS
    TypeOK
    BusyClockIsLastTask
    BooksAgree
    RetiredOnTime
    TasksInOrder
PROPERTIES
    TimelineSpec
