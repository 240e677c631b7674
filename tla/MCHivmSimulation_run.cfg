SPECIFICATION HivmSpec
CONSTANTS
    Value <- MCValue
    MinInt <- MCMinInt
    MaxInt = 3
    Unset = Unset
    Programs <- MCPrograms
    MaxCycle = 40
    MaxDepth = 2
    Memref <- MCMemref
    Shape <- MCShape
    Element <- MCElement
    Data <- MCData
    Zeros = 0
    TestData = 2
    Sums <- MCSums
    Products <- MCProducts
    NoData = NoData
    Inputs <- MCInputs
    Kernels <- MCKernels
    NoOp = NoOp
    Undefined = Undefined
INVARIANTS
    PcInProgram
    FramesReturnAfterCalls
    DataAsMeant
    OnlyWideningGoesOutside
PROPERTIES
    KernelsComplete
CHECK_DEADLOCK FALSE
