SPECIFICATION Spec
CONSTANTS
    Value <- MCValue
    Inputs <- MCInputs
    TypeWidth <- MCTypeWidth
    IndexWidth = 3
    Programs <- MCPrograms
    Unset = Unset
INVARIANTS
    TypeOK
    MatchesMlir
    WidthsStayKnown
