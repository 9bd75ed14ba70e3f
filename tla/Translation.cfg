CONSTANTS
    Bodies <- MCBodies
    Values <- MCValues
    FuncNames = {"f"}
    ClassNames = {"I64i"}
    MembersOf <- MCMembersOf
    BaseOf <- MCBaseOf
SPECIFICATION TSpec
INVARIANTS
    RefusesIllFormed
    JumpsLand
    RunsAsWritten
    ReadsAsWritten
    DeclaredAlikeEqual
    OperationsCompute
    OperationsPreserve
    ComputesAsTyped
    OperandsAgree
    PreprocessesAsWritten
    LinesMapBack
CHECK_DEADLOCK FALSE
