SPECIFICATION Spec
CONSTANTS
    N = 4
    Exprs <- AllExprs
    RegFile <- MCRegFile
    Scratch <- EAX
    Reserved <- MCReserved
    Preserved <- MCPreserved
    LONG_MAX = 1000
INVARIANTS
    TypeOK
    LivePairsInterfere
    NoRegisterClash
    PlacesApart
    CallsKeepLive
CHECK_DEADLOCK FALSE
