SPECIFICATION Spec
CONSTANTS
    N = 3
    Exprs <- AllExprs
    RegFile <- MCRegFile
    Scratch <- EAX
    Reserved <- MCReserved
    Preserved <- MCPreserved
    LONG_MAX = 1000
INVARIANT FrameCovers
CHECK_DEADLOCK FALSE
