SPECIFICATION FairSpec
CONSTANTS
    Node = {1, 2, 3, 4, 5}
    Edges <- EveryPair
INVARIANTS
    TypeOK
    Proper
    BucketsRight
    FewColors
    AllColored
PROPERTIES
    Ends
CHECK_DEADLOCK FALSE
