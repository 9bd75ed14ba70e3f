SPECIFICATION Spec
CONSTANTS
    x = x
    y = y
    I64 = I64
    U8 = U8
    Id = {x, y}
    Type = {I64, U8}
    Declared = {"LOCAL", "STATIC", "EXTERN", "_EXTERN"}
    None = None
    MaxVars = 2
    MaxDepth = 1
INVARIANTS
    TypeOK
    GlobalVarsAgree
PROPERTIES
    RedefinitionReported
    DefinitionsReachTable
SYMMETRY MCSymmetry
CHECK_DEADLOCK FALSE
