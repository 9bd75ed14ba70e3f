SPECIFICATION Spec
CONSTANTS
    Key <- MCKey
    Code <- MCCode
    Value = {0}
    None = None
INVARIANTS
    TypeOK
    SizesCounted
    NeverFull
PROPERTIES
    IsKeyValueMap
