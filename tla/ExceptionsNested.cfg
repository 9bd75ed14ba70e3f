SPECIFICATION Spec
CONSTANTS
    MaxOpened = 3
    None = None
PROPERTIES
    ThrowReachesInnermost
CHECK_DEADLOCK FALSE
