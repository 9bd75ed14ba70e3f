SPECIFICATION Spec
CONSTANTS
    MaxOpened = 5
    None = None
INVARIANTS
    TypeOK
    FramesAreOpenTries
    FramesKept
PROPERTIES
    LastEnteredCatches
CHECK_DEADLOCK FALSE
