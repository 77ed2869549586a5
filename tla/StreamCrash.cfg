SPECIFICATION Spec
CONSTANTS
    TxSize = 3
    Chunk = 2
    SockSize = 2
    Lens <- MCLens
    MaxBytes = 8
INVARIANT NeverCrashes
CHECK_DEADLOCK FALSE
