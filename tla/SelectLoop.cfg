CONSTANTS
    w1 = w1
    w2 = w2
    w3 = w3
    Watchers <- MCWatchers
    Fds = {f1, f2, f3}
    NoFd = NoFd
    Listenable <- MCListenable
    TxSize = 3
    Chunk = 2
    SockSize = 2
    Lens <- MCLens
    MaxBytes = 8
SPECIFICATION AllSpec
INVARIANTS
    ListsConsistent RoundIsFixed NobodySkipped
    InOrder Conservation
PROPERTIES
    NoStaleEvent RoundEnds
    WatchedIsSent TxWatchEnds
CHECK_DEADLOCK FALSE
