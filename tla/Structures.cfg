SPECIFICATION AllSpec
CONSTANTS
    a = a
    b = b
    Data <- MCData
    Sizes <- MCSizes
    Requests <- MCRequests
    Timers = {t1, t2, t3}
    NumBuckets = 2
    TickWrap = 4
    TickRate = 2
    Timeouts <- MCTimeouts
    NoTimer = none
    ListHeads = {h1, h2}
    Entries = {e1, e2, e3}
    Null = null
PROPERTIES ImplementsFifo ImplementsDeadlines EveryTimerEnds ImplementsLists
