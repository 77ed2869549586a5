CONSTANTS
    Conns = {c1}
    MaxFrames = 2
    MaxRequests = 2
    MaxQueued = 2
SPECIFICATION Spec
INVARIANT LedShowsFeed
