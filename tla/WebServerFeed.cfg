SPECIFICATION AllSpec
CONSTANTS
    Conns = {c1, c2}
    MaxFrames = 2
    MaxRequests = 2
    MaxQueued = 2
    Letters = {"a"}
    Components <- MCComponents
    MaxComponents = 4
    Folders <- MCFolders
    Files <- MCFiles
    Payloads = {0, 1}
    LengthBytes = {2}
    MaxSent = 3
    MaxPings = 1
INVARIANTS
    CountExplained FeedWellFormed
    PathExact MessagesExact
PROPERTY GoneIsReleased
CHECK_DEADLOCK FALSE
