CONSTANTS
    BufferCount = 2
    MaxGranted = 3
    BufferSizes = {1, 2}
    FrameIds = 2
    MaxFaults = 1
    Values = {0, 1}
    MaxArgs = 5
    Readings <- MCReadings
    Outcomes <- Returned
    BadBits = {0, 7, 8, 15, 21, 31, 32, 39, 40, 47, 48, 55, 56, 63}
    Clients = {c1, c2, c3}
    Descriptors = {3, 4, 5, 6}
    Backlog = 2
    MaxInput = 2
    MaxOutput = 3
    Space = 2
    InBuffers = 2
    OutBuffers = 2
    MaxPosts = 1
    Builds = {"rpi", "desktop"}
    RequestKinds <- MCRequestKinds
    MaxAsked = 2
    SendWindow = 2
    RequestLimit = 8
SPECIFICATION AllSpec
INVARIANTS
    BuffersAccounted HeadIsNewest
    ControlsReadBack
    PrintsOneReading
    DescriptorsAccounted
    PortBuffersAccounted EncodedInPlace
    NothingUsedUnready
    AnswersExact
PROPERTIES
    CaptureGoesOn EveryClientServed ConversionEnds EveryRequestAnswered
CHECK_DEADLOCK FALSE
