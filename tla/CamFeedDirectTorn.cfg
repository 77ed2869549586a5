CONSTANTS
    c1 = c1
    c2 = c2
    p1 = p1
    p2 = p2
    NoConn = NoConn
    Conns <- MCConns
    Parts <- MCParts
    UseConverter = FALSE
    NBuf = 2
    MaxFrames = 3
SPECIFICATION Spec
INVARIANT
    NoTornFrame
