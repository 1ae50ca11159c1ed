SPECIFICATION NetSpec
CONSTANTS
    t1 = t1
    t2 = t2
    p1 = p1
    p2 = p2
    NoThread = NoThread
    NoFd = NoFd
    NoPeer = NoPeer
    Threads <- MCThreads
    Fds <- MCFds
    MaxTracked = 2
    Peers <- MCPeers
    Rooms = {8, 16, 128, 200}
    Writers <- MCThreads
    MaxSet = 2
    Vectors <- MCVectors
INVARIANTS
    NoStaleTracking
    ConnectAnswer
    ForcedModeTransient
    NamesTranslated
    WritesPrefix
PROPERTIES
    EveryHookReturns
