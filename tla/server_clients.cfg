CONSTANTS
    c1 = c1
    c2 = c2
    NoClient = NoClient
    NoPath = NoPath
    Client <- TwoClients
    LineDelims <- OnlyLF
    Requests <- SomeRequests
    Path <- Paths
    Index <- Indexes
    InitialFiles <- Trees
    FileNodes <- NoEdits
    BufferSize = 11
    SocketBuffer = 1
    MaxChanges = 1
    Interruptible = TRUE
SPECIFICATION FairSpec
INVARIANTS TypeOK NoLeak LoggedOnce OneLineAtRisk LogInOrder
PROPERTIES OneReplyEach ServesAsDaemon EveryClientServed
CHECK_DEADLOCK FALSE
