CONSTANTS
    c1 = c1
    c2 = c2
    NoClient = NoClient
    NoPath = NoPath
    Client <- OneClient
    LineDelims <- OnlyLF
    Requests <- AllRequests
    Path <- Paths
    Index <- Indexes
    InitialFiles <- Trees
    FileNodes <- Edits
    BufferSize = 12
    SocketBuffer = 1
    MaxChanges = 2
    Interruptible = FALSE
SPECIFICATION Spec
INVARIANTS BodyWithinLength RepliesAsTested RepliedAsDue
CHECK_DEADLOCK FALSE
