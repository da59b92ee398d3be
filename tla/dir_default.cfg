CONSTANTS
    c1 = c1
    c2 = c2
    NoClient = NoClient
    NoPath = NoPath
    Client <- OneClient
    LineDelims <- OnlyLF
    Requests <- GetDefault
    Path <- Paths
    Index <- Indexes
    InitialFiles <- Trees
    FileNodes <- NoEdits
    BufferSize = 12
    SocketBuffer = 1
    MaxChanges = 0
    Interruptible = FALSE
SPECIFICATION Spec
INVARIANTS LengthTruthful
CHECK_DEADLOCK FALSE
