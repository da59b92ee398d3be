CONSTANTS
    p1 = p1
    p2 = p2
    p3 = p3
    p4 = p4
    p5 = p5
    p6 = p6
    NoPid = NoPid
    NoFile = NoFile
    Empty = Empty
    Pid <- Pids4
    Commands <- AllCommands
    Faults <- CrashFaults
    Serial = TRUE
    SleepSettles = TRUE
    MaxCommands = 3
    MaxBacklog = 1
SPECIFICATION Spec
SYMMETRY Symmetry4
INVARIANTS NoOrphan
CHECK_DEADLOCK FALSE
