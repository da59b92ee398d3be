CONSTANTS
    p1 = p1
    p2 = p2
    p3 = p3
    p4 = p4
    p5 = p5
    p6 = p6
    NoPid = NoPid
    NoFile = NoFile
    Empty = Empty
    Pid <- Pids5
    Commands <- AllCommands
    Faults <- SoftFaults
    Serial = FALSE
    SleepSettles = FALSE
    MaxCommands = 3
    MaxBacklog = 1
SPECIFICATION Spec
SYMMETRY Symmetry5
INVARIANTS PidFileNamesDaemon StopSignalsOnlyDaemons StaleOnlyTransient EmptyOnlyTransient AtMostOneLateClient
CHECK_DEADLOCK FALSE
