CONSTANTS
    p1 = p1
    p2 = p2
    p3 = p3
    p4 = p4
    p5 = p5
    p6 = p6
    NoPid = NoPid
    NoFile = NoFile
    Empty = Empty
    Pid <- Pids3
    Commands <- StartStop
    Faults <- NoFaults
    Serial = FALSE
    SleepSettles = TRUE
    MaxCommands = 2
    MaxBacklog = 0
SPECIFICATION Spec
INVARIANTS StoppedDaemonStops
CHECK_DEADLOCK FALSE
