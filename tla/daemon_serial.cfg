CONSTANTS
    p1 = p1
    p2 = p2
    p3 = p3
    p4 = p4
    p5 = p5
    p6 = p6
    NoPid = NoPid
    NoFile = NoFile
    Empty = Empty
    Pid <- Pids6
    Commands <- AllCommands
    Faults <- SerialFaults
    Serial = TRUE
    SleepSettles = TRUE
    MaxCommands = 3
    MaxBacklog = 1
SPECIFICATION Spec
SYMMETRY Symmetry6
INVARIANTS TypeOK PidFileFaithful
PROPERTIES PidFileKept ServesUser
CHECK_DEADLOCK FALSE
