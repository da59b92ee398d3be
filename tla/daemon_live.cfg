CONSTANTS
    p1 = p1
    p2 = p2
    p3 = p3
    p4 = p4
    p5 = p5
    p6 = p6
    NoPid = NoPid
    NoFile = NoFile
    Empty = Empty
    Pid <- Pids4
    Commands <- DaemonCommands
    Faults <- SoftFaults
    Serial = FALSE
    SleepSettles = FALSE
    MaxCommands = 2
    MaxBacklog = 1
SPECIFICATION FairClientsSpec
PROPERTIES StopTerminates StartServes
CHECK_DEADLOCK FALSE
