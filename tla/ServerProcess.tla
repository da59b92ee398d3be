---------------------------- MODULE ServerProcess ----------------------------
(***************************************************************************)
(* The two descriptions of server_start put together: the process of       *)
(* Daemon, for which a connection is a unit of the backlog and a request a *)
(* step or two, and Server, which says what happens in these steps.        *)
(***************************************************************************)
EXTENDS Server

\* Where the process of Daemon is when Server is at pc.
ProcessPC ==
    IF pc \in {"while", "accept", "accepting", "recv"} THEN pc
    ELSE IF pc \in {"receiving", "sending"} /\ Blocked THEN pc
    ELSE IF pc \in {"sending", "log", "destroy", "log_505", "close"}
         THEN "finish"
    ELSE IF pc = "exit" THEN "close"
    ELSE IF Ended THEN "dead"
    ELSE "reply"

ExitCode == IF pc = "stopped" THEN "0"
            ELSE IF pc = "crashed" THEN "killed"
            ELSE "none"

httpd == "httpd"
Only1(v) == [p \in {httpd} |-> v]

\* A server run in the foreground, past its listen.
Process == INSTANCE Daemon WITH
    Pid <- {httpd}, NoPid <- "none", NoFile <- "no file", Empty <- "empty",
    Commands <- {}, Faults <- {"accept", "ctrlc", "sigkill"},
    Serial <- FALSE, SleepSettles <- FALSE,
    MaxCommands <- 0, MaxBacklog <- Cardinality(Client),
    pc <- Only1(ProcessPC), act <- Only1("NO_OPTION"), target <- Only1("none"),
    file <- "no file", linked <- {}, daemons <- {}, actif <- Only1(actif),
    listener <- IF Ended THEN "none" ELSE httpd, backlog <- Len(queue),
    late <- Only1(late), code <- Only1(ExitCode), commands <- 0

\* Whatever requests, edits and failures Server adds, its loop goes through
\* the control states of Daemon and no others: what Daemon says of signals,
\* of the late connection and of the end of a server is true of the code
\* with gerer_client in it.
ServesAsDaemon == [][Process!Next]_(Process!vars)

=============================================================================
