------------------------------ MODULE MCDaemon ------------------------------
(***************************************************************************)
(* Instances of Daemon for TLC.                                            *)
(***************************************************************************)
EXTENDS Daemon, TLC

CONSTANTS p1, p2, p3, p4, p5, p6

Pids3 == {p1, p2, p3}
Pids4 == {p1, p2, p3, p4}
Pids5 == Pids4 \cup {p5}
Pids6 == Pids5 \cup {p6}

\* Pids are interchangeable: no action compares them otherwise than by
\* equality.  Used by the runs that check safety alone.
Symmetry4 == Permutations(Pids4)
Symmetry5 == Permutations(Pids5)
Symmetry6 == Permutations(Pids6)

AllCommands == {"NO_OPTION", "start", "stop", "restart"}
DaemonCommands == {"start", "stop", "restart"}
StartStop == {"start", "stop"}

NoFaults == {}
CrashFaults == {"sigkill", "log", "recycle", "ctrlc"}
SoftFaults == {"fork", "fopen", "bind", "accept"}
SerialFaults == {"fork", "fopen", "bind", "ctrlc", "accept"}
=============================================================================
