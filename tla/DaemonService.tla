---------------------------- MODULE DaemonService ----------------------------
(***************************************************************************)
(* What "httpd --daemon start|stop|restart" promises a user who waits for  *)
(* one command before typing the next: there is at most one daemon, it is  *)
(* launched by a start or a restart when there is none, and once it serves *)
(* the port it goes on until a stop or a restart tells it to end.  The     *)
(* exit code can be believed: a stop that returns 0 has told every daemon, *)
(* a start or a restart that returns 0 has launched one, and a stop never  *)
(* fails.  Nothing is said of pid files and of how processes find each     *)
(* other.                                                                  *)
(***************************************************************************)
EXTENDS FiniteSets

CONSTANT Process

VARIABLES
    working,    \* the command that is running: a set of one, or of none
    up,         \* the daemons that exist
    serving,    \* the daemon that listens on the port, if there is one
    told,       \* the daemons that were told to end
    reports     \* the commands that have ended, each with its exit code

vars == <<working, up, serving, told, reports>>

Init ==
    /\ working = {}
    /\ up = {} /\ serving = {} /\ told = {}
    /\ reports = {}

\* A command is typed.
Begin(a) ==
    /\ working = {}
    /\ working' = {a}
    /\ UNCHANGED <<up, serving, told, reports>>

Ends(a, code) ==
    /\ working = {a}
    /\ working' = {}
    /\ reports' = reports \cup {<<a, code>>}

\* A stop is done: no daemon is left that does not know.
StopDone ==
    /\ Ends("stop", "0")
    /\ up \subseteq told
    /\ UNCHANGED <<up, serving, told>>

\* There is a daemon already, or fork fails.
LaunchFails ==
    /\ Ends("start", "1") \/ Ends("restart", "1")
    /\ UNCHANGED <<up, serving, told>>

\* The user interrupts the command.
Abort ==
    /\ \E a \in {"start", "stop", "restart"} : Ends(a, "killed")
    /\ UNCHANGED <<up, serving, told>>

\* stop and restart tell the daemon to end.
Tell(d) ==
    /\ working \in {{"stop"}, {"restart"}}
    /\ d \in up
    /\ told' = told \cup {d}
    /\ UNCHANGED <<working, up, serving, reports>>

\* start and restart end by leaving a daemon behind, when there is none.
Launch(d) ==
    /\ Ends("start", "0") \/ Ends("restart", "0")
    /\ up = {}
    /\ up' = {d}
    /\ UNCHANGED <<serving, told>>

\* The daemon gets the port.
Serve(d) ==
    /\ d \in up \ told
    /\ serving = {}
    /\ serving' = {d}
    /\ UNCHANGED <<working, up, told, reports>>

\* A daemon that was told to end gives the port back.
Release(d) ==
    /\ d \in serving \cap told
    /\ serving' = {}
    /\ UNCHANGED <<working, up, told, reports>>

\* A daemon ends that does not serve: it never got the port, or was told.
Gone(d) ==
    /\ d \in up \ serving
    /\ up' = up \ {d}
    /\ told' = told \ {d}
    /\ UNCHANGED <<working, serving, reports>>

Next ==
    \/ \E a \in {"start", "stop", "restart"} : Begin(a)
    \/ StopDone \/ LaunchFails \/ Abort
    \/ \E d \in Process :
         Tell(d) \/ Launch(d) \/ Serve(d) \/ Release(d) \/ Gone(d)

Spec == Init /\ [][Next]_vars

=============================================================================
