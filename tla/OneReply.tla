------------------------------ MODULE OneReply ------------------------------
(***************************************************************************)
(* What httpd promises its clients, whatever they send, whatever the files *)
(* are and whatever fails: they are served one at a time in the order they *)
(* came, each gets at most one status line, while it is served, and nobody *)
(* is turned away unless the server was told to stop or has crashed.       *)
(***************************************************************************)
EXTENDS Sequences

CONSTANTS Client, Status, NoStatus

VARIABLES
    waiting,    \* clients connected and not yet served, oldest first
    served,     \* the set of the client being served: at most one
    status,     \* status[c]: the status line that c has received
    told,       \* a SIGINT has arrived
    up          \* the server runs

vars == <<waiting, served, status, told, up>>

Init ==
    /\ waiting = <<>>
    /\ served = {}
    /\ status = [c \in Client |-> NoStatus]
    /\ told = FALSE
    /\ up = TRUE

\* c connects; it has received nothing so far.
Arrive(c) ==
    /\ up
    /\ status[c] = NoStatus
    /\ c \notin served
    /\ \A i \in DOMAIN waiting : waiting[i] # c
    /\ waiting' = Append(waiting, c)
    /\ UNCHANGED <<served, status, told, up>>

\* The oldest waiting client is taken.
Take ==
    /\ waiting # <<>>
    /\ served = {}
    /\ served' = {Head(waiting)}
    /\ waiting' = Tail(waiting)
    /\ UNCHANGED <<status, told, up>>

\* The client being served gets its one status line.
Reply(c, s) ==
    /\ c \in served
    /\ status[c] = NoStatus
    /\ status' = [status EXCEPT ![c] = s]
    /\ UNCHANGED <<waiting, served, told, up>>

\* The connection being served is closed, with or without a reply; a signal
\* may have cut it short.
Done ==
    /\ served # {}
    /\ served' = {}
    /\ UNCHANGED <<waiting, status, told, up>>

Tell ==
    /\ up
    /\ told' = TRUE
    /\ UNCHANGED <<waiting, served, status, up>>

\* The server stops between two clients, having been told to; the clients
\* that wait are turned away.
Stop ==
    /\ up /\ told
    /\ served = {}
    /\ up' = FALSE
    /\ waiting' = <<>>
    /\ UNCHANGED <<served, status, told>>

\* The server runs out of memory while it makes a reply, before a byte of it
\* is sent.
Crash ==
    /\ up
    /\ \E c \in served : status[c] = NoStatus
    /\ up' = FALSE
    /\ served' = {}
    /\ waiting' = <<>>
    /\ UNCHANGED <<status, told>>

Next ==
    \/ \E c \in Client : Arrive(c) \/ \E s \in Status : Reply(c, s)
    \/ Take \/ Done \/ Tell \/ Stop \/ Crash

Spec == Init /\ [][Next]_vars

=============================================================================
