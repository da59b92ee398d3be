------------------------------- MODULE Daemon -------------------------------
(***************************************************************************)
(* The processes that one httpd configuration gives rise to: the commands  *)
(* "httpd --daemon start|stop|restart", the server run in the foreground,  *)
(* the daemons that fork() leaves behind, and what they share: the pid     *)
(* file, the signal SIGINT and the listening port.                         *)
(*                                                                         *)
(* A process is a control state, pc[p], named after the call it is about   *)
(* to make; a blocked system call has a control state of its own           *)
(* ("accepting", "receiving", "sending").  Every system call that another  *)
(* process can observe is a step.  The content of requests is the matter   *)
(* of module Server; here a connection is a unit of the backlog.           *)
(***************************************************************************)
EXTENDS Naturals, FiniteSets

CONSTANTS
    Pid,            \* process identifiers
    NoPid,          \* what recuperer_pid returns when it finds no pid (-1)
    NoFile, Empty,  \* the path has no file; the file has no number in it
    Commands,       \* the values of --daemon that are used
    Faults,         \* the failures of the environment that may happen
    Serial,         \* TRUE: a command is typed only when nothing moves, and
                    \* the clients do nothing until it has sent its signal
    SleepSettles,   \* TRUE: the second restart sleeps outlasts other work
    MaxCommands,    \* bound on the commands typed and processes spawned
    MaxBacklog      \* bound on the connections waiting to be accepted

ASSUME PidAssumption ==
    /\ NoPid \notin Pid
    /\ NoFile \notin Pid
    /\ Empty \notin Pid
    /\ NoFile # Empty

ASSUME BoundAssumption ==
    /\ MaxCommands \in Nat
    /\ MaxBacklog \in Nat
    /\ Serial \in BOOLEAN
    /\ SleepSettles \in BOOLEAN

Actions == {"NO_OPTION", "start", "stop", "restart"}

ASSUME CommandsAssumption == Commands \subseteq Actions

VARIABLES
    pc,         \* pc[p]: the next call of p
    act,        \* act[p]: config->daemon_action, copied to a child by fork
    target,     \* target[p]: the local variable pid of the daemon commands
    file,       \* the content of config->pid_file
    linked,     \* processes whose FILE* is the file now at that path
    daemons,    \* processes born from the fork of lancement_demon
    actif,      \* actif[p]: the flag that handle_sigint clears
    listener,   \* the process whose socket listens on ip:port
    backlog,    \* connections established but not yet accepted
    late,       \* late[p]: connections p accepted although actif was 0
    code,       \* code[p]: the exit code of p, or "killed"
    commands    \* commands typed and processes spawned so far

vars == <<pc, act, target, file, linked, daemons, actif, listener, backlog,
          late, code, commands>>

-----------------------------------------------------------------------------
(* Control states.                                                         *)

StopPCs == {"s_read", "s_check", "s_kill", "s_unlink"}
\* A stop or a restart that has not sent its signal yet.
AimPCs == StopPCs \ {"s_unlink"}
LaunchPCs == {"l_read", "l_check", "l_unlink", "l_fork"}
CommandPCs == StopPCs \cup {"sleep"} \cup LaunchPCs
ChildPCs == {"c_fopen", "c_fclose", "c_log"}
\* Before sigaction(SIGINT, handle_sigint) the default action applies.
UncaughtPCs == CommandPCs \cup ChildPCs \cup {"sigaction", "foreign"}
BlockedPCs == {"accepting", "receiving", "sending"}
LoopPCs == {"while", "accept", "recv", "reply", "finish", "close"}
             \cup BlockedPCs
CaughtPCs == {"bind", "listen", "d_unlink"} \cup LoopPCs
\* "other" is a process of another user: kill() on it fails with EPERM.
GonePCs == {"free", "dead"}
PCs == UncaughtPCs \cup CaughtPCs \cup {"other"} \cup GonePCs

\* kill(q, 0) == 0: the process exists and may be signalled.
Killable(q) == q \in Pid /\ pc[q] \in UncaughtPCs \cup CaughtPCs

Alive(p) == pc[p] \notin GonePCs
\* A control state in which a process does nothing until somebody else acts.
AtRest(p) ==
    /\ pc[p] \in GonePCs \cup BlockedPCs \cup {"foreign", "other"}
    /\ pc[p] = "accepting" => backlog = 0
Quiet == \A p \in Pid : AtRest(p)

\* Whether a client may do something now.
ClientsAct == Serial => \A p \in Pid : pc[p] \notin AimPCs

\* A pid the kernel may hand out: never used, or recycled.
Available(p) == pc[p] = "free" \/ ("recycle" \in Faults /\ pc[p] = "dead")

-----------------------------------------------------------------------------
(* Helpers of the actions.                                                 *)

Goto(p, l) == pc' = [pc EXCEPT ![p] = l]

NetUnchanged == UNCHANGED <<listener, backlog, late>>
FileUnchanged == UNCHANGED <<file, linked>>

\* p goes on at l, and that is all that happens.
Moves(p, l) ==
    /\ Goto(p, l)
    /\ FileUnchanged /\ NetUnchanged
    /\ UNCHANGED <<act, target, daemons, actif, code, commands>>

\* unlink(config->pid_file): whoever still holds the file open writes into
\* an inode that no path reaches.
Unlink == file' = NoFile /\ linked' = {}

\* exit, or return from main, with the exit code c.
Exit(p, c) ==
    /\ Goto(p, "dead")
    /\ code' = [code EXCEPT ![p] = c]
    /\ target' = [target EXCEPT ![p] = NoPid]

\* p exits, and leaves everything behind as it is.
Dies(p, c) ==
    /\ Exit(p, c)
    /\ FileUnchanged /\ NetUnchanged
    /\ UNCHANGED <<act, daemons, actif, commands>>

\* Mutant: the result of fscanf is not tested.
PidInFileUnchecked == file

\* recuperer_pid: -1 when there is no file or no number in it.
PidInFile == IF file \in Pid THEN file ELSE NoPid

\* The pc of q once SIGINT has been delivered to it: the default action ends
\* it, the handler makes a blocked call fail with EINTR (a sendfile returns
\* what it has sent).  An accept that has been woken by a connection returns
\* it all the same.
Interrupted(q) ==
    IF pc[q] \in UncaughtPCs THEN "dead"
    ELSE IF pc[q] = "accepting" /\ backlog = 0 THEN "while"
    ELSE IF pc[q] \in {"receiving", "sending"} THEN "finish"
    ELSE pc[q]

\* Mutant: the handler only interrupts, it does not clear actif.
SignalWithoutFlag(q, p, l) ==
    /\ pc' = [r \in Pid |-> IF r = q THEN Interrupted(q)
                            ELSE IF r = p THEN l
                            ELSE pc[r]]
    /\ code' = IF pc[q] \in UncaughtPCs
               THEN [code EXCEPT ![q] = "killed"] ELSE code
    /\ linked' = IF pc[q] \in UncaughtPCs THEN linked \ {q} ELSE linked
    /\ UNCHANGED actif

\* SIGINT arrives at q, and p (not q itself) goes on at l.
Signal(q, p, l) ==
    /\ pc' = [r \in Pid |-> IF r = q THEN Interrupted(q)
                            ELSE IF r = p THEN l
                            ELSE pc[r]]
    /\ code' = IF pc[q] \in UncaughtPCs
               THEN [code EXCEPT ![q] = "killed"] ELSE code
    /\ actif' = [actif EXCEPT ![q] = @ /\ pc[q] \in UncaughtPCs]
    /\ linked' = IF pc[q] \in UncaughtPCs THEN linked \ {q} ELSE linked

-----------------------------------------------------------------------------
Init ==
    /\ pc = [p \in Pid |-> "free"]
    /\ act = [p \in Pid |-> "NO_OPTION"]
    /\ target = [p \in Pid |-> NoPid]
    /\ file = NoFile
    /\ linked = {}
    /\ daemons = {}
    /\ actif = [p \in Pid |-> TRUE]
    /\ listener = NoPid
    /\ backlog = 0
    /\ late = [p \in Pid |-> 0]
    /\ code = [p \in Pid |-> "none"]
    /\ commands = 0

\* A fresh process image with pid p, at l, running action a.
Born(p, l, a) ==
    /\ pc' = [pc EXCEPT ![p] = l]
    /\ act' = [act EXCEPT ![p] = a]
    /\ target' = [target EXCEPT ![p] = NoPid]
    /\ actif' = [actif EXCEPT ![p] = TRUE]
    /\ late' = [late EXCEPT ![p] = 0]
    /\ code' = [code EXCEPT ![p] = "none"]

\* The first call that daemon_handle_action makes for each action.
Entry(a) == IF a = "NO_OPTION" THEN "sigaction"
            ELSE IF a = "start" THEN "l_read"
            ELSE "s_read"

\* main: a valid command line is parsed and daemon_handle_action dispatches.
Invoke(p, a) ==
    /\ Available(p)
    /\ commands < MaxCommands
    /\ Serial => Quiet
    /\ Born(p, Entry(a), a)
    /\ daemons' = daemons \ {p}
    /\ commands' = commands + 1
    /\ UNCHANGED <<file, linked, listener, backlog>>

-----------------------------------------------------------------------------
(* arret_demon: "stop", and the first half of "restart".                   *)

\* What follows arret_demon, which returned c: restart ignores c and sleeps.
StopReturns(p, c) ==
    IF act[p] = "restart"
    THEN /\ Goto(p, "sleep")
         /\ target' = [target EXCEPT ![p] = NoPid]
         /\ code' = code
    ELSE Exit(p, c)

StopRead(p) ==
    /\ pc[p] = "s_read"
    /\ target' = [target EXCEPT ![p] = PidInFile]
    /\ Goto(p, "s_check")
    /\ FileUnchanged /\ NetUnchanged
    /\ UNCHANGED <<act, daemons, actif, code, commands>>

\* Mutant: the test pid > 0 is forgotten, and kill(-1, 0) succeeds.
StopCheckAnyPid(p) ==
    /\ pc[p] = "s_check"
    /\ Moves(p, "s_kill")

StopCheck(p) ==
    /\ pc[p] = "s_check"
    /\ Moves(p, IF Killable(target[p]) THEN "s_kill" ELSE "s_unlink")

\* kill(pid, SIGINT); when it fails the pid file stays where it is.
StopKill(p) ==
    /\ pc[p] = "s_kill"
    /\ IF Killable(target[p])
       THEN Signal(target[p], p, "s_unlink") /\ UNCHANGED target
       ELSE StopReturns(p, "1") /\ UNCHANGED <<actif, linked>>
    /\ NetUnchanged
    /\ UNCHANGED <<act, file, daemons, commands>>

StopUnlink(p) ==
    /\ pc[p] = "s_unlink"
    /\ Unlink
    /\ StopReturns(p, "0")
    /\ NetUnchanged
    /\ UNCHANGED <<act, daemons, actif, commands>>

\* Mutant: restart does not wait.
SleepOmitted(p) ==
    /\ pc[p] = "sleep"
    /\ Moves(p, "l_read")

\* sleep(1) between the two halves of "restart".
SleepEnds(p) ==
    /\ pc[p] = "sleep"
    /\ SleepSettles =>
         \A q \in Pid \ {p} : AtRest(q) \/ pc[q] = "sleep"
    /\ Moves(p, "l_read")

-----------------------------------------------------------------------------
(* lancement_demon: "start", and the second half of "restart".             *)

LaunchRead(p) ==
    /\ pc[p] = "l_read"
    /\ target' = [target EXCEPT ![p] = PidInFile]
    /\ Goto(p, "l_check")
    /\ FileUnchanged /\ NetUnchanged
    /\ UNCHANGED <<act, daemons, actif, code, commands>>

\* Mutant: start does not look for a running daemon.
LaunchUnchecked(p) ==
    /\ pc[p] = "l_check"
    /\ Moves(p, "l_unlink")

\* "Daemon already running": exit 1 and leave everything as it is.
LaunchCheck(p) ==
    /\ pc[p] = "l_check"
    /\ IF Killable(target[p]) THEN Dies(p, "1") ELSE Moves(p, "l_unlink")

\* Mutant: the pid file is written before the fork, by the parent.
LaunchWritesOwnPid(p) ==
    /\ pc[p] = "l_unlink"
    /\ file' = p /\ linked' = {}
    /\ Goto(p, "l_fork")
    /\ target' = [target EXCEPT ![p] = NoPid]
    /\ NetUnchanged
    /\ UNCHANGED <<act, daemons, actif, code, commands>>

LaunchUnlink(p) ==
    /\ pc[p] = "l_unlink"
    /\ Unlink
    /\ Goto(p, "l_fork")
    /\ target' = [target EXCEPT ![p] = NoPid]   \* not read again
    /\ NetUnchanged
    /\ UNCHANGED <<act, daemons, actif, code, commands>>

LaunchForkFails(p) ==
    /\ pc[p] = "l_fork"
    /\ "fork" \in Faults
    /\ Dies(p, "1")

\* fork(): the parent returns 0 from main whatever becomes of the child c.
LaunchFork(p, c) ==
    /\ pc[p] = "l_fork"
    /\ Available(c)
    /\ pc' = [pc EXCEPT ![p] = "dead", ![c] = "c_fopen"]
    /\ code' = [code EXCEPT ![p] = "0", ![c] = "none"]
    /\ act' = [act EXCEPT ![c] = act[p]]
    /\ target' = [target EXCEPT ![p] = NoPid, ![c] = NoPid]
    /\ actif' = [actif EXCEPT ![c] = TRUE]
    /\ late' = [late EXCEPT ![c] = 0]
    /\ daemons' = daemons \cup {c}
    /\ FileUnchanged
    /\ UNCHANGED <<listener, backlog, commands>>

\* fopen(pid_file, "w") creates the file or truncates it.
ChildOpens(p) ==
    /\ pc[p] = "c_fopen"
    /\ file' = Empty
    /\ linked' = linked \cup {p}
    /\ Goto(p, "c_fclose")
    /\ NetUnchanged
    /\ UNCHANGED <<act, target, daemons, actif, code, commands>>

ChildOpenFails(p) ==
    /\ pc[p] = "c_fopen"
    /\ "fopen" \in Faults
    /\ Dies(p, "1")

\* Mutant: the file is created but nothing is printed into it.
ChildWritesNothing(p) ==
    /\ pc[p] = "c_fclose"
    /\ linked' = linked \ {p}
    /\ Goto(p, "c_log")
    /\ NetUnchanged
    /\ UNCHANGED <<act, target, file, daemons, actif, code, commands>>

\* fclose flushes what fprintf buffered: only now is the pid in the file.
ChildWrites(p) ==
    /\ pc[p] = "c_fclose"
    /\ file' = IF p \in linked THEN p ELSE file
    /\ linked' = linked \ {p}
    /\ Goto(p, "c_log")
    /\ NetUnchanged
    /\ UNCHANGED <<act, target, daemons, actif, code, commands>>

\* The log file is opened and becomes stdout and stderr.
ChildLogs(p) ==
    /\ pc[p] = "c_log"
    /\ Moves(p, "sigaction")

\* open(log_file) fails: exit(1), with the pid file left behind.
ChildLogFails(p) ==
    /\ pc[p] = "c_log"
    /\ "log" \in Faults
    /\ Dies(p, "1")

\* A daemon's last step, after server_start returned: unlink and exit(res).
DaemonUnlinks(p) ==
    /\ pc[p] = "d_unlink"
    /\ Unlink
    /\ Goto(p, "dead")
    /\ NetUnchanged
    /\ UNCHANGED <<act, target, daemons, actif, code, commands>>

-----------------------------------------------------------------------------
(* server_start, in the foreground or in a daemon.                         *)

\* Mutant: a daemon exits without removing its pid file.
ServerReturnsWithoutUnlink(p, c) ==
    /\ Goto(p, "dead")
    /\ code' = [code EXCEPT ![p] = c]

\* server_start returns c: to main, or to the end of lancement_demon.
ServerReturns(p, c) ==
    /\ Goto(p, IF act[p] = "NO_OPTION" THEN "dead" ELSE "d_unlink")
    /\ code' = [code EXCEPT ![p] = c]

Sigaction(p) ==
    /\ pc[p] = "sigaction"
    /\ Moves(p, "bind")

\* creer_lier: with SO_REUSEADDR, bind fails only if somebody listens.
Bind(p) ==
    /\ pc[p] = "bind"
    /\ listener = NoPid
    /\ Moves(p, "listen")

\* Mutant: the error of bind is ignored and bind tried again.
BindRetries(p) ==
    /\ pc[p] = "bind"
    /\ listener # NoPid \/ "bind" \in Faults
    /\ UNCHANGED vars

BindFails(p) ==
    /\ pc[p] = "bind"
    /\ listener # NoPid \/ "bind" \in Faults
    /\ ServerReturns(p, "1")
    /\ FileUnchanged /\ NetUnchanged
    /\ UNCHANGED <<act, target, daemons, actif, commands>>

Listen(p) ==
    /\ pc[p] = "listen"
    /\ listener = NoPid
    /\ listener' = p
    /\ Goto(p, "while")
    /\ FileUnchanged
    /\ UNCHANGED <<act, target, daemons, actif, backlog, late, code, commands>>

\* Two servers may have bound the port, only one may listen on it.
ListenFails(p) ==
    /\ pc[p] = "listen"
    /\ listener # NoPid
    /\ ServerReturns(p, "1")
    /\ FileUnchanged /\ NetUnchanged
    /\ UNCHANGED <<act, target, daemons, actif, commands>>

\* Mutant: while (1).
LoopForever(p) ==
    /\ pc[p] = "while"
    /\ Moves(p, "accept")

\* while (actif)
TestActif(p) ==
    /\ pc[p] = "while"
    /\ Moves(p, IF actif[p] THEN "accept" ELSE "close")

Accept(p) ==
    /\ pc[p] \in {"accept", "accepting"}
    /\ backlog > 0
    /\ backlog' = backlog - 1
    /\ late' = [late EXCEPT ![p] = IF actif[p] THEN @ ELSE @ + 1]
    /\ Goto(p, "recv")
    /\ FileUnchanged
    /\ UNCHANGED <<act, target, daemons, actif, listener, code, commands>>

\* accept finds no connection and blocks, whatever actif has become since
\* it was tested.
AcceptBlocks(p) ==
    /\ pc[p] = "accept"
    /\ backlog = 0
    /\ Moves(p, "accepting")

\* accept fails for want of descriptors or memory, and is tried again.
AcceptFails(p) ==
    /\ pc[p] = "accept"
    /\ "accept" \in Faults
    /\ Moves(p, "while")

\* gerer_client: a request is there.
Recv(p) ==
    /\ pc[p] = "recv"
    /\ Moves(p, "reply")

\* The client hung up and there is nothing to answer.
RecvEnd(p) ==
    /\ pc[p] = "recv"
    /\ Moves(p, "finish")

\* The client has sent nothing yet: recv blocks, without a timeout.
RecvBlocks(p) ==
    /\ pc[p] = "recv"
    /\ Moves(p, "receiving")

\* What came is answered, and the kernel takes the whole answer.
Reply(p) ==
    /\ pc[p] = "reply"
    /\ Moves(p, "finish")

\* The body is longer than the buffer of the socket: sendfile blocks until
\* the client has read enough of it, without a timeout.
ReplyBlocks(p) ==
    /\ pc[p] = "reply"
    /\ Moves(p, "sending")

\* The rest of gerer_client: the log, and close(client_fd).
Finish(p) ==
    /\ pc[p] = "finish"
    /\ Moves(p, "while")

\* close(sfd) and return 0; connections still in the backlog are reset.
Close(p) ==
    /\ pc[p] = "close"
    /\ listener' = NoPid
    /\ backlog' = 0
    /\ ServerReturns(p, "0")
    /\ FileUnchanged
    /\ UNCHANGED <<act, target, daemons, actif, late, commands>>

-----------------------------------------------------------------------------
(* The environment.                                                        *)

Connect ==
    /\ ClientsAct
    /\ listener # NoPid
    /\ backlog < MaxBacklog
    /\ backlog' = backlog + 1
    /\ FileUnchanged
    /\ UNCHANGED <<pc, act, target, daemons, actif, listener, late, code,
                   commands>>

\* The client p waits for sends its request or hangs up.
ClientSends(p) ==
    /\ ClientsAct
    /\ pc[p] = "receiving"
    /\ Moves(p, "reply")

\* The client p is sending to reads to the end or hangs up.
ClientReads(p) ==
    /\ ClientsAct
    /\ pc[p] = "sending"
    /\ Moves(p, "finish")

\* Ctrl-C at the terminal.  setsid takes a daemon away from it; a child that
\* has not called it yet has done nothing else either.
CtrlC(p) ==
    /\ "ctrlc" \in Faults
    /\ p \in daemons => pc[p] = "c_fopen"
    /\ pc[p] \in CommandPCs \cup {"c_fopen", "sigaction"} \cup CaughtPCs
    /\ Signal(p, p, "dead")
    /\ NetUnchanged
    /\ UNCHANGED <<act, target, file, daemons, commands>>

\* SIGKILL, or a crash: no handler runs and nothing is cleaned up.
Crash(p) ==
    /\ "sigkill" \in Faults
    /\ Alive(p)
    /\ Exit(p, "killed")
    /\ linked' = linked \ {p}
    /\ listener' = IF listener = p THEN NoPid ELSE listener
    /\ backlog' = IF listener = p THEN 0 ELSE backlog
    /\ UNCHANGED <<act, file, daemons, actif, late, commands>>

\* An unrelated process takes a free pid.
Spawn(p, l) ==
    /\ "recycle" \in Faults
    /\ Available(p)
    /\ commands < MaxCommands
    /\ Born(p, l, "NO_OPTION")
    /\ daemons' = daemons \ {p}
    /\ commands' = commands + 1
    /\ UNCHANGED <<file, linked, listener, backlog>>

-----------------------------------------------------------------------------
StopStep(p) == StopRead(p) \/ StopCheck(p) \/ StopKill(p) \/ StopUnlink(p)

LaunchStep(p) ==
    \/ LaunchRead(p) \/ LaunchCheck(p) \/ LaunchUnlink(p)
    \/ LaunchForkFails(p) \/ \E c \in Pid : LaunchFork(p, c)

ChildStep(p) ==
    \/ ChildOpens(p) \/ ChildOpenFails(p) \/ ChildWrites(p)
    \/ ChildLogs(p) \/ ChildLogFails(p) \/ DaemonUnlinks(p)

ServerStep(p) ==
    \/ Sigaction(p) \/ Bind(p) \/ BindFails(p) \/ Listen(p) \/ ListenFails(p)
    \/ TestActif(p) \/ Accept(p) \/ AcceptFails(p) \/ AcceptBlocks(p)
    \/ Recv(p) \/ RecvBlocks(p) \/ RecvEnd(p)
    \/ Reply(p) \/ ReplyBlocks(p) \/ Finish(p) \/ Close(p)

\* What p does by itself.
Step(p) ==
    StopStep(p) \/ SleepEnds(p) \/ LaunchStep(p) \/ ChildStep(p)
    \/ ServerStep(p)

Environment(p) ==
    \/ \E a \in Commands : Invoke(p, a)
    \/ ClientSends(p) \/ ClientReads(p) \/ CtrlC(p) \/ Crash(p)
    \/ \E l \in {"foreign", "other"} : Spawn(p, l)

Next == Connect \/ \E p \in Pid : Step(p) \/ Environment(p)

\* Safety only.
Spec == Init /\ [][Next]_vars

\* The scheduler runs every process that is not blocked.
FairSpec == Spec /\ \A p \in Pid : WF_vars(Step(p))

\* Besides, clients never fall silent: one connects while there is room, a
\* connected one ends up sending its request or hanging up, and one that is
\* being answered ends up reading the answer or hanging up.
FairClientsSpec ==
    /\ FairSpec
    /\ WF_vars(Connect)
    /\ \A p \in Pid : WF_vars(ClientSends(p)) /\ WF_vars(ClientReads(p))

-----------------------------------------------------------------------------
(* Types.                                                                  *)

\* The values the variables may take.
TypeOK ==
    /\ pc \in [Pid -> PCs]
    /\ act \in [Pid -> Actions]
    /\ target \in [Pid -> Pid \cup {NoPid}]
    /\ file \in Pid \cup {NoFile, Empty}
    /\ linked \in SUBSET Pid
    /\ daemons \in SUBSET Pid
    /\ actif \in [Pid -> BOOLEAN]
    /\ listener \in Pid \cup {NoPid}
    /\ backlog \in Nat
    /\ late \in [Pid -> Nat]
    /\ code \in [Pid -> {"none", "killed", "0", "1"}]
    /\ commands \in Nat

-----------------------------------------------------------------------------
(* What holds in every interleaving of commands and daemons.               *)

\* The pid file never names a process that is not a daemon past its
\* ecrire_pid: not the parent of the fork, not a command, not a foreground
\* server.  (Without recycled pids.)
PidFileNamesDaemon ==
    file \in Pid => /\ file \in daemons
                    /\ pc[file] \notin {"c_fopen", "c_fclose"}

\* SIGINT is only ever sent to a daemon, though stop and restart read the
\* pid, test it and send the signal in three steps.  (Without recycled pids.)
StopSignalsOnlyDaemons ==
    \A p \in Pid : pc[p] = "s_kill" => target[p] \in daemons

\* Orderly deaths leave no stale pid file: if the file names a dead daemon,
\* a stop or restart that killed it is about to unlink the file.
StaleOnlyTransient ==
    file \in Pid /\ pc[file] = "dead" =>
        \E p \in Pid : pc[p] = "s_unlink" /\ target[p] = file

\* A pid file without a number in it is one that a daemon is about to
\* write: no daemon is lost in the window between fopen and fclose.
EmptyOnlyTransient ==
    file = Empty => \E p \in linked : pc[p] = "c_fclose"

\* Once its flag is cleared, a server accepts at most one more connection.
AtMostOneLateClient == \A p \in Pid : late[p] <= 1

-----------------------------------------------------------------------------
(* What holds when commands are typed one after the other and the clients  *)
(* do nothing while one of them is about to send its signal.               *)

\* At rest the pid file is right: it names p exactly if p is a daemon that
\* is alive, and that daemon serves the port.
PidFileFaithful ==
    Quiet => /\ \A p \in Pid : file = p <=> (p \in daemons /\ Alive(p))
             /\ file # Empty
             /\ file \in Pid => listener = file

\* Crashes, failed opens of the log and recycled pids may leave a wrong pid
\* file, but never an orphan: at rest a living daemon serves the port and is
\* named by the file, so that a stop or a restart still reaches it.
NoOrphan ==
    Quiet => \A p \in daemons : Alive(p) => file = p /\ listener = p

\* The pid file of a daemon that nobody told to stop is never removed or
\* overwritten, by a start, by a restart or by the end of an older daemon.
PidFileKept ==
    [][file' # file /\ file \in Pid =>
         (pc'[file] = "dead" \/ pc[file] = "d_unlink" \/ ~actif[file])]_vars

\* What a user sees of the processes, in the terms of DaemonService.
Working == {act[p] : p \in {q \in Pid : pc[q] \in CommandPCs}}
Living == {p \in daemons : Alive(p)}
Serving == daemons \cap {listener}
Told == {p \in Living : ~actif[p]}
Ended(p) == p \notin daemons /\ act[p] # "NO_OPTION" /\ pc[p] = "dead"
Reports == {<<act[p], code[p]>> : p \in {q \in Pid : Ended(q)}}

\* Typed one after the other, the commands keep the promise of
\* DaemonService: one daemon at most, launched when there is none, that
\* serves until it is told to end, and exit codes that can be believed
\* (daemon_handle_action).
Service == INSTANCE DaemonService WITH
    Process <- Pid,
    working <- Working,
    up <- Living,
    serving <- Serving,
    told <- Told,
    reports <- Reports
ServesUser == Service!Spec

\* A daemon that a stop or a restart signalled ends, be it blocked in accept,
\* recv or sendfile, or about to be.
StopTerminates ==
    \A q \in Pid :
        (\E p \in Pid : pc[p] = "s_unlink" /\ target[p] = q)
            ~> (pc[q] = "dead")

\* A child of a start ends up as the server of the port, or is dead.
StartServes ==
    \A p \in Pid :
        (pc[p] = "c_fopen") ~> (listener = p \/ pc[p] = "dead")

-----------------------------------------------------------------------------
(* What a test of the repository says, refuted by a run of its own.        *)

\* test_daemon.py, test_daemon_stop: "Daemon process should be stopped".
\* When everything has come to rest, no signalled daemon is left running.
StoppedDaemonStops ==
    Quiet => \A p \in daemons : actif[p] \/ ~Alive(p)

=============================================================================
