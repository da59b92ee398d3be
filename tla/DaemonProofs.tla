---------------------------- MODULE DaemonProofs ----------------------------
(***************************************************************************)
(* What TLAPS proves of Daemon for every set of pids, every bound and      *)
(* every interleaving: its types, that a server accepts at most one late   *)
(* connection, and, when pids are not recycled, that the pid file and      *)
(* SIGINT are only ever about daemons and when a stale or an empty pid     *)
(* file can be seen.                                                       *)
(*                                                                         *)
(* Then of commands that are typed one after the other, when the second of *)
(* restart is long enough and the clients do nothing while a stop or a     *)
(* restart is about to send its signal: no daemon is lost, its pid file is *)
(* kept and right, and the commands implement DaemonService, step by step. *)
(***************************************************************************)
EXTENDS Daemon, TLAPS

-----------------------------------------------------------------------------
(* Types.                                                                  *)

\* SIGINT leaves a process in a control state.
LEMMA InterruptedPC ==
    ASSUME TypeOK, NEW q \in Pid
    PROVE  Interrupted(q) \in PCs
BY DEF TypeOK, Interrupted, PCs, UncaughtPCs, CaughtPCs, LoopPCs, BlockedPCs,
       CommandPCs, StopPCs, LaunchPCs, ChildPCs, GonePCs

\* The names of the control states that the actions use.
LEMMA PCNames ==
    /\ {"s_read", "s_check", "s_kill", "s_unlink", "sleep", "l_read",
        "l_check", "l_unlink", "l_fork", "c_fopen", "c_fclose", "c_log",
        "sigaction", "bind", "listen", "while", "accept", "accepting",
        "recv", "receiving", "reply", "sending", "finish", "close",
        "d_unlink", "free", "dead", "foreign", "other"} = PCs
    /\ \A a \in Actions : Entry(a) \in {"sigaction", "l_read", "s_read"}
BY DEF Actions, Entry, PCs, UncaughtPCs, CaughtPCs, LoopPCs, BlockedPCs,
       CommandPCs, StopPCs, LaunchPCs, ChildPCs, GonePCs

LEMMA InitTypeOK == Init => TypeOK
BY PCNames DEF Init, TypeOK, Actions

LEMMA StopTypeOK ==
    ASSUME TypeOK, NEW p \in Pid, StopStep(p)
    PROVE  TypeOK'
<1> USE PidAssumption, PCNames DEF TypeOK
<1>1. CASE StopRead(p)
  BY <1>1 DEF StopRead, Goto, PidInFile, FileUnchanged, NetUnchanged
<1>2. CASE StopCheck(p)
  BY <1>2 DEF StopCheck, Goto, Moves, FileUnchanged, NetUnchanged
<1>3. CASE StopKill(p)
  <2>1. CASE Killable(target[p])
    <3> DEFINE q == target[p]
    <3>1. q \in Pid /\ Signal(q, p, "s_unlink") /\ UNCHANGED target
      BY <1>3, <2>1 DEF StopKill, Killable
    <3>2. pc' \in [Pid -> PCs]
      BY <3>1, InterruptedPC DEF Signal
    <3>3. /\ code' \in [Pid -> {"none", "killed", "0", "1"}]
          /\ actif' \in [Pid -> BOOLEAN]
          /\ linked' \in SUBSET Pid
      BY <3>1 DEF Signal
    <3> QED BY <1>3, <3>1, <3>2, <3>3 DEF StopKill, NetUnchanged
  <2>2. CASE ~Killable(target[p])
    BY <1>3, <2>2 DEF StopKill, StopReturns, Exit, Goto, NetUnchanged
  <2> QED BY <2>1, <2>2
<1>4. CASE StopUnlink(p)
  BY <1>4 DEF StopUnlink, Unlink, StopReturns, Exit, Goto, NetUnchanged
<1> QED BY <1>1, <1>2, <1>3, <1>4 DEF StopStep

LEMMA LaunchTypeOK ==
    ASSUME TypeOK, NEW p \in Pid, LaunchStep(p) \/ SleepEnds(p)
    PROVE  TypeOK'
<1> USE PidAssumption, PCNames
        DEF TypeOK, Goto, Moves, Exit, Dies, FileUnchanged, NetUnchanged
<1>1. CASE LaunchRead(p)
  BY <1>1 DEF LaunchRead, PidInFile
<1>2. CASE LaunchCheck(p)
  BY <1>2 DEF LaunchCheck
<1>3. CASE LaunchUnlink(p)
  BY <1>3 DEF LaunchUnlink, Unlink
<1>4. CASE LaunchForkFails(p)
  BY <1>4 DEF LaunchForkFails
<1>5. ASSUME NEW c \in Pid, LaunchFork(p, c)
      PROVE  TypeOK'
  BY <1>5 DEF LaunchFork
<1>6. CASE SleepEnds(p)
  BY <1>6 DEF SleepEnds
<1> QED BY <1>1, <1>2, <1>3, <1>4, <1>5, <1>6 DEF LaunchStep

LEMMA ChildTypeOK ==
    ASSUME TypeOK, NEW p \in Pid, ChildStep(p)
    PROVE  TypeOK'
<1> USE PidAssumption, PCNames
        DEF TypeOK, Goto, Moves, Exit, Dies, FileUnchanged, NetUnchanged
<1>1. CASE ChildOpens(p)
  BY <1>1 DEF ChildOpens
<1>2. CASE ChildOpenFails(p)
  BY <1>2 DEF ChildOpenFails
<1>3. CASE ChildWrites(p)
  BY <1>3 DEF ChildWrites
<1>4. CASE ChildLogs(p)
  BY <1>4 DEF ChildLogs
<1>5. CASE ChildLogFails(p)
  BY <1>5 DEF ChildLogFails
<1>6. CASE DaemonUnlinks(p)
  BY <1>6 DEF DaemonUnlinks, Unlink
<1> QED BY <1>1, <1>2, <1>3, <1>4, <1>5, <1>6 DEF ChildStep

LEMMA ServerTypeOK ==
    ASSUME TypeOK, NEW p \in Pid, ServerStep(p)
    PROVE  TypeOK'
<1> USE PidAssumption, PCNames
        DEF TypeOK, Goto, Moves, ServerReturns, FileUnchanged, NetUnchanged
<1>1. CASE Sigaction(p)
  BY <1>1 DEF Sigaction
<1>2. CASE Bind(p)
  BY <1>2 DEF Bind
<1>3. CASE BindFails(p)
  BY <1>3 DEF BindFails
<1>4. CASE Listen(p)
  BY <1>4 DEF Listen
<1>5. CASE ListenFails(p)
  BY <1>5 DEF ListenFails
<1>6. CASE TestActif(p)
  BY <1>6 DEF TestActif
<1>7. CASE Accept(p)
  BY <1>7 DEF Accept
<1>8. CASE AcceptFails(p) \/ AcceptBlocks(p)
  BY <1>8 DEF AcceptFails, AcceptBlocks
<1>9. CASE Recv(p)
  BY <1>9 DEF Recv
<1>10. CASE RecvBlocks(p) \/ RecvEnd(p) \/ Reply(p) \/ ReplyBlocks(p)
              \/ Finish(p)
  BY <1>10 DEF RecvBlocks, RecvEnd, Reply, ReplyBlocks, Finish
<1>11. CASE Close(p)
  BY <1>11 DEF Close
<1> QED BY <1>1, <1>2, <1>3, <1>4, <1>5, <1>6, <1>7, <1>8, <1>9, <1>10,
           <1>11 DEF ServerStep

LEMMA EnvironmentTypeOK ==
    ASSUME TypeOK, NEW p \in Pid, Environment(p)
    PROVE  TypeOK'
<1> USE PidAssumption, PCNames DEF TypeOK
<1>1. ASSUME NEW a \in Commands, Invoke(p, a)
      PROVE  TypeOK'
  <2>1. a \in Actions
    BY CommandsAssumption
  <2> QED BY <1>1, <2>1, BoundAssumption DEF Invoke, Born
<1>2. CASE ClientSends(p) \/ ClientReads(p)
  BY <1>2 DEF ClientSends, ClientReads, Goto, Moves, FileUnchanged,
              NetUnchanged
<1>3. CASE CtrlC(p)
  BY <1>3, InterruptedPC DEF CtrlC, Signal, NetUnchanged
<1>4. CASE Crash(p)
  BY <1>4 DEF Crash, Exit, Goto
<1>5. ASSUME NEW l \in {"foreign", "other"}, Spawn(p, l)
      PROVE  TypeOK'
  BY <1>5, "NO_OPTION" \in Actions DEF Spawn, Born, Actions
<1> QED BY <1>1, <1>2, <1>3, <1>4, <1>5 DEF Environment

LEMMA NextTypeOK == TypeOK /\ [Next]_vars => TypeOK'
<1> SUFFICES ASSUME TypeOK, [Next]_vars
             PROVE  TypeOK'
  OBVIOUS
<1>1. CASE Connect
  BY <1>1 DEF Connect, TypeOK, FileUnchanged
<1>2. ASSUME NEW p \in Pid, Step(p)
      PROVE  TypeOK'
  BY <1>2, StopTypeOK, LaunchTypeOK, ChildTypeOK, ServerTypeOK DEF Step
<1>3. ASSUME NEW p \in Pid, Environment(p)
      PROVE  TypeOK'
  BY <1>3, EnvironmentTypeOK
<1>4. CASE UNCHANGED vars
  BY <1>4 DEF vars, TypeOK
<1> QED BY <1>1, <1>2, <1>3, <1>4 DEF Next

\* Every variable keeps its type, in every behaviour of the commands and the
\* daemons.
THEOREM TypeCorrect == Spec => []TypeOK
BY InitTypeOK, NextTypeOK, PTL DEF Spec

-----------------------------------------------------------------------------
(* The late connection.                                                    *)

\* The control states a server can be in after a late connection: on the way
\* to the end of gerer_client, or past the loop.
LatePCs == {"recv", "receiving", "reply", "sending", "finish", "while",
            "close", "d_unlink", "dead"}

\* Inductive: a late connection sends the server back to while (actif), and
\* the flag it finds there is never set again.
LateInv ==
    \A p \in Pid :
        late[p] = 0 \/ (late[p] = 1 /\ ~actif[p] /\ pc[p] \in LatePCs)

LEMMA StepLate ==
    ASSUME TypeOK, LateInv, NEW p \in Pid, Step(p)
    PROVE  LateInv'
<1> USE DEF LateInv, LatePCs, TypeOK, Goto, Moves, Exit, Dies, FileUnchanged,
            NetUnchanged
<1>1. CASE StopKill(p)
  <2>1. CASE Killable(target[p])
    <3> DEFINE q == target[p]
    <3>1. q \in Pid /\ Signal(q, p, "s_unlink") /\ late' = late
      BY <1>1, <2>1 DEF StopKill, Killable
    <3>2. pc[p] \notin LatePCs /\ late[p] = 0
      BY <1>1 DEF StopKill
    <3>3. ASSUME NEW r \in Pid, late[r] = 1
          PROVE  ~actif'[r] /\ pc'[r] \in LatePCs
      <4>1. r # p /\ ~actif[r] /\ pc[r] \in LatePCs
        BY <3>2, <3>3
      <4>2. CASE r = q
        BY <3>1, <4>1, <4>2 DEF Signal, Interrupted, BlockedPCs
      <4>3. CASE r # q
        BY <3>1, <4>1, <4>3 DEF Signal
      <4> QED BY <4>2, <4>3
    <3> QED BY <3>1, <3>3
  <2>2. CASE ~Killable(target[p])
    BY <1>1, <2>2 DEF StopKill, StopReturns
  <2> QED BY <2>1, <2>2
<1>2. CASE StopRead(p) \/ StopCheck(p) \/ StopUnlink(p) \/ SleepEnds(p)
  BY <1>2 DEF StopRead, StopCheck, StopUnlink, StopReturns, SleepEnds
<1>3. CASE LaunchRead(p) \/ LaunchCheck(p) \/ LaunchUnlink(p)
             \/ LaunchForkFails(p)
  BY <1>3 DEF LaunchRead, LaunchCheck, LaunchUnlink, LaunchForkFails
<1>4. ASSUME NEW c \in Pid, LaunchFork(p, c)
      PROVE  LateInv'
  BY <1>4 DEF LaunchFork
<1>5. CASE ChildStep(p)
  BY <1>5 DEF ChildStep, ChildOpens, ChildOpenFails, ChildWrites, ChildLogs,
              ChildLogFails, DaemonUnlinks
<1>6. CASE Sigaction(p) \/ Bind(p) \/ BindFails(p) \/ Listen(p)
             \/ ListenFails(p)
  BY <1>6 DEF Sigaction, Bind, BindFails, Listen, ListenFails, ServerReturns
<1>7. CASE TestActif(p)
  BY <1>7 DEF TestActif
<1>8. CASE Accept(p)
  BY <1>8 DEF Accept
<1>9. CASE AcceptFails(p) \/ AcceptBlocks(p) \/ Recv(p) \/ RecvBlocks(p)
             \/ RecvEnd(p) \/ Reply(p) \/ ReplyBlocks(p) \/ Finish(p)
             \/ Close(p)
  BY <1>9 DEF AcceptFails, AcceptBlocks, Recv, RecvBlocks, RecvEnd, Reply,
              ReplyBlocks, Finish, Close, ServerReturns
<1> QED BY <1>1, <1>2, <1>3, <1>4, <1>5, <1>6, <1>7, <1>8, <1>9
        DEF Step, StopStep, LaunchStep, ServerStep

LEMMA EnvironmentLate ==
    ASSUME TypeOK, LateInv, NEW p \in Pid, Environment(p)
    PROVE  LateInv'
<1> USE DEF LateInv, LatePCs, TypeOK
<1>1. ASSUME NEW a, Invoke(p, a) \/ Spawn(p, a)
      PROVE  LateInv'
  BY <1>1 DEF Invoke, Spawn, Born
<1>2. CASE ClientSends(p) \/ ClientReads(p)
  BY <1>2 DEF ClientSends, ClientReads, Goto, Moves, NetUnchanged
<1>3. CASE CtrlC(p)
  BY <1>3 DEF CtrlC, Signal, Interrupted, BlockedPCs, NetUnchanged
<1>4. CASE Crash(p)
  BY <1>4 DEF Crash, Exit, Goto
<1> QED BY <1>1, <1>2, <1>3, <1>4 DEF Environment

\* Whatever signals, clients and crashes do, a server whose flag actif has
\* been cleared accepts at most one more connection (server.c, the loop of
\* server_start and handle_sigint).
THEOREM OneLateClient == Spec => []AtMostOneLateClient
<1>1. Init => LateInv
  BY DEF Init, LateInv
<1>2. TypeOK /\ LateInv /\ [Next]_vars => LateInv'
  <2> SUFFICES ASSUME TypeOK, LateInv, [Next]_vars
               PROVE  LateInv'
    OBVIOUS
  <2>1. CASE Connect \/ UNCHANGED vars
    BY <2>1 DEF Connect, vars, LateInv
  <2>2. ASSUME NEW p \in Pid, Step(p) \/ Environment(p)
        PROVE  LateInv'
    BY <2>2, StepLate, EnvironmentLate
  <2> QED BY <2>1, <2>2 DEF Next
<1>3. LateInv => AtMostOneLateClient
  BY DEF LateInv, AtMostOneLateClient
<1> QED BY <1>1, <1>2, <1>3, TypeCorrect, PTL DEF Spec

-----------------------------------------------------------------------------
(* The pid file and the targets of SIGINT, when pids are not recycled.     *)

\* q is a daemon whose ecrire_pid is done.
Named(q) == q \in daemons /\ pc[q] \notin {"c_fopen", "c_fclose"}

\* Inductive: who may be in the middle of which part of the code, and the
\* two places a pid can be read from, the file and the local variable pid.
PidFileInv ==
    /\ \A p \in Pid : pc[p] \in CommandPCs => act[p] # "NO_OPTION"
    /\ \A p \in Pid : pc[p] \in ChildPCs => p \in daemons
    /\ \A p \in daemons : /\ pc[p] \notin CommandPCs
                          /\ pc[p] \notin {"free", "foreign", "other"}
                          /\ act[p] # "NO_OPTION"
    /\ \A p \in linked : pc[p] = "c_fclose"
    /\ file \in Pid => Named(file)
    /\ \A p \in Pid : target[p] \in Pid => Named(target[p])
    /\ \A p \in Pid : pc[p] = "s_kill" => target[p] \in Pid

NoRecycling == "recycle" \notin Faults

LEMMA StopPidFile ==
    ASSUME TypeOK, PidFileInv, NEW p \in Pid, StopStep(p)
    PROVE  PidFileInv'
<1> USE PidAssumption
        DEF PidFileInv, Named, TypeOK, CommandPCs, StopPCs, LaunchPCs, ChildPCs
<1>1. CASE StopRead(p)
  BY <1>1 DEF StopRead, Goto, PidInFile, FileUnchanged
<1>2. CASE StopCheck(p)
  <2>1. Killable(target[p]) => target[p] \in Pid
    BY DEF Killable
  <2> QED BY <1>2, <2>1 DEF StopCheck, Goto, Moves, FileUnchanged
<1>3. CASE StopKill(p)
  <2>1. CASE Killable(target[p])
    <3> DEFINE q == target[p]
    <3>1. /\ q \in Pid /\ q # p /\ Named(q) /\ q \notin linked
          /\ Signal(q, p, "s_unlink")
          /\ UNCHANGED <<act, target, file, daemons>>
      BY <1>3, <2>1 DEF StopKill, Killable
    <3>2. pc'[q] \in {pc[q], "dead", "while", "finish"}
      BY <3>1 DEF Signal, Interrupted
    <3>3. pc' = [pc EXCEPT ![p] = "s_unlink", ![q] = pc'[q]]
      BY <3>1 DEF Signal
    <3>4. linked' = linked
      BY <3>1 DEF Signal
    <3> HIDE DEF q
    <3> QED BY <1>3, <3>1, <3>2, <3>3, <3>4 DEF StopKill
  <2>2. CASE ~Killable(target[p])
    BY <1>3, <2>2 DEF StopKill, StopReturns, Exit, Goto
  <2> QED BY <2>1, <2>2
<1>4. CASE StopUnlink(p)
  BY <1>4 DEF StopUnlink, Unlink, StopReturns, Exit, Goto
<1> QED BY <1>1, <1>2, <1>3, <1>4 DEF StopStep

LEMMA LaunchPidFile ==
    ASSUME NoRecycling, TypeOK, PidFileInv, NEW p \in Pid,
           LaunchStep(p) \/ SleepEnds(p)
    PROVE  PidFileInv'
<1> USE PidAssumption
        DEF PidFileInv, Named, TypeOK, CommandPCs, StopPCs, LaunchPCs,
            ChildPCs, Goto, Moves, Exit, Dies, FileUnchanged
<1>1. CASE LaunchRead(p)
  BY <1>1 DEF LaunchRead, PidInFile
<1>2. CASE LaunchCheck(p)
  BY <1>2 DEF LaunchCheck
<1>3. CASE LaunchUnlink(p)
  BY <1>3 DEF LaunchUnlink, Unlink
<1>4. CASE LaunchForkFails(p)
  BY <1>4 DEF LaunchForkFails
<1>5. ASSUME NEW c \in Pid, LaunchFork(p, c)
      PROVE  PidFileInv'
  <2>1. pc[c] = "free" /\ c \notin daemons /\ c # p
    BY <1>5 DEF LaunchFork, Available, NoRecycling
  <2> QED BY <1>5, <2>1 DEF LaunchFork
<1>6. CASE SleepEnds(p)
  BY <1>6 DEF SleepEnds
<1> QED BY <1>1, <1>2, <1>3, <1>4, <1>5, <1>6 DEF LaunchStep

LEMMA ChildPidFile ==
    ASSUME TypeOK, PidFileInv, NEW p \in Pid, ChildStep(p)
    PROVE  PidFileInv'
<1> USE PidAssumption
        DEF PidFileInv, Named, TypeOK, CommandPCs, StopPCs, LaunchPCs,
            ChildPCs, Goto, Moves, Exit, Dies, FileUnchanged
<1>1. CASE ChildOpens(p)
  BY <1>1 DEF ChildOpens
<1>2. CASE ChildOpenFails(p)
  BY <1>2 DEF ChildOpenFails
<1>3. CASE ChildWrites(p)
  BY <1>3 DEF ChildWrites
<1>4. CASE ChildLogs(p) \/ ChildLogFails(p)
  BY <1>4 DEF ChildLogs, ChildLogFails
<1>5. CASE DaemonUnlinks(p)
  BY <1>5 DEF DaemonUnlinks, Unlink
<1> QED BY <1>1, <1>2, <1>3, <1>4, <1>5 DEF ChildStep

LEMMA ServerPidFile ==
    ASSUME TypeOK, PidFileInv, NEW p \in Pid, ServerStep(p)
    PROVE  PidFileInv'
<1> USE DEF PidFileInv, Named, TypeOK, CommandPCs, StopPCs, LaunchPCs,
            ChildPCs, Goto, Moves, ServerReturns, FileUnchanged
<1>1. CASE Sigaction(p) \/ Bind(p) \/ BindFails(p)
  BY <1>1 DEF Sigaction, Bind, BindFails
<1>2. CASE Listen(p) \/ ListenFails(p)
  BY <1>2 DEF Listen, ListenFails
<1>3. CASE TestActif(p) \/ Accept(p) \/ AcceptFails(p) \/ AcceptBlocks(p)
  BY <1>3 DEF TestActif, Accept, AcceptFails, AcceptBlocks
<1>4. CASE Recv(p) \/ RecvBlocks(p) \/ RecvEnd(p) \/ Reply(p)
             \/ ReplyBlocks(p) \/ Finish(p) \/ Close(p)
  BY <1>4 DEF Recv, RecvBlocks, RecvEnd, Reply, ReplyBlocks, Finish, Close
<1> QED BY <1>1, <1>2, <1>3, <1>4 DEF ServerStep

LEMMA EnvironmentPidFile ==
    ASSUME NoRecycling, TypeOK, PidFileInv, NEW p \in Pid, Environment(p)
    PROVE  PidFileInv'
<1> USE PidAssumption
        DEF PidFileInv, Named, TypeOK, CommandPCs, StopPCs, LaunchPCs, ChildPCs
<1>1. ASSUME NEW a \in Commands, Invoke(p, a)
      PROVE  PidFileInv'
  <2>1. pc[p] = "free" /\ p \notin daemons /\ daemons' = daemons
    BY <1>1 DEF Invoke, Available, NoRecycling
  <2> QED BY <1>1, <2>1 DEF Invoke, Born, Entry
<1>2. CASE ClientSends(p) \/ ClientReads(p)
  BY <1>2 DEF ClientSends, ClientReads, Goto, Moves, FileUnchanged
<1>3. CASE CtrlC(p)
  <2>1. pc[p] # "c_fclose" /\ linked' = linked
    BY <1>3 DEF CtrlC, Signal, CaughtPCs, LoopPCs, BlockedPCs
  <2>2. /\ pc' = [pc EXCEPT ![p] = pc'[p]]
        /\ pc'[p] \in {pc[p], "dead", "while", "finish"}
    BY <1>3 DEF CtrlC, Signal, Interrupted
  <2> QED BY <1>3, <2>1, <2>2 DEF CtrlC
<1>4. CASE Crash(p)
  BY <1>4 DEF Crash, Exit, Goto
<1>5. ASSUME NEW l, Spawn(p, l)
      PROVE  PidFileInv'
  BY <1>5 DEF Spawn, NoRecycling
<1> QED BY <1>1, <1>2, <1>3, <1>4, <1>5 DEF Environment

LEMMA NextPidFile ==
    ASSUME NoRecycling
    PROVE  TypeOK /\ PidFileInv /\ [Next]_vars => PidFileInv'
<1> SUFFICES ASSUME TypeOK, PidFileInv, [Next]_vars
             PROVE  PidFileInv'
  OBVIOUS
<1>1. CASE Connect \/ UNCHANGED vars
  BY <1>1 DEF Connect, vars, PidFileInv, Named, FileUnchanged
<1>2. ASSUME NEW p \in Pid, Step(p) \/ Environment(p)
      PROVE  PidFileInv'
  BY <1>2, StopPidFile, LaunchPidFile, ChildPidFile, ServerPidFile,
     EnvironmentPidFile DEF Step
<1> QED BY <1>1, <1>2 DEF Next

LEMMA PidFileInvHolds ==
    ASSUME NoRecycling
    PROVE  Spec => []PidFileInv
<1>1. Init => PidFileInv
  BY PidAssumption DEF Init, PidFileInv, CommandPCs, StopPCs, LaunchPCs,
     ChildPCs
<1> QED BY <1>1, NextPidFile, TypeCorrect, PTL DEF Spec

\* Unless pids are recycled, the pid file names nobody but daemons that have
\* written it, however starts, stops, restarts and crashes interleave
\* (daemon.c, ecrire_pid against recuperer_pid).
THEOREM PidFileOfDaemons ==
    ASSUME NoRecycling
    PROVE  Spec => []PidFileNamesDaemon
<1>1. PidFileInv => PidFileNamesDaemon
  BY DEF PidFileInv, PidFileNamesDaemon, Named
<1> QED BY <1>1, PidFileInvHolds, PTL

\* Unless pids are recycled, stop and restart never send SIGINT to anything
\* but a daemon: neither to themselves nor to a foreground server, though
\* the file may change between the read, the test and the kill of
\* arret_demon.
THEOREM SignalsOfDaemons ==
    ASSUME NoRecycling
    PROVE  Spec => []StopSignalsOnlyDaemons
<1>1. PidFileInv => StopSignalsOnlyDaemons
  BY DEF PidFileInv, StopSignalsOnlyDaemons, Named
<1> QED BY <1>1, PidFileInvHolds, PTL

-----------------------------------------------------------------------------
(* The windows in which a wrong pid file can be seen.                      *)

\* The empty file: some daemon holds it open and will write it.
EmptyInv == file = Empty => linked # {}

\* A daemon that holds the pid file open is not yet named by it, so no stop
\* can interrupt it there; only SIGKILL could.
LEMMA NextEmpty ==
    ASSUME "sigkill" \notin Faults
    PROVE  TypeOK /\ PidFileInv /\ EmptyInv /\ [Next]_vars => EmptyInv'
<1> SUFFICES ASSUME TypeOK, PidFileInv, EmptyInv, [Next]_vars
             PROVE  EmptyInv'
  OBVIOUS
<1> USE PidAssumption DEF EmptyInv, TypeOK
<1>1. CASE Connect \/ UNCHANGED vars
  BY <1>1 DEF Connect, vars, FileUnchanged
<1>2. ASSUME NEW p \in Pid, StopStep(p)
      PROVE  EmptyInv'
  <2>1. CASE StopKill(p) /\ Killable(target[p])
    <3>1. target[p] \in Pid /\ Signal(target[p], p, "s_unlink")
      BY <2>1 DEF StopKill, Killable
    <3>2. target[p] \notin linked
      BY <3>1 DEF PidFileInv, Named
    <3> QED BY <2>1, <3>1, <3>2 DEF StopKill, Signal
  <2> QED BY <1>2, <2>1 DEF StopStep, StopRead, StopCheck, StopKill,
             StopUnlink, Unlink, Moves, FileUnchanged
<1>3. ASSUME NEW p \in Pid, LaunchStep(p) \/ SleepEnds(p)
      PROVE  EmptyInv'
  BY <1>3 DEF LaunchStep, LaunchRead, LaunchCheck, LaunchUnlink,
     LaunchForkFails, LaunchFork, SleepEnds, Unlink, Moves, Dies,
     FileUnchanged
<1>4. ASSUME NEW p \in Pid, ChildStep(p)
      PROVE  EmptyInv'
  <2>1. CASE ChildWrites(p) /\ p \notin linked
    <3>1. linked \ {p} = linked
      BY <2>1
    <3> QED BY <2>1, <3>1 DEF ChildWrites
  <2>2. CASE ChildWrites(p) /\ p \in linked
    BY <2>2 DEF ChildWrites
  <2>3. CASE ChildOpens(p)
    BY <2>3 DEF ChildOpens
  <2> QED BY <1>4, <2>1, <2>2, <2>3 DEF ChildStep, ChildOpenFails, ChildLogs,
             ChildLogFails, DaemonUnlinks, Unlink, Moves, Dies, FileUnchanged
<1>5. ASSUME NEW p \in Pid, ServerStep(p)
      PROVE  EmptyInv'
  BY <1>5 DEF ServerStep, Sigaction, Bind, BindFails, Listen, ListenFails,
     TestActif, Accept, AcceptFails, AcceptBlocks, Recv, RecvBlocks, RecvEnd,
     Reply, ReplyBlocks, Finish, Close, Moves, FileUnchanged
<1>6. ASSUME NEW p \in Pid, Environment(p)
      PROVE  EmptyInv'
  <2>1. CASE CtrlC(p)
    <3>1. p \notin linked
      BY <2>1 DEF CtrlC, PidFileInv, ChildPCs
    <3> QED BY <2>1, <3>1 DEF CtrlC, Signal
  <2> QED BY <1>6, <2>1 DEF Environment, Invoke, ClientSends, ClientReads,
             Crash, Spawn, Moves, FileUnchanged
<1> QED BY <1>1, <1>2, <1>3, <1>4, <1>5, <1>6 DEF Next, Step

\* Without SIGKILL and recycled pids, an empty pid file is one that a daemon
\* between the fopen and the fclose of ecrire_pid is going to fill.
THEOREM EmptyFileIsTransient ==
    ASSUME NoRecycling, "sigkill" \notin Faults
    PROVE  Spec => []EmptyOnlyTransient
<1>1. Init => EmptyInv
  BY PidAssumption DEF Init, EmptyInv
<1>2. PidFileInv /\ EmptyInv => EmptyOnlyTransient
  BY DEF PidFileInv, EmptyInv, EmptyOnlyTransient
<1> QED BY <1>1, <1>2, NextEmpty, TypeCorrect, PidFileInvHolds, PTL DEF Spec

\* Deaths are orderly: no process is killed but by stop and restart, and the
\* log file opens.
OrderlyDeaths == {"recycle", "sigkill", "ctrlc", "log"} \cap Faults = {}

\* A process at s_unlink that killed q, which the file still names.
Culprit(q, p) == pc[p] = "s_unlink" /\ target[p] = q

StaleInv ==
    file \in Pid /\ pc[file] = "dead" => \E p \in Pid : Culprit(file, p)

\* Steps of p that leave the file alone, kill nobody and do not take p from
\* s_unlink keep StaleInv, unless p itself is in the file and dies.
LEMMA StaleFrame ==
    ASSUME TypeOK, PidFileInv, StaleInv, NEW p \in Pid, NEW l,
           file' = file, pc' = [pc EXCEPT ![p] = l],
           pc[p] # "s_unlink", p = file => l # "dead",
           \A r \in Pid \ {p} : target'[r] = target[r]
    PROVE  StaleInv'
<1> SUFFICES ASSUME file \in Pid, pc'[file] = "dead"
             PROVE  \E r \in Pid : pc'[r] = "s_unlink" /\ target'[r] = file
  BY DEF StaleInv, Culprit
<1>1. pc[file] = "dead" /\ file # p
  BY DEF TypeOK
<1>2. PICK r \in Pid : Culprit(file, r)
  BY <1>1 DEF StaleInv
<1>3. r # p /\ pc'[r] = "s_unlink" /\ target'[r] = file
  BY <1>2 DEF Culprit, TypeOK
<1> QED BY <1>3

LEMMA NoStaleFile ==
    ASSUME file' \notin Pid
    PROVE  StaleInv'
BY DEF StaleInv

LEMMA StopStale ==
    ASSUME TypeOK, PidFileInv, StaleInv, NEW p \in Pid, StopStep(p)
    PROVE  StaleInv'
<1> USE DEF TypeOK
<1>0. /\ p # file
      /\ pc[p] = "s_kill" => target[p] \in daemons /\ p \notin daemons
  BY DEF PidFileInv, Named, StopStep, StopRead, StopCheck, StopKill,
         StopUnlink, CommandPCs, StopPCs
<1>1. CASE StopRead(p)
  BY <1>0, <1>1, StaleFrame DEF StopRead, Goto, FileUnchanged
<1>2. CASE StopCheck(p)
  <2> DEFINE l == IF Killable(target[p]) THEN "s_kill" ELSE "s_unlink"
  <2>1. pc' = [pc EXCEPT ![p] = l] /\ file' = file /\ target' = target
    BY <1>2 DEF StopCheck, Goto, Moves, FileUnchanged
  <2>2. pc[p] # "s_unlink"
    BY <1>2 DEF StopCheck
  <2> HIDE DEF l
  <2> QED BY <1>0, <2>1, <2>2, StaleFrame
<1>3. CASE StopKill(p) /\ Killable(target[p])
  <2> DEFINE q == target[p]
  <2>1. /\ Signal(q, p, "s_unlink") /\ target' = target /\ file' = file
        /\ q \in Pid /\ q \in daemons /\ q # p
    BY <1>0, <1>3 DEF StopKill, Killable
  <2>2. pc'[p] = "s_unlink" /\ target'[p] = q
    BY <2>1 DEF Signal
  <2>3. CASE file = q
    BY <2>1, <2>2, <2>3 DEF StaleInv, Culprit
  <2>4. CASE file # q
    <3> SUFFICES ASSUME file \in Pid, pc'[file] = "dead"
                 PROVE  \E r \in Pid : Culprit(file, r)'
      BY <2>1 DEF StaleInv, Culprit
    <3>1. pc[file] = "dead"
      BY <1>0, <2>1, <2>4 DEF Signal
    <3>2. PICK r \in Pid : Culprit(file, r)
      BY <3>1 DEF StaleInv
    <3>3. r # q
      BY <2>1, <3>2 DEF Culprit, PidFileInv, CommandPCs, StopPCs
    <3>4. pc'[r] = "s_unlink" /\ target'[r] = file
      BY <2>1, <2>2, <3>2, <3>3 DEF Signal, Culprit
    <3> QED BY <2>1, <3>4 DEF Culprit
  <2> QED BY <2>3, <2>4
<1>4. CASE StopKill(p) /\ ~Killable(target[p])
  <2>1. \E l : pc' = [pc EXCEPT ![p] = l]
    BY <1>4 DEF StopKill, StopReturns, Exit, Goto
  <2>2. file' = file /\ pc[p] # "s_unlink"
        /\ \A r \in Pid \ {p} : target'[r] = target[r]
    BY <1>4 DEF StopKill, StopReturns, Exit
  <2> QED BY <1>0, <2>1, <2>2, StaleFrame
<1>5. CASE StopUnlink(p)
  BY <1>5, PidAssumption, NoStaleFile DEF StopUnlink, Unlink
<1> QED BY <1>1, <1>2, <1>3, <1>4, <1>5 DEF StopStep

LEMMA LaunchStale ==
    ASSUME OrderlyDeaths, TypeOK, PidFileInv, StaleInv, NEW p \in Pid,
           LaunchStep(p) \/ SleepEnds(p)
    PROVE  StaleInv'
<1> USE DEF TypeOK
<1>1. p # file /\ pc[p] # "s_unlink"
  BY DEF PidFileInv, Named, LaunchStep, LaunchRead, LaunchCheck, LaunchUnlink,
         LaunchForkFails, LaunchFork, SleepEnds, CommandPCs, LaunchPCs
<1>2. CASE LaunchRead(p) \/ SleepEnds(p)
  <2>1. \E l : pc' = [pc EXCEPT ![p] = l]
    BY <1>2 DEF LaunchRead, SleepEnds, Goto, Moves
  <2>2. file' = file /\ \A r \in Pid \ {p} : target'[r] = target[r]
    BY <1>2 DEF LaunchRead, SleepEnds, Moves, FileUnchanged
  <2> QED BY <1>1, <2>1, <2>2, StaleFrame
<1>3. CASE LaunchCheck(p) \/ LaunchForkFails(p)
  <2>1. \E l : pc' = [pc EXCEPT ![p] = l]
    BY <1>3 DEF LaunchCheck, LaunchForkFails, Exit, Dies, Goto, Moves
  <2>2. file' = file /\ \A r \in Pid \ {p} : target'[r] = target[r]
    BY <1>3 DEF LaunchCheck, LaunchForkFails, Exit, Moves, Dies,
       FileUnchanged
  <2> QED BY <1>1, <2>1, <2>2, StaleFrame
<1>4. CASE LaunchUnlink(p)
  BY <1>4, PidAssumption, NoStaleFile DEF LaunchUnlink, Unlink
<1>5. ASSUME NEW c \in Pid, LaunchFork(p, c)
      PROVE  StaleInv'
  <2>1. pc[c] = "free" /\ c \notin daemons /\ c # file
    BY <1>5 DEF LaunchFork, Available, OrderlyDeaths, PidFileInv, Named
  <2>2. \A r \in Pid : pc[r] = "s_unlink"
          => pc'[r] = "s_unlink" /\ target'[r] = target[r]
    BY <1>1, <1>5, <2>1 DEF LaunchFork
  <2> QED BY <1>1, <1>5, <2>1, <2>2
          DEF LaunchFork, StaleInv, Culprit, FileUnchanged
<1> QED BY <1>2, <1>3, <1>4, <1>5 DEF LaunchStep

LEMMA ChildStale ==
    ASSUME OrderlyDeaths, TypeOK, PidFileInv, StaleInv, NEW p \in Pid,
           ChildStep(p)
    PROVE  StaleInv'
<1> USE DEF TypeOK
<1>1. pc[p] # "s_unlink"
  BY DEF ChildStep, ChildOpens, ChildOpenFails, ChildWrites, ChildLogs,
         ChildLogFails, DaemonUnlinks
<1>2. CASE ChildOpens(p)
  BY <1>2, PidAssumption, NoStaleFile DEF ChildOpens
<1>3. CASE ChildOpenFails(p)
  <2>1. p # file
    BY <1>3 DEF ChildOpenFails, PidFileInv, Named
  <2> QED BY <1>1, <1>3, <2>1, StaleFrame
          DEF ChildOpenFails, Exit, Dies, Goto, Moves, FileUnchanged
<1>4. CASE ChildWrites(p) /\ p \in linked
  BY <1>4 DEF ChildWrites, Goto, StaleInv
<1>5. CASE ChildWrites(p) /\ p \notin linked
  BY <1>1, <1>5, StaleFrame DEF ChildWrites, Goto
<1>6. CASE ChildLogs(p)
  BY <1>1, <1>6, StaleFrame DEF ChildLogs, Goto, Moves, FileUnchanged
<1>7. CASE DaemonUnlinks(p)
  BY <1>7, PidAssumption, NoStaleFile DEF DaemonUnlinks, Unlink
<1>8. ~ChildLogFails(p)
  BY DEF ChildLogFails, OrderlyDeaths
<1> QED BY <1>2, <1>3, <1>4, <1>5, <1>6, <1>7, <1>8 DEF ChildStep

LEMMA ServerStale ==
    ASSUME TypeOK, PidFileInv, StaleInv, NEW p \in Pid, ServerStep(p)
    PROVE  StaleInv'
<1> USE DEF TypeOK
<1>1. pc[p] # "s_unlink"
  BY DEF ServerStep, Sigaction, Bind, BindFails, Listen, ListenFails,
         TestActif, Accept, AcceptFails, AcceptBlocks, Recv, RecvBlocks,
         RecvEnd, Reply, ReplyBlocks, Finish, Close
<1>2. file' = file /\ target' = target
  BY DEF ServerStep, Sigaction, Bind, BindFails, Listen, ListenFails,
         TestActif, Accept, AcceptFails, AcceptBlocks, Recv, RecvBlocks,
         RecvEnd, Reply, ReplyBlocks, Finish, Close, Moves, FileUnchanged
<1>3. p = file => act[p] # "NO_OPTION"
  BY DEF PidFileInv, Named
<1>4. \E l : pc' = [pc EXCEPT ![p] = l] /\ (p = file => l # "dead")
  <2> USE DEF Goto, Moves
  <2>1. CASE BindFails(p) \/ ListenFails(p) \/ Close(p)
    BY <1>3, <2>1 DEF BindFails, ListenFails, Close, ServerReturns
  <2>2. CASE Sigaction(p) \/ Bind(p) \/ Listen(p)
    BY <2>2 DEF Sigaction, Bind, Listen
  <2>3. CASE TestActif(p) \/ Accept(p) \/ AcceptFails(p) \/ AcceptBlocks(p)
    BY <2>3 DEF TestActif, Accept, AcceptFails, AcceptBlocks
  <2>4. CASE Recv(p) \/ RecvBlocks(p) \/ RecvEnd(p) \/ Reply(p)
               \/ ReplyBlocks(p) \/ Finish(p)
    BY <2>4 DEF Recv, RecvBlocks, RecvEnd, Reply, ReplyBlocks, Finish
  <2> QED BY <2>1, <2>2, <2>3, <2>4 DEF ServerStep
<1> QED BY <1>1, <1>2, <1>4, StaleFrame

LEMMA EnvironmentStale ==
    ASSUME OrderlyDeaths, TypeOK, PidFileInv, StaleInv, NEW p \in Pid,
           Environment(p)
    PROVE  StaleInv'
<1> USE DEF TypeOK
<1>1. ASSUME NEW a, Invoke(p, a)
      PROVE  StaleInv'
  <2>1. pc[p] = "free" /\ p # file
    BY <1>1 DEF Invoke, Available, OrderlyDeaths, PidFileInv, Named
  <2> QED BY <1>1, <2>1, StaleFrame DEF Invoke, Born
<1>2. CASE ClientSends(p) \/ ClientReads(p)
  BY <1>2, StaleFrame DEF ClientSends, ClientReads, Goto, Moves, FileUnchanged
<1>3. ~CtrlC(p) /\ ~Crash(p) /\ \A l : ~Spawn(p, l)
  BY DEF CtrlC, Crash, Spawn, OrderlyDeaths
<1> QED BY <1>1, <1>2, <1>3 DEF Environment

\* When deaths are orderly, a pid file that names a dead daemon is seen only
\* between the kill and the unlink of a stop or a restart: a daemon that
\* ends by itself, even one that could not bind, takes the file with it.
THEOREM StaleFileIsTransient ==
    ASSUME OrderlyDeaths
    PROVE  Spec => []StaleOnlyTransient
<1>1. NoRecycling
  BY DEF OrderlyDeaths, NoRecycling
<1>2. Init => StaleInv
  BY PidAssumption DEF Init, StaleInv
<1>3. TypeOK /\ PidFileInv /\ StaleInv /\ [Next]_vars => StaleInv'
  <2> SUFFICES ASSUME TypeOK, PidFileInv, StaleInv, [Next]_vars
               PROVE  StaleInv'
    OBVIOUS
  <2>1. CASE Connect \/ UNCHANGED vars
    BY <2>1 DEF Connect, vars, StaleInv, Culprit, FileUnchanged
  <2>2. ASSUME NEW p \in Pid, Step(p) \/ Environment(p)
        PROVE  StaleInv'
    BY <2>2, StopStale, LaunchStale, ChildStale, ServerStale, EnvironmentStale
       DEF Step
  <2> QED BY <2>1, <2>2 DEF Next
<1>4. StaleInv => StaleOnlyTransient
  BY DEF StaleInv, Culprit, StaleOnlyTransient
<1>5. Spec => []PidFileInv
  BY <1>1, PidFileInvHolds
<1> QED BY <1>2, <1>3, <1>4, <1>5, TypeCorrect, PTL DEF Spec

-----------------------------------------------------------------------------
(* Commands one after the other.                                           *)

\* How the commands are used.  Serial also says that no client connects,
\* sends, reads or hangs up between the beginning of a stop or a restart and
\* its signal (ClientsAct); at any other time any number of them do all of
\* it, and a stop may find them connected and silent.  A daemon that is woken
\* just then loses the signal (lost_wakeup), and nothing below is true.
SerialUse == Serial /\ SleepSettles

-----------------------------------------------------------------------------
(* The inductive invariant, which no failure breaks: processes may be      *)
(* killed, pids recycled, files not opened.                                *)

\* Who is in which part of the code, and who has the port.
RoleInv ==
    /\ \A p \in Pid : pc[p] \in CommandPCs => act[p] # "NO_OPTION"
    /\ \A p \in Pid : pc[p] \in ChildPCs \cup {"d_unlink"} => p \in daemons
    /\ \A p \in Pid : pc[p] \in {"sigaction"} \cup CaughtPCs =>
                        act[p] = "NO_OPTION" \/ p \in daemons
    /\ \A d \in Living :
         /\ pc[d] \in ChildPCs \cup {"sigaction"} \cup CaughtPCs
         /\ act[d] # "NO_OPTION"
    /\ \A p \in Pid : listener = p <=> pc[p] \in LoopPCs

\* d waits for its clients, was not told to stop and is in the pid file.
Settled(d) == pc[d] \in BlockedPCs /\ AtRest(d) /\ actif[d] /\ file = d

\* The life of a daemon: it is in the file from its fclose until it is told
\* to stop, and it is told only when it is blocked, in accept, in recv or in
\* sendfile.
LifeInv(d) ==
    /\ pc[d] = "c_fclose" => d \in linked
    /\ actif[d] /\ pc[d] \in {"c_log", "sigaction", "bind", "listen"}
                               \cup LoopPCs => file = d
    /\ ~actif[d] => pc[d] \in {"finish", "while", "close", "d_unlink"}
    /\ pc[d] = "close" => ~actif[d]

\* What a command knows of a daemon d that lives: that it waits and has its
\* pid in the file, that it serves, that it was told to stop, or that there
\* is none.
CommandInv(p, d) ==
    /\ pc[p] \in AimPCs => Settled(d)
    /\ pc[p] \in {"l_read", "l_check"} => actif[d] /\ pc[d] \in LoopPCs
    /\ pc[p] \in {"s_check", "s_kill", "l_check"} => target[p] = d
    /\ pc[p] \in {"s_unlink", "sleep"} => ~actif[d]
    /\ pc[p] \notin {"l_unlink", "l_fork"}

\* One command at a time, one daemon at most, and what they know of each
\* other.
TurnInv ==
    /\ \A p, q \in Pid : pc[p] \in CommandPCs /\ pc[q] \in CommandPCs => p = q
    /\ \A d, e \in Living : d = e
    /\ \A d \in Living : LifeInv(d)
    /\ \A d \in Living, p \in Pid : CommandInv(p, d)

SerialInv == RoleInv /\ TurnInv

-----------------------------------------------------------------------------
(* Roles.                                                                  *)

LEMMA RoleKept ==
    ASSUME TypeOK, RoleInv, [Next]_vars
    PROVE  RoleInv'
<1> USE PidAssumption
        DEF RoleInv, Living, Alive, TypeOK, Goto, Moves, Exit, Dies,
            FileUnchanged, NetUnchanged, UncaughtPCs, CommandPCs, StopPCs,
            LaunchPCs, ChildPCs, CaughtPCs, LoopPCs, BlockedPCs, GonePCs
<1>1. CASE UNCHANGED vars \/ Connect
  BY <1>1 DEF vars, Connect
<1>2. ASSUME NEW p \in Pid, StopRead(p) \/ StopCheck(p) \/ StopUnlink(p)
      PROVE  RoleInv'
  BY <1>2 DEF StopRead, StopCheck, StopUnlink, StopReturns
<1>3. ASSUME NEW p \in Pid, StopKill(p)
      PROVE  RoleInv'
  BY <1>3 DEF StopKill, StopReturns, Signal, Interrupted, Killable
<1>4. ASSUME NEW p \in Pid, LaunchStep(p) \/ SleepEnds(p)
      PROVE  RoleInv'
  BY <1>4 DEF LaunchStep, LaunchRead, LaunchCheck, LaunchUnlink,
     LaunchForkFails, LaunchFork, SleepEnds, Available
<1>5. ASSUME NEW p \in Pid, ChildStep(p)
      PROVE  RoleInv'
  BY <1>5 DEF ChildStep, ChildOpens, ChildOpenFails, ChildWrites, ChildLogs,
     ChildLogFails, DaemonUnlinks
<1>6. ASSUME NEW p \in Pid, ServerStep(p)
      PROVE  RoleInv'
  BY <1>6 DEF ServerStep, Sigaction, Bind, BindFails, Listen, ListenFails,
     ServerReturns, TestActif, Accept, AcceptFails, AcceptBlocks, Recv,
     RecvBlocks, RecvEnd, Reply, ReplyBlocks, Finish, Close
<1>7. ASSUME NEW p \in Pid, Environment(p)
      PROVE  RoleInv'
  <2>1. ASSUME NEW a \in Commands, Invoke(p, a)
        PROVE  RoleInv'
    BY <2>1, CommandsAssumption DEF Invoke, Born, Entry, Actions, Available
  <2>2. ASSUME NEW l \in {"foreign", "other"}, Spawn(p, l)
        PROVE  RoleInv'
    BY <2>2 DEF Spawn, Born, Available
  <2>3. CASE ClientSends(p) \/ ClientReads(p) \/ Crash(p)
    BY <2>3 DEF ClientSends, ClientReads, Crash
  <2>4. CASE CtrlC(p)
    BY <2>4 DEF CtrlC, Signal, Interrupted
  <2> QED BY <1>7, <2>1, <2>2, <2>3, <2>4 DEF Environment
<1> QED BY <1>1, <1>2, <1>3, <1>4, <1>5, <1>6, <1>7 DEF Next, Step, StopStep

-----------------------------------------------------------------------------
(* One command, one daemon.                                                *)

LEMMA StopTurn ==
    ASSUME SerialUse, TypeOK, SerialInv, NEW p \in Pid, StopStep(p)
    PROVE  TurnInv'
<1> USE PidAssumption
        DEF SerialInv, TurnInv, LifeInv, CommandInv, AimPCs, Settled, Living,
            Alive, RoleInv, AtRest, TypeOK, Goto, Moves, Exit, FileUnchanged,
            NetUnchanged, UncaughtPCs, CommandPCs, StopPCs, LaunchPCs,
            ChildPCs, CaughtPCs, LoopPCs, BlockedPCs, GonePCs
<1>1. CASE StopRead(p)
  BY <1>1 DEF StopRead, PidInFile
<1>2. CASE StopCheck(p)
  BY <1>2 DEF StopCheck, Killable
<1>3. CASE StopKill(p)
  <2>1. CASE Killable(target[p])
    <3> DEFINE q == target[p]
    <3>1. /\ q \in Pid /\ Signal(q, p, "s_unlink")
          /\ pc[p] = "s_kill" /\ pc[q] \in UncaughtPCs \cup CaughtPCs
          /\ UNCHANGED <<act, file, daemons, backlog, target>>
      BY <1>3, <2>1 DEF StopKill, Killable
    <3>2. \A d \in Living : d = q /\ d # p /\ Settled(d)
      BY <3>1
    <3>3. \A r \in Pid \ {p, q} : pc'[r] = pc[r] /\ actif'[r] = actif[r]
      BY <3>1 DEF Signal
    <3>4. CASE Living = {}
      <4>1. pc'[p] \notin CommandPCs \ {"s_unlink"} /\ Living' = {}
        BY <3>1, <3>3, <3>4 DEF Signal, Interrupted
      <4>2. \A r \in Pid : pc'[r] \in CommandPCs => pc[r] \in CommandPCs
        BY <3>1, <3>3 DEF Signal, Interrupted
      <4> QED BY <4>1, <4>2
    <3>5. CASE Living # {}
      <4>1. q \in Living /\ Living = {q} /\ p # q /\ pc[q] \in BlockedPCs
        BY <3>2, <3>5
      <4>2. /\ pc'[q] \in {"while", "finish"} /\ ~actif'[q]
            /\ pc'[p] = "s_unlink"
        <5>1. pc[q] \notin UncaughtPCs
          BY <4>1
        <5>2. Interrupted(q) \in {"while", "finish"}
          BY <3>2, <4>1, <5>1 DEF Interrupted
        <5>3. pc'[q] = Interrupted(q) /\ pc'[p] = "s_unlink"
          BY <3>1, <4>1 DEF Signal
        <5>4. actif'[q] = (actif[q] /\ pc[q] \in UncaughtPCs)
          BY <3>1 DEF Signal
        <5> QED BY <5>1, <5>2, <5>3, <5>4
      <4>3. Living' = {q}
        BY <3>1, <3>3, <4>1, <4>2
      <4>4. \A r \in Pid : pc'[r] \in CommandPCs => r = p
        BY <3>1, <3>3, <4>1, <4>2
      <4> QED BY <3>1, <4>1, <4>2, <4>3, <4>4
    <3> QED BY <3>4, <3>5
  <2>2. CASE ~Killable(target[p])
    BY <1>3, <2>2 DEF StopKill, StopReturns, Killable
  <2> QED BY <2>1, <2>2
<1>4. CASE StopUnlink(p)
  BY <1>4 DEF StopUnlink, StopReturns, Unlink
<1> QED BY <1>1, <1>2, <1>3, <1>4 DEF StopStep

LEMMA LaunchTurn ==
    ASSUME SerialUse, TypeOK, SerialInv, NEW p \in Pid,
           LaunchStep(p) \/ SleepEnds(p)
    PROVE  TurnInv'
<1> USE PidAssumption
        DEF SerialInv, TurnInv, LifeInv, CommandInv, AimPCs, Settled, Living,
            Alive, RoleInv, AtRest, TypeOK, Goto, Moves, Exit, Dies,
            FileUnchanged, NetUnchanged, UncaughtPCs, CommandPCs, StopPCs,
            LaunchPCs, ChildPCs, CaughtPCs, LoopPCs, BlockedPCs, GonePCs
<1>1. CASE LaunchRead(p)
  BY <1>1 DEF LaunchRead, PidInFile
<1>2. CASE LaunchCheck(p)
  BY <1>2 DEF LaunchCheck, Killable
<1>3. CASE LaunchUnlink(p)
  BY <1>3 DEF LaunchUnlink, Unlink
<1>4. CASE LaunchForkFails(p)
  BY <1>4 DEF LaunchForkFails
<1>5. ASSUME NEW c \in Pid, LaunchFork(p, c)
      PROVE  TurnInv'
  BY <1>5 DEF LaunchFork, Available
<1>6. CASE SleepEnds(p)
  BY <1>6 DEF SleepEnds, SerialUse, AtRest
<1> QED BY <1>1, <1>2, <1>3, <1>4, <1>5, <1>6 DEF LaunchStep

LEMMA ChildTurn ==
    ASSUME SerialUse, TypeOK, SerialInv, NEW p \in Pid, ChildStep(p)
    PROVE  TurnInv'
<1> USE PidAssumption
        DEF SerialInv, TurnInv, LifeInv, CommandInv, AimPCs, Settled, Living,
            Alive, RoleInv, AtRest, TypeOK, Goto, Moves, Exit, Dies,
            FileUnchanged, NetUnchanged, UncaughtPCs, CommandPCs, StopPCs,
            LaunchPCs, ChildPCs, CaughtPCs, LoopPCs, BlockedPCs, GonePCs
<1>1. CASE ChildOpens(p) \/ ChildWrites(p)
  BY <1>1 DEF ChildOpens, ChildWrites
<1>2. CASE ChildOpenFails(p) \/ ChildLogs(p) \/ ChildLogFails(p)
  BY <1>2 DEF ChildOpenFails, ChildLogs, ChildLogFails
<1>3. CASE DaemonUnlinks(p)
  BY <1>3 DEF DaemonUnlinks, Unlink
<1> QED BY <1>1, <1>2, <1>3 DEF ChildStep

LEMMA ServerTurn ==
    ASSUME SerialUse, TypeOK, SerialInv, NEW p \in Pid, ServerStep(p)
    PROVE  TurnInv'
<1> USE PidAssumption
        DEF SerialInv, TurnInv, LifeInv, CommandInv, AimPCs, Settled, Living,
            Alive, RoleInv, AtRest, TypeOK, Goto, Moves,
            FileUnchanged, NetUnchanged, UncaughtPCs, CommandPCs, StopPCs,
            LaunchPCs, ChildPCs, CaughtPCs, LoopPCs, BlockedPCs, GonePCs
<1>1. CASE Sigaction(p) \/ Bind(p) \/ Listen(p)
  BY <1>1 DEF Sigaction, Bind, Listen
<1>2. CASE BindFails(p) \/ ListenFails(p) \/ Close(p)
  BY <1>2 DEF BindFails, ListenFails, Close, ServerReturns
<1>3. CASE TestActif(p) \/ AcceptFails(p) \/ AcceptBlocks(p)
  BY <1>3 DEF TestActif, AcceptFails, AcceptBlocks
<1>4. CASE Accept(p)
  BY <1>4 DEF Accept
<1>5. CASE Recv(p) \/ RecvBlocks(p) \/ RecvEnd(p)
  BY <1>5 DEF Recv, RecvBlocks, RecvEnd
<1>6. CASE Reply(p) \/ ReplyBlocks(p) \/ Finish(p)
  BY <1>6 DEF Reply, ReplyBlocks, Finish
<1> QED BY <1>1, <1>2, <1>3, <1>4, <1>5, <1>6 DEF ServerStep

LEMMA EnvironmentTurn ==
    ASSUME SerialUse, TypeOK, SerialInv, NEW p \in Pid, Environment(p)
    PROVE  TurnInv'
<1> USE PidAssumption
        DEF SerialInv, TurnInv, LifeInv, CommandInv, AimPCs, Settled, Living,
            Alive, RoleInv, AtRest, TypeOK, Goto, Moves, Exit, FileUnchanged,
            NetUnchanged, UncaughtPCs, CommandPCs, StopPCs, LaunchPCs,
            ChildPCs, CaughtPCs, LoopPCs, BlockedPCs, GonePCs
<1>1. ASSUME NEW a \in Commands, Invoke(p, a)
      PROVE  TurnInv'
  BY <1>1, CommandsAssumption
  DEF Invoke, Born, Entry, Actions, Available, SerialUse, Quiet
<1>2. ASSUME NEW l \in {"foreign", "other"}, Spawn(p, l)
      PROVE  TurnInv'
  BY <1>2 DEF Spawn, Born, Available
<1>3. CASE ClientSends(p) \/ ClientReads(p)
  BY <1>3 DEF ClientSends, ClientReads, ClientsAct, SerialUse
<1>4. CASE Crash(p)
  BY <1>4 DEF Crash
<1>5. CASE CtrlC(p)
  BY <1>5 DEF CtrlC, Signal, Interrupted
<1> QED BY <1>1, <1>2, <1>3, <1>4, <1>5 DEF Environment

LEMMA NextSerial ==
    ASSUME SerialUse
    PROVE  TypeOK /\ SerialInv /\ [Next]_vars => SerialInv'
<1> SUFFICES ASSUME TypeOK, SerialInv, [Next]_vars
             PROVE  SerialInv'
  OBVIOUS
<1>1. RoleInv'
  BY RoleKept DEF SerialInv
<1>2. CASE Connect \/ UNCHANGED vars
  <2>1. UNCHANGED <<pc, act, target, file, linked, daemons, actif>>
    BY <1>2 DEF Connect, vars, FileUnchanged
  <2>2. UNCHANGED Living
    BY <2>1 DEF Living, Alive
  <2>3. ASSUME NEW d \in Living, NEW p \in Pid
        PROVE  CommandInv(p, d)'
    <3>1. CASE UNCHANGED vars
      BY <3>1 DEF vars, SerialInv, TurnInv, CommandInv, Settled, AtRest
    <3>2. CASE Connect
      BY <2>1, <3>2
      DEF Connect, ClientsAct, SerialUse, SerialInv, TurnInv, CommandInv,
          AimPCs, StopPCs
    <3> QED BY <1>2, <3>1, <3>2
  <2> QED BY <1>1, <2>1, <2>2, <2>3 DEF SerialInv, TurnInv, LifeInv
<1>3. ASSUME NEW p \in Pid, Step(p) \/ Environment(p)
      PROVE  TurnInv'
  BY <1>3, StopTurn, LaunchTurn, ChildTurn, ServerTurn, EnvironmentTurn
  DEF Step
<1> QED BY <1>1, <1>2, <1>3 DEF Next, SerialInv

LEMMA SerialInvHolds ==
    ASSUME SerialUse
    PROVE  Spec => []SerialInv
<1>1. Init => SerialInv
  BY PidAssumption
  DEF Init, SerialInv, RoleInv, TurnInv, Living, LoopPCs, BlockedPCs,
      CommandPCs, StopPCs, LaunchPCs, ChildPCs, CaughtPCs
<1> QED BY <1>1, NextSerial, TypeCorrect, PTL DEF Spec

\* Typed one after the other, the commands lose no daemon: whatever is
\* killed, recycled or cannot be opened, at rest a daemon that lives is named
\* by the pid file and serves the port (daemon.c, lancement_demon and
\* arret_demon).
THEOREM NoDaemonIsLost ==
    ASSUME SerialUse
    PROVE  Spec => []NoOrphan
<1>1. TypeOK /\ SerialInv => NoOrphan
  BY PidAssumption
  DEF TypeOK, SerialInv, RoleInv, TurnInv, LifeInv, NoOrphan,
      Quiet, AtRest, Living, Alive, LoopPCs, BlockedPCs,
      CaughtPCs, ChildPCs, GonePCs
<1> QED BY <1>1, TypeCorrect, SerialInvHolds, PTL

-----------------------------------------------------------------------------
(* The pid file, when pids are not recycled.                               *)

\* The dead stay dead.
LEMMA DeadStay ==
    ASSUME NoRecycling, TypeOK, [Next]_vars, NEW d \in Pid, pc[d] = "dead"
    PROVE  pc'[d] = "dead"
<1> USE DEF TypeOK, Goto, Moves, Exit, Dies
<1>1. CASE UNCHANGED vars \/ Connect
  BY <1>1 DEF vars, Connect
<1>2. ASSUME NEW p \in Pid, StopStep(p)
      PROVE  pc'[d] = "dead"
  BY <1>2 DEF StopStep, StopRead, StopCheck, StopKill, StopUnlink,
     StopReturns, Signal, Interrupted
<1>3. ASSUME NEW p \in Pid, LaunchStep(p) \/ SleepEnds(p) \/ ChildStep(p)
      PROVE  pc'[d] = "dead"
  BY <1>3 DEF LaunchStep, LaunchRead, LaunchCheck, LaunchUnlink,
     LaunchForkFails, LaunchFork, SleepEnds, Available, NoRecycling,
     ChildStep, ChildOpens, ChildOpenFails, ChildWrites, ChildLogs,
     ChildLogFails, DaemonUnlinks
<1>4. ASSUME NEW p \in Pid, ServerStep(p)
      PROVE  pc'[d] = "dead"
  BY <1>4 DEF ServerStep, Sigaction, Bind, BindFails, Listen, ListenFails,
     ServerReturns, TestActif, Accept, AcceptFails, AcceptBlocks, Recv,
     RecvBlocks, RecvEnd, Reply, ReplyBlocks, Finish, Close
<1>5. ASSUME NEW p \in Pid, Environment(p)
      PROVE  pc'[d] = "dead"
  BY <1>5 DEF Environment, Invoke, Spawn, Born, Available, NoRecycling,
     ClientSends, ClientReads, CtrlC, Crash, Signal, Interrupted
<1> QED BY <1>1, <1>2, <1>3, <1>4, <1>5 DEF Next, Step

\* The five steps that change the file leave it to a daemon that is alive and
\* was not told to stop.
LEMMA FileKept ==
    ASSUME NoRecycling, TypeOK, PidFileInv, SerialInv, [Next]_vars,
           file \in Pid, file' # file
    PROVE  pc'[file] = "dead" \/ pc[file] = "d_unlink" \/ ~actif[file]
<1>1. /\ file \in daemons /\ pc[file] \notin {"c_fopen", "c_fclose"}
      /\ pc[file] # "free"
  BY DEF PidFileInv, Named
<1>2. CASE file \notin Living
  BY <1>1, <1>2, DeadStay DEF Living, Alive, GonePCs
<1>3. CASE file \in Living
  <2>1. PICK p \in Pid : \/ StopUnlink(p) \/ LaunchUnlink(p) \/ ChildOpens(p)
                         \/ ChildWrites(p) \/ DaemonUnlinks(p)
    BY DEF vars, Next, Connect, Step, StopStep, StopRead, StopCheck, StopKill,
       LaunchStep, LaunchRead, LaunchCheck, LaunchForkFails, LaunchFork,
       SleepEnds, ChildStep, ChildOpenFails, ChildLogs, ChildLogFails,
       ServerStep, Sigaction, Bind, BindFails, Listen, ListenFails, TestActif,
       Accept, AcceptFails, AcceptBlocks, Recv, RecvBlocks, RecvEnd, Reply,
       ReplyBlocks, Finish, Close, Environment, Invoke, Spawn, ClientSends,
       ClientReads, CtrlC, Crash, Moves, Dies, FileUnchanged
  <2>2. CASE StopUnlink(p) \/ LaunchUnlink(p)
    BY <1>3, <2>2
    DEF StopUnlink, LaunchUnlink, SerialInv, TurnInv, CommandInv
  <2>3. CASE ChildOpens(p) \/ ChildWrites(p) \/ DaemonUnlinks(p)
    <3>1. p \in Living
      BY <2>3
      DEF ChildOpens, ChildWrites, DaemonUnlinks, SerialInv, RoleInv, ChildPCs,
          Living, Alive, GonePCs
    <3>2. p = file
      BY <1>3, <3>1 DEF SerialInv, TurnInv
    <3> QED BY <1>1, <2>3, <3>2 DEF ChildOpens, ChildWrites, DaemonUnlinks
  <2> QED BY <2>1, <2>2, <2>3
<1> QED BY <1>2, <1>3

\* Typed one after the other, starts, stops and restarts never take the pid
\* file away from a daemon that lives and was not told to stop, whoever is
\* killed in between (daemon.c, the three calls of unlink).
THEOREM PidFileIsKept ==
    ASSUME SerialUse, NoRecycling
    PROVE  Spec => PidFileKept
<1>1. TypeOK /\ PidFileInv /\ SerialInv /\ [Next]_vars =>
        [file' # file /\ file \in Pid =>
           (pc'[file] = "dead" \/ pc[file] = "d_unlink" \/ ~actif[file])]_vars
  BY FileKept
<1> QED
  BY <1>1, TypeCorrect, PidFileInvHolds, SerialInvHolds, PTL
  DEF Spec, PidFileKept

\* Nobody dies with the pid file left behind.
NoCrash == {"recycle", "sigkill", "log"} \cap Faults = {}

FileAlive == file \in Pid => Alive(file)

LEMMA NextFileAlive ==
    ASSUME NoCrash
    PROVE  TypeOK /\ PidFileInv /\ SerialInv /\ FileAlive /\ [Next]_vars
             => FileAlive'
<1> SUFFICES ASSUME TypeOK, PidFileInv, SerialInv, FileAlive, [Next]_vars,
                    file' \in Pid
             PROVE  pc'[file'] \notin GonePCs
  BY DEF FileAlive, Alive
<1> USE PidAssumption
        DEF TypeOK, GonePCs, Goto, Moves, Exit, Dies, FileUnchanged
<1>0. file \in Pid =>
        /\ file \in Living /\ act[file] # "NO_OPTION"
        /\ pc[file] \notin CommandPCs \cup {"c_fopen", "c_fclose"}
  BY DEF FileAlive, PidFileInv, Named, Living
<1>1. CASE UNCHANGED vars \/ Connect
  BY <1>1 DEF vars, Connect, FileAlive, Alive
<1>2. ASSUME NEW p \in Pid, StopStep(p)
      PROVE  pc'[file'] \notin GonePCs
  <2>1. CASE StopKill(p)
    <3>1. file' = file
      BY <2>1 DEF StopKill
    <3>2. pc[file] \in BlockedPCs /\ file # p
      BY <1>0, <2>1, <3>1
      DEF StopKill, SerialInv, TurnInv, CommandInv, AimPCs, StopPCs, Settled,
          BlockedPCs
    <3> QED BY <2>1, <3>1, <3>2
            DEF StopKill, StopReturns, Signal, Interrupted, UncaughtPCs,
                BlockedPCs, CommandPCs, StopPCs, LaunchPCs, ChildPCs
  <2> QED BY <1>0, <1>2, <2>1
          DEF StopStep, StopRead, StopCheck, StopUnlink, Unlink, CommandPCs,
              StopPCs, Living, Alive
<1>3. ASSUME NEW p \in Pid, LaunchStep(p) \/ SleepEnds(p)
      PROVE  pc'[file'] \notin GonePCs
  BY <1>0, <1>3
  DEF LaunchStep, LaunchRead, LaunchCheck, LaunchUnlink, LaunchForkFails,
      LaunchFork, SleepEnds, Unlink, CommandPCs, LaunchPCs, Living, Alive
<1>4. ASSUME NEW p \in Pid, ChildStep(p)
      PROVE  pc'[file'] \notin GonePCs
  BY <1>0, <1>4
  DEF ChildStep, ChildOpens, ChildOpenFails, ChildWrites, ChildLogs,
      ChildLogFails, DaemonUnlinks, Unlink, NoCrash, Living, Alive
<1>5. ASSUME NEW p \in Pid, ServerStep(p)
      PROVE  pc'[file'] \notin GonePCs
  BY <1>0, <1>5
  DEF ServerStep, Sigaction, Bind, BindFails, Listen, ListenFails,
     ServerReturns, TestActif, Accept, AcceptFails, AcceptBlocks, Recv,
     RecvBlocks, RecvEnd, Reply, ReplyBlocks, Finish, Close, Living, Alive
<1>6. ASSUME NEW p \in Pid, Environment(p)
      PROVE  pc'[file'] \notin GonePCs
  <2>1. ASSUME NEW a \in Commands, Invoke(p, a)
        PROVE  pc'[file'] \notin GonePCs
    BY <1>0, <2>1, CommandsAssumption
    DEF Invoke, Born, Entry, Actions, Living, Alive
  <2>2. CASE ClientSends(p) \/ ClientReads(p) \/ CtrlC(p)
    BY <1>0, <2>2 DEF ClientSends, ClientReads, CtrlC, Signal, Living, Alive
  <2>3. ~Crash(p) /\ \A l : ~Spawn(p, l)
    BY DEF Crash, Spawn, NoCrash
  <2> QED BY <1>6, <2>1, <2>2, <2>3 DEF Environment
<1> QED BY <1>1, <1>2, <1>3, <1>4, <1>5, <1>6 DEF Next, Step

\* At rest, the pid file names the daemon that is alive and serves the port,
\* or there is neither file nor daemon (what test_daemon.py looks at after
\* each command).
THEOREM PidFileIsFaithful ==
    ASSUME SerialUse, NoCrash
    PROVE  Spec => []PidFileFaithful
<1>1. NoRecycling /\ "sigkill" \notin Faults
  BY DEF NoCrash, NoRecycling
<1>2. Init => FileAlive
  BY PidAssumption DEF Init, FileAlive
<1>3. PidFileInv /\ FileAlive /\ NoOrphan /\ EmptyOnlyTransient /\ TypeOK
        => PidFileFaithful
  BY PidAssumption
  DEF PidFileInv, Named, FileAlive, NoOrphan, EmptyOnlyTransient,
      PidFileFaithful, Quiet, AtRest, GonePCs, BlockedPCs, TypeOK
<1>4. Spec => []PidFileInv
  BY <1>1, PidFileInvHolds
<1>5. Spec => []EmptyOnlyTransient
  BY <1>1, EmptyFileIsTransient
<1> QED
  BY <1>2, <1>3, <1>4, <1>5, NextFileAlive, NoDaemonIsLost, SerialInvHolds,
     TypeCorrect, PTL DEF Spec

-----------------------------------------------------------------------------
(* Two more facts about a command.                                         *)

\* The part of the code a command is in agrees with its option.
ActInv ==
    \A p \in Pid :
        /\ pc[p] \in StopPCs => act[p] \in {"stop", "restart"}
        /\ pc[p] = "sleep" => act[p] = "restart"
        /\ pc[p] \in LaunchPCs => act[p] \in {"start", "restart"}

\* The daemon that a stop found alive is still there when it sends SIGINT.
KillInv == \A p \in Pid : pc[p] = "s_kill" => target[p] \in Living

LEMMA ActKept ==
    ASSUME TypeOK, PidFileInv, SerialInv, ActInv, [Next]_vars
    PROVE  ActInv'
<1> USE DEF ActInv, TypeOK, StopPCs, LaunchPCs, Goto, Moves, Exit, Dies,
            FileUnchanged, NetUnchanged
<1>1. CASE UNCHANGED vars \/ Connect
  BY <1>1 DEF vars, Connect
<1>2. ASSUME NEW p \in Pid, StopStep(p)
      PROVE  ActInv'
  BY <1>2 DEF StopStep, StopRead, StopCheck, StopKill, StopUnlink,
     StopReturns, Signal, Interrupted
<1>3. ASSUME NEW p \in Pid, LaunchStep(p) \/ SleepEnds(p)
      PROVE  ActInv'
  BY <1>3 DEF LaunchStep, LaunchRead, LaunchCheck, LaunchUnlink,
     LaunchForkFails, LaunchFork, SleepEnds
<1>4. ASSUME NEW p \in Pid, ChildStep(p)
      PROVE  ActInv'
  BY <1>4 DEF ChildStep, ChildOpens, ChildOpenFails, ChildWrites, ChildLogs,
     ChildLogFails, DaemonUnlinks
<1>5. ASSUME NEW p \in Pid, ServerStep(p)
      PROVE  ActInv'
  BY <1>5 DEF ServerStep, Sigaction, Bind, BindFails, Listen, ListenFails,
     ServerReturns, TestActif, Accept, AcceptFails, AcceptBlocks, Recv,
     RecvBlocks, RecvEnd, Reply, ReplyBlocks, Finish, Close
<1>6. ASSUME NEW p \in Pid, Environment(p)
      PROVE  ActInv'
  <2>1. ASSUME NEW a \in Commands, Invoke(p, a)
        PROVE  ActInv'
    BY <2>1, CommandsAssumption DEF Invoke, Born, Entry, Actions
  <2>2. ASSUME NEW l \in {"foreign", "other"}, Spawn(p, l)
        PROVE  ActInv'
    BY <2>2 DEF Spawn, Born
  <2> QED BY <1>6, <2>1, <2>2 DEF Environment, ClientSends, ClientReads,
                                  CtrlC, Crash,
             Signal, Interrupted
<1> QED BY <1>1, <1>2, <1>3, <1>4, <1>5, <1>6 DEF Next, Step

\* Nothing ends a daemon that waits for its clients but SIGINT and SIGKILL.
LEMMA SettledStays ==
    ASSUME NoRecycling, "sigkill" \notin Faults, SerialUse, TypeOK,
           PidFileInv, SerialInv, [Next]_vars,
           NEW d \in Living, Settled(d),
           \A p \in Pid : ~StopKill(p)
    PROVE  d \in Living'
<1> USE PidAssumption
        DEF Living, Alive, Settled, BlockedPCs, TypeOK, GonePCs, Goto, Moves,
            Exit, Dies, FileUnchanged, NetUnchanged
<1>1. CASE UNCHANGED vars \/ Connect
  BY <1>1 DEF vars, Connect
<1>2. ASSUME NEW p \in Pid, StopStep(p)
      PROVE  d \in Living'
  BY <1>2 DEF StopStep, StopRead, StopCheck, StopUnlink, StopReturns
<1>3. ASSUME NEW p \in Pid, LaunchStep(p) \/ SleepEnds(p) \/ ChildStep(p)
      PROVE  d \in Living'
  BY <1>3 DEF LaunchStep, LaunchRead, LaunchCheck, LaunchUnlink,
     LaunchForkFails, LaunchFork, SleepEnds, ChildStep, ChildOpens,
     ChildOpenFails, ChildWrites, ChildLogs, ChildLogFails, DaemonUnlinks
<1>4. ASSUME NEW p \in Pid, ServerStep(p)
      PROVE  d \in Living'
  BY <1>4 DEF ServerStep, Sigaction, Bind, BindFails, Listen, ListenFails,
     ServerReturns, TestActif, Accept, AcceptFails, AcceptBlocks, Recv,
     RecvBlocks, RecvEnd, Reply, ReplyBlocks, Finish, Close
<1>5. ASSUME NEW p \in Pid, Environment(p)
      PROVE  d \in Living'
  BY <1>5, CommandsAssumption
  DEF Environment, Invoke, Born, Entry, Available, NoRecycling, Spawn,
     ClientSends, ClientReads, CtrlC, Crash, Signal, Interrupted
<1> QED BY <1>1, <1>2, <1>3, <1>4, <1>5 DEF Next, Step

\* Only StopCheck takes a command to s_kill, and nobody writes the variable
\* pid of another.
LEMMA ComesToKill ==
    ASSUME NoRecycling, TypeOK, [Next]_vars, NEW p \in Pid,
           pc'[p] = "s_kill"
    PROVE  StopCheck(p) \/ (pc[p] = "s_kill" /\ target'[p] = target[p])
<1> USE DEF TypeOK, Goto, Moves, Exit, Dies, FileUnchanged, NetUnchanged
<1>1. CASE UNCHANGED vars \/ Connect
  BY <1>1 DEF vars, Connect
<1>2. ASSUME NEW q \in Pid, StopStep(q)
      PROVE  StopCheck(p) \/ (pc[p] = "s_kill" /\ target'[p] = target[p])
  BY <1>2 DEF StopStep, StopRead, StopCheck, StopKill, StopUnlink,
     StopReturns, Signal, Interrupted
<1>3. ASSUME NEW q \in Pid, LaunchStep(q) \/ SleepEnds(q) \/ ChildStep(q)
      PROVE  pc[p] = "s_kill" /\ target'[p] = target[p]
  BY <1>3 DEF LaunchStep, LaunchRead, LaunchCheck, LaunchUnlink,
     LaunchForkFails, LaunchFork, SleepEnds, ChildStep, ChildOpens,
     ChildOpenFails, ChildWrites, ChildLogs, ChildLogFails, DaemonUnlinks
<1>4. ASSUME NEW q \in Pid, ServerStep(q)
      PROVE  pc[p] = "s_kill" /\ target'[p] = target[p]
  BY <1>4 DEF ServerStep, Sigaction, Bind, BindFails, Listen, ListenFails,
     ServerReturns, TestActif, Accept, AcceptFails, AcceptBlocks, Recv,
     RecvBlocks, RecvEnd, Reply, ReplyBlocks, Finish, Close
<1>5. ASSUME NEW q \in Pid, Environment(q)
      PROVE  pc[p] = "s_kill" /\ target'[p] = target[p]
  BY <1>5 DEF Environment, Invoke, Born, Entry, NoRecycling, Spawn,
     ClientSends, ClientReads, CtrlC, Crash, Signal, Interrupted
<1> QED BY <1>1, <1>2, <1>3, <1>4, <1>5 DEF Next, Step

LEMMA KillKept ==
    ASSUME NoRecycling, "sigkill" \notin Faults, SerialUse, TypeOK,
           PidFileInv, SerialInv, KillInv, [Next]_vars
    PROVE  KillInv'
<1> SUFFICES ASSUME NEW p \in Pid, pc'[p] = "s_kill"
             PROVE  target'[p] \in Living'
  BY DEF KillInv
<1>1. CASE StopCheck(p)
  <2>1. Killable(target[p])
    BY <1>1 DEF StopCheck, Moves, Goto, TypeOK
  <2>2. target[p] \in Living /\ target[p] # p
    BY <1>1, <2>1
    DEF StopCheck, Killable, PidFileInv, Named, Living, Alive, GonePCs,
        UncaughtPCs, CommandPCs, StopPCs, LaunchPCs, ChildPCs, CaughtPCs,
        LoopPCs, BlockedPCs
  <2> QED BY <1>1, <2>2
          DEF StopCheck, Moves, Goto, TypeOK, Living, Alive
<1>2. CASE pc[p] = "s_kill" /\ target'[p] = target[p]
  <2>1. target[p] \in Living
    BY <1>2 DEF KillInv
  <2>2. Settled(target[p])
    BY <1>2, <2>1 DEF SerialInv, TurnInv, CommandInv, AimPCs, StopPCs
  <2>3. \A q \in Pid : ~StopKill(q)
    <3>1. ~StopKill(p)
      BY <1>2, <2>1
      DEF StopKill, Signal, StopReturns, Exit, Goto, Living, PidFileInv,
          CommandPCs, StopPCs, TypeOK
    <3>2. \A q \in Pid : StopKill(q) => q = p
      BY <1>2 DEF StopKill, SerialInv, TurnInv, CommandPCs, StopPCs
    <3> QED BY <3>1, <3>2
  <2> QED BY <1>2, <2>1, <2>2, <2>3, SettledStays
<1> QED BY <1>1, <1>2, ComesToKill

\* All that is known of the states of such a use.
ServiceInv == TypeOK /\ PidFileInv /\ SerialInv /\ ActInv /\ KillInv

-----------------------------------------------------------------------------
(* When what the user sees stays the same.                                 *)

\* Whatever process q does in a step, it is as much of a command, or of an
\* ended command, as before.
SameCommand(q) ==
    /\ pc'[q] \in CommandPCs <=> pc[q] \in CommandPCs
    /\ pc[q] \in CommandPCs => act'[q] = act[q]
    /\ Ended(q)' <=> Ended(q)
    /\ Ended(q) => act'[q] = act[q] /\ code'[q] = code[q]

LEMMA CommandsKept ==
    ASSUME \A q \in Pid : SameCommand(q)
    PROVE  UNCHANGED <<Working, Reports>>
<1>1. Working' = Working
  BY DEF SameCommand, Working
<1>2. Reports' = Reports
  BY DEF SameCommand, Reports
<1> QED BY <1>1, <1>2

LEMMA DaemonsKept ==
    ASSUME UNCHANGED <<daemons, listener>>,
           \A d \in daemons : /\ Alive(d)' <=> Alive(d)
                              /\ actif'[d] = actif[d]
    PROVE  UNCHANGED <<Living, Serving, Told>>
BY DEF Living, Serving, Told

\* A move of p within its part of the code is not seen.
LEMMA MoveUnseen ==
    ASSUME TypeOK, NEW p \in Pid, NEW l, pc' = [pc EXCEPT ![p] = l],
           UNCHANGED <<act, daemons, actif, listener>>,
           \A q \in Pid \ {p} : code'[q] = code[q],
           pc[p] \notin GonePCs, l \notin GonePCs,
           pc[p] \in CommandPCs <=> l \in CommandPCs
    PROVE  UNCHANGED Service!vars
<1>1. \A q \in Pid : SameCommand(q)
  BY DEF SameCommand, Ended, TypeOK, GonePCs
<1>2. \A d \in daemons : Alive(d)' <=> Alive(d)
  BY DEF Alive, TypeOK
<1> QED BY <1>1, <1>2, CommandsKept, DaemonsKept DEF Service!vars

\* Nor is the end of a server in the foreground.
LEMMA ForegroundEnds ==
    ASSUME TypeOK, NEW p \in Pid, p \notin daemons, act[p] = "NO_OPTION",
           pc[p] \notin CommandPCs, pc'[p] \notin CommandPCs,
           \A q \in Pid \ {p} : /\ pc'[q] = pc[q]
                                /\ code'[q] = code[q]
                                /\ actif'[q] = actif[q],
           UNCHANGED <<act, daemons>>, daemons \cap {listener'} = Serving
    PROVE  UNCHANGED Service!vars
<1>1. \A q \in Pid : SameCommand(q)
  BY DEF SameCommand, Ended, TypeOK
<1>2. \A d \in daemons : (Alive(d)' <=> Alive(d)) /\ actif'[d] = actif[d]
  BY DEF Alive, TypeOK
<1>3. UNCHANGED <<Living, Told, Serving>>
  BY <1>2 DEF Living, Told, Serving
<1> QED BY <1>1, <1>3, CommandsKept DEF Service!vars

\* A daemon that ends is gone.
LEMMA DaemonEnds ==
    ASSUME TypeOK, RoleInv, NEW p \in Living, pc[p] \notin LoopPCs,
           pc[p] \notin CommandPCs,
           pc' = [pc EXCEPT ![p] = "dead"],
           \A q \in Pid \ {p} : code'[q] = code[q],
           UNCHANGED <<act, daemons, actif, listener>>
    PROVE  Service!Gone(p)
<1>1. p \in Pid /\ p # listener
  BY DEF Living, TypeOK, RoleInv
<1>2. \A q \in Pid : SameCommand(q)
  BY <1>1
  DEF SameCommand, Ended, Living, TypeOK, CommandPCs, StopPCs, LaunchPCs
<1>3. p \in Living \ Serving
  BY <1>1 DEF Serving
<1>4. Living' = Living \ {p}
  BY <1>1 DEF Living, Alive, GonePCs, TypeOK
<1>5. Told' = Told \ {p}
  BY <1>4 DEF Told
<1>6. Serving' = Serving
  BY DEF Serving
<1> QED BY <1>2, <1>3, <1>4, <1>5, <1>6, CommandsKept DEF Service!Gone

\* While a command runs, it is what is working.
LEMMA OneWorking ==
    ASSUME SerialInv, NEW p \in Pid, pc[p] \in CommandPCs
    PROVE  Working = {act[p]}
BY DEF SerialInv, TurnInv, Working

\* A command that ends reports its exit code.
LEMMA CommandEnds ==
    ASSUME TypeOK, SerialInv, NEW p \in Pid, NEW k,
           pc[p] \in CommandPCs, p \notin daemons,
           pc'[p] = "dead", p \notin daemons', act'[p] = act[p],
           code'[p] = k,
           \A q \in Pid \ {p} : SameCommand(q)
    PROVE  Service!Ends(act[p], k)
<1> USE DEF SerialInv, RoleInv, TurnInv
<1>1. Working = {act[p]}
  BY OneWorking
<1>2. Working' = {}
  BY DEF Working, SameCommand, CommandPCs, StopPCs, LaunchPCs
<1>3. act[p] # "NO_OPTION"
  OBVIOUS
<1>4. ~Ended(p) /\ Ended(p)'
  BY <1>3 DEF Ended, CommandPCs, StopPCs, LaunchPCs
<1>5. Reports' = Reports \cup {<<act[p], k>>}
  <2>1. ASSUME NEW x \in Reports'
        PROVE  x \in Reports \cup {<<act[p], k>>}
    <3>1. PICK q \in Pid : Ended(q)' /\ x = <<act'[q], code'[q]>>
      BY DEF Reports
    <3> QED BY <3>1 DEF Reports, SameCommand
  <2>2. ASSUME NEW x \in Reports
        PROVE  x \in Reports'
    <3>1. PICK q \in Pid : Ended(q) /\ x = <<act[q], code[q]>>
      BY DEF Reports
    <3>2. q # p /\ SameCommand(q)
      BY <1>4, <3>1
    <3> QED BY <3>1, <3>2 DEF Reports, SameCommand
  <2>3. <<act[p], k>> \in Reports'
    BY <1>4 DEF Reports
  <2> QED BY <2>1, <2>2, <2>3
<1> QED BY <1>1, <1>2, <1>5 DEF Service!Ends

\* The usual case: a command dies and nothing else happens.
LEMMA CommandDies ==
    ASSUME ServiceInv, NEW p \in Pid, NEW k, pc[p] \in CommandPCs,
           pc'[p] = "dead", code' = [code EXCEPT ![p] = k],
           \A q \in Pid \ {p} : pc'[q] = pc[q],
           \A q \in Pid \ {p} : actif'[q] = actif[q],
           UNCHANGED <<act, daemons, listener>>
    PROVE  Service!Ends(act[p], k) /\ UNCHANGED <<Living, Serving, Told>>
<1>1. p \notin daemons
  BY DEF ServiceInv, PidFileInv
<1>2. \A q \in Pid \ {p} : SameCommand(q)
  BY DEF SameCommand, Ended, ServiceInv, TypeOK
<1>3. code'[p] = k
  BY DEF ServiceInv, TypeOK
<1>4. Service!Ends(act[p], k)
  BY <1>1, <1>2, <1>3, CommandEnds DEF ServiceInv
<1>5. \A d \in daemons : (Alive(d)' <=> Alive(d)) /\ actif'[d] = actif[d]
  BY <1>1 DEF Alive, ServiceInv, TypeOK
<1> QED BY <1>4, <1>5, DaemonsKept

-----------------------------------------------------------------------------
(* Every step is a step of DaemonService, or is not seen.                  *)

LEMMA StopServes ==
    ASSUME ServiceInv, NEW p \in Pid, StopStep(p)
    PROVE  [Service!Next]_(Service!vars)
<1> USE DEF ServiceInv, TypeOK, GonePCs, CommandPCs, StopPCs, LaunchPCs, Goto,
            FileUnchanged, NetUnchanged
<1>1. CASE StopRead(p)
  <2>1. pc' = [pc EXCEPT ![p] = "s_check"] /\ pc[p] = "s_read"
    BY <1>1 DEF StopRead
  <2> QED BY <1>1, <2>1, MoveUnseen DEF StopRead
<1>2. CASE StopCheck(p)
  <2> DEFINE l == IF Killable(target[p]) THEN "s_kill" ELSE "s_unlink"
  <2>1. l \in {"s_kill", "s_unlink"} /\ pc' = [pc EXCEPT ![p] = l]
    BY <1>2 DEF StopCheck, Moves
  <2> HIDE DEF l
  <2> QED BY <1>2, <2>1, MoveUnseen DEF StopCheck, Moves
<1>3. CASE StopKill(p)
  <2> DEFINE d == target[p]
  <2>1. d \in Living /\ Settled(d) /\ d \in Pid /\ d # p
    BY <1>3
    DEF StopKill, KillInv, SerialInv, TurnInv, CommandInv, AimPCs, Living,
        PidFileInv
  <2>2. Signal(d, p, "s_unlink") /\ UNCHANGED <<act, daemons, listener>>
    BY <1>3, <2>1
    DEF StopKill, Killable, Settled, CaughtPCs, LoopPCs, BlockedPCs
  <2>3. pc[d] \in BlockedPCs /\ pc[d] \notin UncaughtPCs
    BY <2>1 DEF Settled, BlockedPCs, UncaughtPCs, ChildPCs
  <2>4. /\ pc'[d] \in {"while", "finish"} /\ pc'[p] = "s_unlink"
        /\ \A q \in Pid \ {p, d} : pc'[q] = pc[q]
        /\ \A q \in Pid \ {d} : actif'[q] = actif[q]
        /\ code' = code
        /\ ~actif'[d]
    <3>1. Interrupted(d) \in {"while", "finish"}
      BY <2>1, <2>3 DEF Interrupted, Settled, AtRest, BlockedPCs
    <3>2. /\ pc'[d] = Interrupted(d) /\ pc'[p] = "s_unlink"
          /\ \A q \in Pid \ {p, d} : pc'[q] = pc[q]
      BY <2>1, <2>2 DEF Signal
    <3>3. actif'[d] = (actif[d] /\ pc[d] \in UncaughtPCs)
      BY <2>1, <2>2 DEF Signal
    <3>4. /\ \A q \in Pid \ {d} : actif'[q] = actif[q]
          /\ code' = code
      BY <2>1, <2>2, <2>3 DEF Signal
    <3> QED BY <2>3, <3>1, <3>2, <3>3, <3>4
  <2>5. \A q \in Pid : SameCommand(q)
    BY <1>3, <2>1, <2>2, <2>3, <2>4
    DEF SameCommand, Ended, StopKill, BlockedPCs
  <2>6. Living' = Living /\ Serving' = Serving
    BY <1>3, <2>1, <2>2, <2>3, <2>4
    DEF Living, Alive, Serving, StopKill, BlockedPCs
  <2>7. Told' = Told \cup {d}
    <3>1. Living \subseteq Pid
      BY DEF Living
    <3>2. \A q \in Living : ~actif'[q] <=> ~actif[q] \/ q = d
      BY <2>4, <3>1
    <3> QED BY <2>1, <2>6, <3>2 DEF Told
  <2>8. Working \in {{"stop"}, {"restart"}}
    BY <1>3, OneWorking DEF StopKill, ActInv
  <2> HIDE DEF d
  <2>9. Service!Tell(d)
    BY <2>1, <2>5, <2>6, <2>7, <2>8, CommandsKept DEF Service!Tell
  <2> QED BY <2>1, <2>9 DEF Service!Next
<1>4. CASE StopUnlink(p) /\ act[p] = "restart"
  BY <1>4, MoveUnseen DEF StopUnlink, StopReturns
<1>5. CASE StopUnlink(p) /\ act[p] # "restart"
  <2>1. act[p] = "stop"
    BY <1>5 DEF StopUnlink, ActInv
  <2>2. Living \subseteq Told
    BY <1>5 DEF StopUnlink, SerialInv, TurnInv, CommandInv, Told
  <2>3. Service!Ends(act[p], "0") /\ UNCHANGED <<Living, Serving, Told>>
    BY <1>5, CommandDies DEF StopUnlink, StopReturns, Exit
  <2> QED BY <2>1, <2>2, <2>3 DEF Service!Next, Service!StopDone
<1> QED BY <1>1, <1>2, <1>3, <1>4, <1>5 DEF StopStep

LEMMA LaunchServes ==
    ASSUME NoRecycling, ServiceInv, NEW p \in Pid,
           LaunchStep(p) \/ SleepEnds(p)
    PROVE  [Service!Next]_(Service!vars)
<1> USE DEF ServiceInv, TypeOK, GonePCs, CommandPCs, StopPCs, LaunchPCs, Goto,
            FileUnchanged, NetUnchanged
<1>1. CASE LaunchRead(p) \/ LaunchUnlink(p) \/ SleepEnds(p)
  BY <1>1, MoveUnseen DEF LaunchRead, LaunchUnlink, SleepEnds, Moves
<1>2. CASE LaunchCheck(p) /\ ~Killable(target[p])
  BY <1>2, MoveUnseen DEF LaunchCheck, Moves
<1>3. CASE (LaunchCheck(p) /\ Killable(target[p])) \/ LaunchForkFails(p)
  <2>1. act[p] \in {"start", "restart"}
    BY <1>3 DEF LaunchCheck, LaunchForkFails, ActInv
  <2>2. Dies(p, "1") /\ pc[p] \in CommandPCs
    BY <1>3 DEF LaunchCheck, LaunchForkFails
  <2>3. Service!Ends(act[p], "1") /\ UNCHANGED <<Living, Serving, Told>>
    BY <2>2, CommandDies DEF Dies, Exit
  <2> QED BY <2>1, <2>3 DEF Service!Next, Service!LaunchFails
<1>4. ASSUME NEW c \in Pid, LaunchFork(p, c)
      PROVE  Service!Launch(c)
  <2>1. pc[c] = "free" /\ c \notin daemons /\ c # p /\ p \notin daemons
    BY <1>4 DEF LaunchFork, Available, NoRecycling, PidFileInv
  <2>2. /\ pc'[p] = "dead" /\ pc'[c] = "c_fopen" /\ code'[p] = "0"
        /\ \A q \in Pid \ {p, c} : pc'[q] = pc[q] /\ code'[q] = code[q]
        /\ \A q \in Pid \ {c} : act'[q] = act[q] /\ actif'[q] = actif[q]
        /\ daemons' = daemons \cup {c} /\ actif'[c]
        /\ listener' = listener
    BY <1>4, <2>1 DEF LaunchFork
  <2>3. \A q \in Pid \ {p} : SameCommand(q)
    BY <2>1, <2>2 DEF SameCommand, Ended
  <2>4. Service!Ends(act[p], "0")
    BY <1>4, <2>1, <2>2, <2>3, CommandEnds DEF LaunchFork
  <2>5. act[p] \in {"start", "restart"}
    BY <1>4 DEF LaunchFork, ActInv
  <2>6. Living = {}
    BY <1>4 DEF LaunchFork, SerialInv, TurnInv, CommandInv
  <2>7. Living' = {c}
    BY <2>1, <2>2, <2>6 DEF Living, Alive
  <2>8. Told = {} /\ Told' = {}
    BY <2>2, <2>6, <2>7 DEF Told
  <2>9. Serving' = Serving
    BY <2>1, <2>2 DEF Serving, SerialInv, RoleInv, LoopPCs, BlockedPCs
  <2> QED BY <2>4, <2>5, <2>6, <2>7, <2>8, <2>9 DEF Service!Launch
<1> QED BY <1>1, <1>2, <1>3, <1>4 DEF LaunchStep, Service!Next

LEMMA ChildServes ==
    ASSUME ServiceInv, NEW p \in Pid, ChildStep(p)
    PROVE  [Service!Next]_(Service!vars)
<1> USE DEF ServiceInv, TypeOK, GonePCs, CommandPCs, StopPCs, LaunchPCs, Goto,
            FileUnchanged, NetUnchanged
<1>1. CASE ChildOpens(p) \/ ChildWrites(p) \/ ChildLogs(p)
  BY <1>1, MoveUnseen DEF ChildOpens, ChildWrites, ChildLogs, Moves
<1>2. CASE ChildOpenFails(p) \/ ChildLogFails(p) \/ DaemonUnlinks(p)
  <2>1. /\ p \in Living /\ pc[p] \notin LoopPCs \cup CommandPCs
        /\ pc' = [pc EXCEPT ![p] = "dead"]
        /\ \A q \in Pid \ {p} : code'[q] = code[q]
        /\ UNCHANGED <<act, daemons, actif, listener>>
    BY <1>2
    DEF ChildOpenFails, ChildLogFails, DaemonUnlinks, Dies, Exit, SerialInv,
        RoleInv, ChildPCs, Living, Alive, LoopPCs, BlockedPCs
  <2>2. Service!Gone(p)
    BY <2>1, DaemonEnds DEF SerialInv
  <2> QED BY <2>2 DEF Service!Next
<1> QED BY <1>1, <1>2 DEF ChildStep

LEMMA ServerServes ==
    ASSUME ServiceInv, NEW p \in Pid, ServerStep(p)
    PROVE  [Service!Next]_(Service!vars)
<1> USE PidAssumption
        DEF ServiceInv, TypeOK, GonePCs, CommandPCs, StopPCs, LaunchPCs, Goto,
            FileUnchanged, NetUnchanged
<1>0. p \in daemons <=> act[p] # "NO_OPTION"
  BY DEF ServerStep, Sigaction, Bind, BindFails, Listen, ListenFails,
     TestActif, Accept, AcceptFails, AcceptBlocks, Recv, RecvBlocks, RecvEnd,
     Reply, ReplyBlocks, Finish, Close, SerialInv, RoleInv, CaughtPCs,
     LoopPCs, BlockedPCs, PidFileInv
<1>1. CASE Sigaction(p) \/ Bind(p) \/ TestActif(p) \/ AcceptFails(p)
             \/ AcceptBlocks(p) \/ Recv(p) \/ RecvBlocks(p) \/ RecvEnd(p)
             \/ Reply(p) \/ ReplyBlocks(p) \/ Finish(p)
  <2>1. PICK l \in {"bind", "listen", "accept", "close", "while", "accepting",
                    "reply", "receiving", "sending", "finish"} : Moves(p, l)
    BY <1>1 DEF Sigaction, Bind, TestActif, AcceptFails, AcceptBlocks, Recv,
                RecvBlocks, RecvEnd, Reply, ReplyBlocks, Finish
  <2>2. pc[p] \notin GonePCs \cup CommandPCs
    BY <1>1 DEF Sigaction, Bind, TestActif, AcceptFails, AcceptBlocks, Recv,
                RecvBlocks, RecvEnd, Reply, ReplyBlocks, Finish
  <2> QED BY <2>1, <2>2, MoveUnseen DEF Moves
<1>2. CASE Accept(p)
  <2>1. pc' = [pc EXCEPT ![p] = "recv"] /\ pc[p] \in {"accept", "accepting"}
    BY <1>2 DEF Accept
  <2> QED BY <1>2, <2>1, MoveUnseen DEF Accept
<1>3. CASE (BindFails(p) \/ ListenFails(p)) /\ p \in daemons
  BY <1>0, <1>3, MoveUnseen DEF BindFails, ListenFails, ServerReturns
<1>4. CASE (BindFails(p) \/ ListenFails(p)) /\ p \notin daemons
  BY <1>0, <1>4, ForegroundEnds
  DEF BindFails, ListenFails, ServerReturns, Serving
<1>5. CASE Listen(p) /\ p \in daemons
  <2>1. p \in Living \ Told
    BY <1>5 DEF Listen, Living, Alive, Told, SerialInv, TurnInv, LifeInv
  <2>2. Serving = {} /\ Serving' = {p}
    BY <1>5 DEF Listen, Serving
  <2>3. \A q \in Pid : SameCommand(q)
    BY <1>5 DEF Listen, SameCommand, Ended
  <2>4. Living' = Living
    BY <1>5 DEF Listen, Living, Alive
  <2>5. Told' = Told
    BY <1>5, <2>4 DEF Listen, Told
  <2>6. Service!Serve(p)
    BY <2>1, <2>2, <2>3, <2>4, <2>5, CommandsKept DEF Service!Serve
  <2> QED BY <2>6 DEF Service!Next
<1>6. CASE Listen(p) /\ p \notin daemons
  <2>1. daemons \cap {listener'} = Serving
    BY <1>6 DEF Listen, Serving
  <2> QED BY <1>0, <1>6, <2>1, ForegroundEnds DEF Listen
<1>7. CASE Close(p) /\ p \in daemons
  <2>1. p = listener /\ ~actif[p]
    BY <1>7 DEF Close, SerialInv, RoleInv, TurnInv, LifeInv, LoopPCs, Living,
                Alive
  <2>2. pc' = [pc EXCEPT ![p] = "d_unlink"] /\ daemons' = daemons
        /\ UNCHANGED <<act, actif>> /\ listener' = NoPid
        /\ \A q \in Pid \ {p} : code'[q] = code[q]
    BY <1>0, <1>7 DEF Close, ServerReturns
  <2>3. p \in Serving \cap Told /\ Serving' = {}
    BY <1>7, <2>1, <2>2 DEF Close, Serving, Told, Living, Alive
  <2>4. \A q \in Pid : SameCommand(q)
    BY <1>7, <2>2 DEF Close, SameCommand, Ended
  <2>5. Living' = Living
    BY <1>7, <2>2 DEF Close, Living, Alive
  <2>6. Told' = Told
    BY <2>2, <2>5 DEF Told
  <2>7. Service!Release(p)
    BY <2>3, <2>4, <2>5, <2>6, CommandsKept DEF Service!Release
  <2> QED BY <2>7 DEF Service!Next
<1>8. CASE Close(p) /\ p \notin daemons
  <2>1. p = listener
    BY <1>8 DEF Close, SerialInv, RoleInv, LoopPCs
  <2>2. daemons \cap {listener'} = Serving
    BY <1>8, <2>1 DEF Close, Serving
  <2> QED BY <1>0, <1>8, <2>2, ForegroundEnds DEF Close, ServerReturns
<1> QED BY <1>1, <1>2, <1>3, <1>4, <1>5, <1>6, <1>7, <1>8 DEF ServerStep

LEMMA EnvironmentServes ==
    ASSUME NoRecycling, "sigkill" \notin Faults, SerialUse, ServiceInv,
           NEW p \in Pid, Environment(p)
    PROVE  [Service!Next]_(Service!vars)
<1> USE DEF ServiceInv, TypeOK, GonePCs, CommandPCs, StopPCs, LaunchPCs, Goto,
            FileUnchanged, NetUnchanged
<1>1. ASSUME NEW a \in Commands, Invoke(p, a)
      PROVE  [Service!Next]_(Service!vars)
  <2>1. /\ pc[p] = "free" /\ p \notin daemons /\ daemons' = daemons
        /\ a \in Actions /\ listener' = listener
        /\ pc' = [pc EXCEPT ![p] = Entry(a)] /\ act' = [act EXCEPT ![p] = a]
        /\ \A q \in Pid \ {p} : code'[q] = code[q] /\ actif'[q] = actif[q]
    BY <1>1, CommandsAssumption DEF Invoke, Available, NoRecycling, Born,
       PidFileInv
  <2>2. Entry(a) # "dead" /\ (Entry(a) \in CommandPCs <=> a # "NO_OPTION")
    BY <2>1 DEF Entry, Actions
  <2>3. \A q \in Pid : pc[q] \notin CommandPCs
    BY <1>1 DEF Invoke, SerialUse, Quiet, AtRest, BlockedPCs
  <2>4. \A d \in daemons : (Alive(d)' <=> Alive(d)) /\ actif'[d] = actif[d]
    BY <2>1 DEF Alive
  <2>5. UNCHANGED <<Living, Serving, Told>>
    BY <2>1, <2>4, DaemonsKept
  <2>6. /\ \A q \in Pid : Ended(q)' <=> Ended(q)
        /\ \A q \in Pid : Ended(q) => act'[q] = act[q] /\ code'[q] = code[q]
    BY <2>1, <2>2 DEF Ended
  <2>7. Reports' = Reports
    BY <2>6 DEF Reports
  <2>8. Working = {}
    BY <2>3 DEF Working
  <2>9. CASE a = "NO_OPTION"
    <3>1. Working' = {}
      BY <2>1, <2>2, <2>3, <2>9 DEF Working
    <3> QED BY <2>5, <2>7, <2>8, <3>1 DEF Service!vars
  <2>10. CASE a # "NO_OPTION"
    <3>1. Working' = {a}
      BY <2>1, <2>2, <2>3, <2>10 DEF Working
    <3>2. Service!Begin(a)
      BY <2>5, <2>7, <2>8, <3>1 DEF Service!Begin
    <3> QED BY <2>1, <2>10, <3>2 DEF Service!Next, Actions
  <2> QED BY <2>9, <2>10
<1>2. CASE ClientSends(p) \/ ClientReads(p)
  <2>1. PICK l \in {"reply", "finish"} : Moves(p, l)
    BY <1>2 DEF ClientSends, ClientReads
  <2>2. pc[p] \notin GonePCs \cup CommandPCs
    BY <1>2 DEF ClientSends, ClientReads
  <2> QED BY <2>1, <2>2, MoveUnseen DEF Moves
<1>3. CASE CtrlC(p) /\ pc[p] \in CommandPCs
  <2>1. /\ Signal(p, p, "dead") /\ pc[p] \in UncaughtPCs
        /\ UNCHANGED <<act, daemons, listener>>
    BY <1>3 DEF CtrlC, UncaughtPCs
  <2>2. /\ pc'[p] = "dead" /\ code' = [code EXCEPT ![p] = "killed"]
        /\ \A q \in Pid \ {p} : pc'[q] = pc[q] /\ actif'[q] = actif[q]
    BY <2>1 DEF Signal, Interrupted
  <2>3. Service!Ends(act[p], "killed") /\ UNCHANGED <<Living, Serving, Told>>
    BY <1>3, <2>1, <2>2, CommandDies
  <2>4. act[p] \in {"start", "stop", "restart"}
    BY <1>3 DEF ActInv
  <2> QED BY <2>3, <2>4 DEF Service!Next, Service!Abort
<1>4. CASE CtrlC(p) /\ p \in daemons
  <2>1. /\ Signal(p, p, "dead") /\ pc[p] = "c_fopen" /\ p \in Living
        /\ UNCHANGED <<act, daemons, listener>>
    BY <1>4 DEF CtrlC, Living, Alive
  <2>2. pc[p] \in UncaughtPCs /\ pc[p] \notin LoopPCs \cup CommandPCs
    BY <2>1 DEF UncaughtPCs, ChildPCs, LoopPCs, BlockedPCs
  <2>3. /\ pc' = [pc EXCEPT ![p] = "dead"] /\ actif' = actif
        /\ \A q \in Pid \ {p} : code'[q] = code[q]
    BY <2>1, <2>2 DEF Signal, Interrupted
  <2>4. Service!Gone(p)
    BY <2>1, <2>2, <2>3, DaemonEnds DEF SerialInv
  <2> QED BY <2>4 DEF Service!Next
<1>5. CASE CtrlC(p) /\ pc[p] \notin CommandPCs /\ p \notin daemons
  <2>1. act[p] = "NO_OPTION"
    BY <1>5 DEF CtrlC, SerialInv, RoleInv, ChildPCs
  <2>2. /\ \A q \in Pid \ {p} : /\ pc'[q] = pc[q]
                                /\ code'[q] = code[q]
                                /\ actif'[q] = actif[q]
        /\ UNCHANGED <<act, daemons, listener>>
    BY <1>5 DEF CtrlC, Signal
  <2>3. pc'[p] \in {"dead", "while", "finish", pc[p]}
    BY <1>5 DEF CtrlC, Signal, Interrupted
  <2>4. pc'[p] \notin CommandPCs
    BY <1>5, <2>3
  <2> QED BY <1>5, <2>1, <2>2, <2>4, ForegroundEnds DEF Serving
<1>6. ~Crash(p) /\ \A l : ~Spawn(p, l)
  BY DEF Crash, Spawn, NoRecycling
<1> QED BY <1>1, <1>2, <1>3, <1>4, <1>5, <1>6 DEF Environment

LEMMA NextServes ==
    ASSUME NoRecycling, "sigkill" \notin Faults, SerialUse
    PROVE  ServiceInv /\ [Next]_vars => [Service!Next]_(Service!vars)
<1> SUFFICES ASSUME ServiceInv, [Next]_vars
             PROVE  [Service!Next]_(Service!vars)
  OBVIOUS
<1>1. CASE Connect \/ UNCHANGED vars
  <2>1. UNCHANGED <<pc, act, daemons, actif, listener, code>>
    BY <1>1 DEF Connect, vars
  <2>2. UNCHANGED <<Working, Living, Serving, Told, Reports>>
    BY <2>1 DEF Working, Living, Alive, Serving, Told, Ended, Reports
  <2> QED BY <2>2 DEF Service!vars
<1>2. ASSUME NEW p \in Pid, Step(p) \/ Environment(p)
      PROVE  [Service!Next]_(Service!vars)
  BY <1>2, StopServes, LaunchServes, ChildServes, ServerServes,
     EnvironmentServes DEF Step
<1> QED BY <1>1, <1>2 DEF Next

\* Typed one after the other, start, stop and restart implement
\* DaemonService: a user sees one daemon at most, which serves until a stop
\* or a restart tells it to end, and exit codes that are true
\* (daemon_handle_action).
THEOREM CommandsServeUser ==
    ASSUME SerialUse, NoRecycling, "sigkill" \notin Faults
    PROVE  Spec => ServesUser
<1>1. Init => Service!Init /\ ActInv /\ KillInv
  BY PidAssumption
  DEF Init, Service!Init, Working, Living, Serving, Told, Ended, Reports,
      ActInv, KillInv, CommandPCs, StopPCs, LaunchPCs
<1>2. TypeOK /\ PidFileInv /\ SerialInv /\ ActInv /\ KillInv /\ [Next]_vars
        => ActInv' /\ KillInv'
  BY ActKept, KillKept
<1>3. TypeOK /\ PidFileInv /\ SerialInv /\ ActInv /\ KillInv /\ [Next]_vars
        => [Service!Next]_(Service!vars)
  BY NextServes DEF ServiceInv
<1>4. Spec => []SerialInv
  BY SerialInvHolds
<1>5. Spec => []PidFileInv
  BY PidFileInvHolds
<1> QED
  BY <1>1, <1>2, <1>3, <1>4, <1>5, TypeCorrect, PTL
  DEF Spec, ServesUser, Service!Spec
=============================================================================
