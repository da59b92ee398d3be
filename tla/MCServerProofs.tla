--------------------------- MODULE MCServerProofs ---------------------------
(***************************************************************************)
(* What Server promises to the other modules: for any number of clients    *)
(* and any requests, files, buffers and failures it refines the server     *)
(* process of Daemon, and the requests of the integration tests, as        *)
(* MCServer lists them, get the status the tests expect, whatever else     *)
(* the server is asked.                                                    *)
(***************************************************************************)
EXTENDS MCServer, ServerClientProofs, RequestProofs

-----------------------------------------------------------------------------
(* The mapping.                                                            *)

\* With ProcessPC and Ended, all that Daemon sees of a state of Server.
Seen == <<actif, queue, late, ExitCode>>

LEMMA ProcessStutters ==
    ASSUME UNCHANGED Seen, ProcessPC' = ProcessPC, Ended' <=> Ended
    PROVE  UNCHANGED Process!vars
BY DEF Seen, Process!vars, Only1

LEMMA Only1Changes ==
    ASSUME NEW v, NEW w
    PROVE  [Only1(v) EXCEPT ![httpd] = w] = Only1(w)
BY DEF Only1

LEMMA Only1At ==
    ASSUME NEW v
    PROVE  Only1(v)[httpd] = v
BY DEF Only1

\* What a step of the one process does is a step of Daemon.
LEMMA ProcessSteps ==
    ASSUME \/ Process!Step(httpd) \/ Process!Environment(httpd)
           \/ Process!Connect
    PROVE  Process!Next
BY DEF Process!Next

\* A step that moves the process and changes nothing else.
LEMMA ProcessMoves ==
    ASSUME UNCHANGED Seen, Ended' <=> Ended
    PROVE  Process!Moves(httpd, ProcessPC')
BY Only1Changes
DEF Seen, Process!Moves, Process!Goto, Process!FileUnchanged,
    Process!NetUnchanged

\* gerer_client from its recv to the last byte of the reply, and after it; a
\* call that is blocked is in neither.
ReplyPCs == {"parse", "check", "send_400", "send_505", "stat_index", "open",
             "status", "headers", "body"}
FinishPCs == {"log", "destroy", "log_505", "close"}

LEMMA InReply ==
    /\ pc \in ReplyPCs =>
         ProcessPC = "reply" /\ ~Ended /\ ExitCode = "none"
    /\ pc \in FinishPCs =>
         ProcessPC = "finish" /\ ~Ended /\ ExitCode = "none"
BY DEF ReplyPCs, FinishPCs, ProcessPC, Ended, ExitCode

LEMMA InReplyNext ==
    /\ pc' \in ReplyPCs =>
         ProcessPC' = "reply" /\ ~Ended' /\ ExitCode' = "none"
    /\ pc' \in FinishPCs =>
         ProcessPC' = "finish" /\ ~Ended' /\ ExitCode' = "none"
BY DEF ReplyPCs, FinishPCs, ProcessPC, Ended, ExitCode

\* Within each of the two Daemon sees nothing; from the one to the other is
\* its Reply.
LEMMA ReplyStutters ==
    ASSUME \/ pc \in ReplyPCs /\ pc' \in ReplyPCs
           \/ pc \in FinishPCs /\ pc' \in FinishPCs,
           UNCHANGED <<actif, late, queue>>
    PROVE  UNCHANGED Process!vars
BY InReply, InReplyNext, ProcessStutters DEF Seen

LEMMA ReplyEnds ==
    ASSUME pc \in ReplyPCs, pc' \in FinishPCs,
           UNCHANGED <<actif, late, queue>>
    PROVE  Process!Next
<1>1. UNCHANGED Seen /\ (Ended' <=> Ended)
  BY InReply, InReplyNext DEF Seen
<1>2. Process!Reply(httpd)
  BY <1>1, InReply, InReplyNext, ProcessMoves, Only1At DEF Process!Reply
<1> QED BY <1>2, ProcessSteps DEF Process!Step, Process!ServerStep

-----------------------------------------------------------------------------
(* The backlog.                                                            *)

\* There is room in the backlog for a client that has not connected yet:
\* the clients that wait are different ones.
LEMMA RoomInBacklog ==
    ASSUME IsFiniteSet(Client), Types, QueueInv,
           NEW c \in Client, asked[c] = <<>>
    PROVE  Len(queue) < Cardinality(Client)
<1> DEFINE I == 1 .. Len(queue)
           Others == Client \ {c}
           f == [i \in I |-> queue[i]]
<1>1. queue \in Seq(Client) /\ Len(queue) \in Nat /\ DOMAIN queue = I
  BY DEF Types, ClientType
<1>2. f \in Injection(I, Others)
  <2>1. \A i \in I : queue[i] \in Client /\ queue[i] # c
    BY <1>1 DEF QueueInv
  <2>2. \A i, j \in I : queue[i] = queue[j] => i = j
    BY <1>1 DEF QueueInv
  <2> QED BY <2>1, <2>2 DEF Injection, IsInjective
<1>3. IsFiniteSet(I) /\ Cardinality(I) = Len(queue)
  <2>1. 1 \in Int /\ Len(queue) \in Int
    BY <1>1
  <2>2. /\ IsFiniteSet(I)
        /\ Cardinality(I) = IF 1 > Len(queue) THEN 0 ELSE Len(queue) - 1 + 1
    BY <2>1, FS_Interval, Zenon
  <2> QED BY <1>1, <2>2
<1>4. /\ IsFiniteSet(Others) /\ Cardinality(Client) \in Nat
      /\ Cardinality(Others) = Cardinality(Client) - 1
  BY FS_RemoveElement, FS_CardinalityType
<1>5. Cardinality(I) <= Cardinality(Others)
  BY <1>2, <1>4, FS_Injection
<1> QED BY <1>1, <1>3, <1>4, <1>5

-----------------------------------------------------------------------------
(* Every step of Server is a step of the process, or it stutters.          *)

PStep == Process!Next \/ UNCHANGED Process!vars

\* Clients of this Daemon may act at any time.
LEMMA ClientsMayAct == Process!ClientsAct
BY DEF Process!ClientsAct

\* The calls of the loop, and recv.
LEMMA ProcessLoop ==
    ASSUME \/ TestActif \/ AcceptBlocks \/ AcceptFails \/ RecvBlocks \/ Close
           \/ pc = "recv" /\ (Recv \/ RecvEnd)
    PROVE  Process!Next
<1> USE ProcessMoves, ProcessSteps, Only1At
        DEF Process!Step, Process!ServerStep, Only, loopVars, clientVars,
            ProcessPC, ExitCode, Ended, Seen
<1>1. CASE TestActif
  BY <1>1 DEF TestActif, Process!TestActif
<1>2. CASE AcceptBlocks
  BY <1>2 DEF AcceptBlocks, Process!AcceptBlocks
<1>3. CASE AcceptFails
  BY <1>3 DEF AcceptFails, AcceptFailing, Process!AcceptFails
<1>4. CASE RecvBlocks
  BY <1>4 DEF RecvBlocks, Process!RecvBlocks, Blocked
<1>5. CASE Close
  BY <1>5 DEF Close, Process!Finish
<1>6. CASE pc = "recv" /\ (Recv \/ RecvEnd)
  BY <1>6 DEF Recv, RecvEnd, Takes, Process!Recv, Process!RecvEnd
<1> QED BY <1>1, <1>2, <1>3, <1>4, <1>5, <1>6

\* The steps that change the backlog or end the process.
LEMMA ProcessAccepts ==
    ASSUME Types, Accept
    PROVE  Process!Next
<1>1. /\ queue \in Seq(Client) /\ queue # <<>> /\ queue' = Tail(queue)
      /\ pc \in {"accept", "accepting"} /\ pc' = "recv" /\ actif' = actif
      /\ late' = IF actif THEN late ELSE late + 1
  BY DEF Accept, Types, ClientType
<1>2. Len(queue) > 0 /\ Len(queue') = Len(queue) - 1
  BY <1>1
<1>3. Process!Accept(httpd)
  BY <1>1, <1>2, Only1Changes, Only1At
  DEF Process!Accept, Process!Goto, Process!FileUnchanged, ProcessPC,
      ExitCode, Ended
<1> QED BY <1>3, ProcessSteps DEF Process!Step, Process!ServerStep

LEMMA ProcessEnds ==
    ASSUME Exit \/ Crash
    PROVE  Process!Next
<1> USE Only1Changes, Only1At DEF ProcessPC, ExitCode, Ended, loopVars
<1>1. CASE Exit
  <2>1. /\ pc = "exit" /\ pc' = "stopped" /\ Len(queue') = 0
        /\ UNCHANGED loopVars
    BY <1>1 DEF Exit
  <2>2. Process!Close(httpd)
    BY <2>1
    DEF Process!Close, Process!ServerReturns, Process!Goto,
        Process!FileUnchanged
  <2> QED BY <2>2, ProcessSteps DEF Process!Step, Process!ServerStep
<1>2. CASE Crash
  <2>1. /\ pc \in {"check", "stat_index", "open"} /\ pc' = "crashed"
        /\ Len(queue') = 0 /\ UNCHANGED loopVars
    BY <1>2 DEF Crash, Serve
  <2>2. Process!Crash(httpd)
    BY <2>1
    DEF Process!Crash, Process!Exit, Process!Goto, Process!Alive,
        Process!GonePCs
  <2> QED BY <2>2, ProcessSteps DEF Process!Environment
<1> QED BY <1>1, <1>2

\* SIGINT, in a call that is blocked or between two calls.
LEMMA ProcessSignal ==
    ASSUME Types, Sigint \/ SigintWakes
    PROVE  Process!Next
<1> USE Only1Changes, Only1At DEF ProcessPC, ExitCode, Ended
<1>1. /\ pc \in PCs /\ ~Ended /\ pc # "crashed" /\ pc # "stopped"
      /\ actif' = FALSE /\ late' = late /\ queue' = queue
      /\ queue \in Seq(Client)
  BY DEF Sigint, SigintWakes, Blocked, Types, LoopType, ClientType, clientVars
<1>2. ~Ended' /\ ExitCode' = "none" /\ ExitCode = "none"
  BY <1>1 DEF Sigint, SigintWakes, Blocked, PCs
<1>3. ProcessPC' = IF ProcessPC = "accepting" /\ Len(queue) = 0 THEN "while"
                   ELSE IF ProcessPC \in {"receiving", "sending"}
                        THEN "finish"
                   ELSE ProcessPC
  BY <1>1 DEF Sigint, SigintWakes, Blocked, clientVars
<1>4. ProcessPC \in Process!CaughtPCs
  BY <1>1 DEF Process!CaughtPCs, Process!LoopPCs, Process!BlockedPCs
<1>5. ProcessPC \notin Process!UncaughtPCs
  BY <1>1
  DEF Process!UncaughtPCs, Process!CommandPCs, Process!StopPCs,
      Process!LaunchPCs, Process!ChildPCs
<1>6. Process!Interrupted(httpd) = ProcessPC'
  BY <1>3, <1>5 DEF Process!Interrupted
<1>7. Process!Signal(httpd, httpd, "dead")
  BY <1>1, <1>2, <1>5, <1>6 DEF Process!Signal, Only1
<1>8. Process!CtrlC(httpd)
  BY <1>1, <1>2, <1>4, <1>7
  DEF Process!CtrlC, Process!NetUnchanged
<1> QED BY <1>8, ProcessSteps DEF Process!Environment

\* The clients: one connects, or the one that the server waits for sends,
\* reads or hangs up.
LEMMA ProcessConnect ==
    ASSUME IsFiniteSet(Client), Types, QueueInv,
           NEW c \in Client, NEW r \in Requests, Connect(c, r)
    PROVE  Process!Next
<1>1. Len(queue) < Cardinality(Client)
  BY RoomInBacklog DEF Connect
<1>2. Len(queue') = Len(queue) + 1
  BY DEF Connect, Types, ClientType
<1>3. ~Ended /\ ~Ended' /\ ExitCode' = ExitCode /\ ProcessPC' = ProcessPC
  BY DEF Connect, Ended, ExitCode, ProcessPC, Blocked
<1>4. UNCHANGED loopVars
  BY DEF Connect
<1>5. Process!Connect
  BY <1>1, <1>2, <1>3, <1>4, ClientsMayAct
  DEF Process!Connect, Process!FileUnchanged, loopVars, Only1, httpd
<1> QED BY <1>5, ProcessSteps

LEMMA ProcessClient ==
    ASSUME Types, NEW c \in Client, Send(c) \/ HangUp(c) \/ Drain(c)
    PROVE  PStep
<1>1. UNCHANGED Seen /\ (Ended' <=> Ended)
  BY DEF Send, HangUp, Drain, Sends, Seen, ExitCode, Ended, loopVars,
         clientVars
<1>2. \/ ProcessPC' = ProcessPC
      \/ ProcessPC = "receiving" /\ ProcessPC' = "reply"
      \/ ProcessPC = "sending" /\ ProcessPC' = "finish"
  <2>1. /\ wire \in [Client -> Seq(STRING)]
        /\ todo \in [Client -> Seq(Seq(STRING))]
    BY DEF Types, ClientType
  <2>2. CASE Drain(c)
    BY <2>2 DEF Drain, Sends, ProcessPC, Ended, Blocked
  <2>3. CASE HangUp(c)
    BY <2>3 DEF HangUp, ProcessPC, Ended, Blocked
  <2>4. CASE Send(c)
    <3>1. \A d \in Client : wire[d] # <<>> => wire'[d] # <<>>
      BY <2>1, <2>4 DEF Send
    <3>2. pc' = pc /\ gone' = gone /\ cur' = cur
      BY <2>4 DEF Send
    <3>3. cur \in Client \/ pc # "receiving"
      BY DEF Types, LoopType, Idle
    <3> QED BY <3>1, <3>2, <3>3 DEF ProcessPC, Ended, Blocked
  <2> QED BY <2>2, <2>3, <2>4
<1>3. CASE ProcessPC' = ProcessPC
  BY <1>1, <1>3, ProcessStutters DEF PStep
<1>4. CASE ProcessPC = "receiving" /\ ProcessPC' = "reply"
  <2>1. Process!ClientSends(httpd)
    BY <1>1, <1>4, ClientsMayAct, ProcessMoves, Only1At
    DEF Process!ClientSends
  <2> QED BY <2>1, ProcessSteps DEF PStep, Process!Environment
<1>5. CASE ProcessPC = "sending" /\ ProcessPC' = "finish"
  <2>1. Process!ClientReads(httpd)
    BY <1>1, <1>5, ClientsMayAct, ProcessMoves, Only1At
    DEF Process!ClientReads
  <2> QED BY <2>1, ProcessSteps DEF PStep, Process!Environment
<1> QED BY <1>2, <1>3, <1>4, <1>5

\* Everything else: Daemon sees that a request comes in and that a reply is
\* out, or that sendfile blocks.
LEMMA ProcessSends ==
    ASSUME \/ Send400 \/ Send505 \/ Log505
           \/ SendStatus \/ SendHeaders \/ SendBody \/ SendFails
           \/ LogResponse \/ Destroy
    PROVE  PStep
<1> USE DEF Only, Prints, Sends, loopVars, clientVars, ReplyPCs, FinishPCs,
            PStep
<1>1. CASE Send400 \/ Send505
  BY <1>1, ReplyEnds DEF Send400, Send505
<1>2. CASE Log505 \/ SendStatus \/ LogResponse \/ Destroy
  BY <1>2, ReplyStutters
  DEF Log505, SendStatus, LogResponse, Destroy, Destroys
<1>3. CASE SendHeaders
  BY <1>3, ReplyStutters, ReplyEnds DEF SendHeaders
<1>4. CASE SendBody /\ pc' = "log"
  BY <1>4, ReplyEnds DEF SendBody
<1>5. CASE SendBody /\ pc' # "log"
  <2>1. /\ pc = "body" /\ pc' = "sending"
        /\ UNCHANGED <<actif, late, queue, cur, gone>>
    BY <1>5 DEF SendBody
  <2>2. ProcessPC' = IF cur \in gone THEN "finish" ELSE "sending"
    BY <2>1 DEF ProcessPC, Blocked
  <2>3. ProcessPC = "reply" /\ UNCHANGED Seen /\ (Ended' <=> Ended)
    BY <2>1 DEF ProcessPC, Seen, ExitCode, Ended
  <2>4. Process!Reply(httpd) \/ Process!ReplyBlocks(httpd)
    BY <2>2, <2>3, ProcessMoves, Only1At
    DEF Process!Reply, Process!ReplyBlocks
  <2> QED BY <2>4, ProcessSteps DEF Process!Step, Process!ServerStep
<1>6. CASE SendFails
  <2>1. /\ pc = "sending" /\ cur \in gone /\ pc' = "log"
        /\ UNCHANGED <<actif, late, queue>>
    BY <1>6 DEF SendFails
  <2>2. ProcessPC = "finish" /\ ProcessPC' = "finish"
    BY <2>1 DEF ProcessPC, Blocked
  <2> QED BY <2>1, <2>2, ProcessStutters DEF Seen, ExitCode, Ended
<1> QED BY <1>1, <1>2, <1>3, <1>4, <1>5, <1>6

LEMMA ProcessElse ==
    ASSUME \/ pc # "recv" /\ (Recv \/ RecvEnd)
           \/ ParseRequest \/ RefuseHost \/ RefuseVersion \/ RefuseMethod
           \/ StatTarget \/ StatIndex \/ Open \/ OpenFails
    PROVE  PStep
<1> USE DEF Only, Prints, Stat, Answer, Serve, loopVars, clientVars, ReplyPCs,
            PStep
<1>1. CASE pc # "recv" /\ (Recv \/ RecvEnd)
  <2>1. /\ pc = "receiving" /\ ~Blocked /\ pc' \in {"parse", "close"}
        /\ UNCHANGED <<actif, late, queue>>
    BY <1>1 DEF Recv, RecvEnd, Receiving, Takes, Blocked
  <2>2. ProcessPC = "reply" /\ UNCHANGED Seen /\ (Ended' <=> Ended)
    BY <2>1 DEF ProcessPC, Seen, ExitCode, Ended
  <2>3. CASE pc' = "parse"
    <3>1. ProcessPC' = "reply"
      BY <2>3 DEF ProcessPC, Ended
    <3> QED BY <2>2, <3>1, ProcessStutters
  <2>4. CASE pc' = "close"
    <3>1. ProcessPC' = "finish"
      BY <2>4 DEF ProcessPC
    <3>2. Process!Reply(httpd)
      BY <2>2, <3>1, ProcessMoves, Only1At DEF Process!Reply
    <3> QED BY <3>2, ProcessSteps DEF Process!Step, Process!ServerStep
  <2> QED BY <2>1, <2>3, <2>4
<1>2. CASE ParseRequest \/ RefuseHost \/ RefuseVersion \/ RefuseMethod
  BY <1>2, ReplyStutters
  DEF ParseRequest, RefuseHost, RefuseVersion, RefuseMethod
<1>3. CASE StatTarget \/ StatIndex \/ Open \/ OpenFails
  BY <1>3, ReplyStutters DEF StatTarget, StatIndex, Open, OpenFails
<1> QED BY <1>1, <1>2, <1>3

LEMMA ProcessEdits ==
    ASSUME \/ UNCHANGED vars
           \/ \E p \in Path, n \in FileNodes :
                WriteFile(p, n) \/ ReplaceFile(p, n)
    PROVE  UNCHANGED Process!vars
<1>1. UNCHANGED <<pc, actif, late, queue, cur, wire, gone>>
  BY DEF vars, loopVars, clientVars, WriteFile, ReplaceFile, Edit
<1> QED BY <1>1, ProcessStutters DEF Seen, ProcessPC, ExitCode, Ended, Blocked

LEMMA ProcessStep ==
    ASSUME IsFiniteSet(Client), Types, QueueInv, [Next]_vars
    PROVE  PStep
BY ProcessLoop, ProcessAccepts, ProcessEnds, ProcessSignal, ProcessConnect,
   ProcessClient, ProcessSends, ProcessElse, ProcessEdits
DEF PStep, Next, ServerNext, ClientNext

\* The loop of server_start with gerer_client in it goes through the control
\* states of Daemon and no others, however many clients there are.
THEOREM ImplementsProcess ==
    ASSUME IsFiniteSet(Client)
    PROVE  Spec => ServesAsDaemon
<1>1. IInv /\ [Next]_vars => [Process!Next]_(Process!vars)
  BY ProcessStep DEF IInv, PStep
<1> QED BY <1>1, Invariance, PTL DEF Spec, ServesAsDaemon

-----------------------------------------------------------------------------
(* What http_request_parse makes of the requests of the tests.             *)

Token ==
    {SP, LF, Colon, "GET", "HEAD", "POST", "/f", "/d", "/e", "/none", "/l",
     "HTTP/1.1", "HTTP/1.0", "Host", "localhost", "ip", "port", "evil.com"}
TestWords == Token \ {SP, LF, Colon}

LEMMA TokensDiffer ==
    /\ SP # LF /\ SP # Colon /\ LF # Colon
    /\ NUL \notin Token /\ "NULL" \notin Token
    /\ SP \in Blanks /\ LF \in Blanks /\ Colon \notin Blanks
    /\ SP \in Token /\ LF \in Token /\ Colon \in Token
    /\ \A w \in TestWords : /\ w \in Token /\ w \notin Blanks
                            /\ w # SP /\ w # LF /\ w # Colon
BY DEF Token, TestWords, SP, CR, LF, Colon, NUL, Blanks

\* A line, and the end of one.
IsField(f, D) ==
    f \in Seq(Token) /\ f # <<>> /\ \A i \in 1 .. Len(f) : f[i] \notin D
IsEnd(w, D) == w \in Seq(Token) /\ \A i \in 1 .. Len(w) : w[i] \in D

LEMMA FieldAndEnd ==
    ASSUME NEW D, NEW f, NEW w, IsField(f, D), IsEnd(w, D)
    PROVE  Starts(f \o w, D) = {1} /\ FieldAt(f \o w, D, 1) = f
<1>1. f \in Seq(Token) /\ f # <<>> /\ w \in Seq(Token)
  BY DEF IsField, IsEnd
<1>2. \A i \in 1 .. Len(f) : f[i] \notin D
  BY DEF IsField
<1>3. \A i \in 1 .. Len(w) : w[i] \in D
  BY DEF IsEnd
<1>4. f \in Seq(Token) /\ w \in Seq(Token)
  BY <1>1
<1>5. /\ f = <<>> => Starts(f \o w, D) = {}
      /\ f # <<>> => Starts(f \o w, D) = {1} /\ FieldAt(f \o w, D, 1) = f
  BY <1>2, <1>3, <1>4, OneField
<1> QED BY <1>1, <1>5

LEMMA LeastOfOne == Min({1}) = 1
<1>1. 1 \in {1} /\ {1} \in SUBSET Int /\ \A i \in {1} : 1 <= i
  OBVIOUS
<1> QED BY <1>1, MinIs

\* The hosts that the tests give.
Hosts == {<<"localhost">>, <<"ip">>, <<"evil.com">>, <<"ip", Colon, "port">>}

LEMMA HostsAreTexts ==
    ASSUME NEW h \in Hosts
    PROVE  /\ h \in Seq(Token) /\ Len(h) \in {1, 3}
           /\ h[1] \in TestWords /\ h[Len(h)] \in TestWords
           /\ \A i \in 1 .. Len(h) : h[i] # LF
<1>1. /\ {"localhost", "ip", "evil.com", "port"} \subseteq TestWords
      /\ Colon \in Token /\ Colon # LF
  BY DEF Token, TestWords, SP, LF, Colon
<1>2. \A w \in TestWords : w \in Token /\ w # LF
  BY TokensDiffer
<1>3. CASE h = <<"ip", Colon, "port">>
  BY <1>1, <1>2, <1>3
<1>4. ASSUME NEW w \in TestWords, h = <<w>>
      PROVE  /\ h \in Seq(Token) /\ Len(h) \in {1, 3}
             /\ h[1] \in TestWords /\ h[Len(h)] \in TestWords
             /\ \A i \in 1 .. Len(h) : h[i] # LF
  BY <1>2, <1>4
<1> QED BY <1>1, <1>3, <1>4 DEF Hosts

\* The line that gives the host.
HostField(h) == <<"Host", Colon, SP>> \o h

LEMMA HostFieldRead ==
    ASSUME NEW h \in Hosts
    PROVE  /\ IsField(HostField(h), {LF})
           /\ HasKey(HostField(h), "Host")
           /\ Value(HostField(h)) = h
<1> DEFINE g == HostField(h)
           n == Len(h)
<1>1. /\ h \in Seq(Token) /\ n \in {1, 3}
      /\ h[1] \in TestWords /\ h[n] \in TestWords
      /\ \A i \in 1 .. n : h[i] # LF
  BY HostsAreTexts
<1>2. "Host" \in TestWords /\ "Host" \in Token
  BY DEF TestWords, Token, SP, LF, Colon
<1>3. /\ g \in Seq(Token) /\ Len(g) = n + 3
      /\ g[1] = "Host" /\ g[2] = Colon /\ g[3] = SP
      /\ \A i \in 1 .. n : g[3 + i] = h[i]
  BY <1>1, <1>2, TokensDiffer DEF HostField
<1> HIDE DEF g
<1>4. \A i \in 1 .. Len(g) : g[i] # LF
  <2> SUFFICES ASSUME NEW i \in 1 .. Len(g) PROVE g[i] # LF
    OBVIOUS
  <2>1. CASE i \in 1 .. 3
    BY <1>2, <1>3, <2>1, TokensDiffer
  <2>2. CASE i > 3
    <3>1. i - 3 \in 1 .. n /\ g[i] = h[i - 3]
      BY <1>1, <1>3, <2>2
    <3> QED BY <1>1, <3>1
  <2> QED BY <2>1, <2>2
<1>5. 2 \in 1 .. Len(g) /\ g[2] = Colon /\ \A j \in 1 .. 2 - 1 : g[j] # Colon
  BY <1>1, <1>2, <1>3, TokensDiffer
<1>6. HasKey(g, "Host")
  BY <1>3, <1>5, KeyIs
<1>7. InkAt(g, 2, 4, Len(g))
  <2>1. g[4] = h[1] /\ g[Len(g)] = h[n]
    BY <1>1, <1>3
  <2>2. \A j \in 2 + 1 .. 4 - 1 : j = 3
    OBVIOUS
  <2> QED BY <1>1, <1>3, <1>5, <2>1, <2>2, TokensDiffer DEF InkAt
<1>8. Value(g) = SubSeq(g, 4, Len(g))
  BY <1>1, <1>3, <1>5, <1>7, ValueIs
<1>9. SubSeq(g, 4, Len(g)) = h
  <2> DEFINE s == SubSeq(g, 4, Len(g))
  <2>1. /\ s \in Seq(Token) /\ Len(s) = n
        /\ \A i \in 1 .. n : s[i] = g[3 + i]
    BY <1>1, <1>3
  <2> HIDE DEF s
  <2>2. s = h
    BY <1>1, <1>3, <2>1, SeqEqual
  <2> QED BY <2>2 DEF s
<1>10. IsField(g, {LF})
  <2>1. g # <<>> /\ \A i \in 1 .. Len(g) : g[i] \notin {LF}
    BY <1>1, <1>3, <1>4
  <2> QED BY <1>3, <2>1 DEF IsField
<1> QED BY <1>6, <1>8, <1>9, <1>10 DEF g

\* A request line of three words.
AskLine(m, t, v) == <<m, SP, t, SP, v>>

LEMMA AskLineRead ==
    ASSUME NEW m \in TestWords, NEW t \in TestWords, NEW v \in TestWords
    PROVE  LET g == AskLine(m, t, v)
           IN  /\ IsField(g, {LF})
               /\ ~(Cardinality(Starts(g, {SP})) < 3)
               /\ Word(g, 1) = <<m>> /\ Word(g, 2) = <<t>>
               /\ Word(g, 3) = <<v>>
<1> DEFINE g == AskLine(m, t, v)
<1>1. /\ m \in Token /\ t \in Token /\ v \in Token /\ SP \in Token
      /\ m # SP /\ t # SP /\ v # SP /\ m # LF /\ t # LF /\ v # LF /\ SP # LF
  BY TokensDiffer
<1>2. /\ g \in Seq(Token) /\ Len(g) = 5
      /\ g[1] = m /\ g[2] = SP /\ g[3] = t /\ g[4] = SP /\ g[5] = v
  BY <1>1 DEF AskLine
<1> HIDE DEF g
<1>3. g # <<>> /\ \A i \in 1 .. Len(g) : g[i] # LF
  <2>1. \A i \in 1 .. 5 : i \in {1, 2, 3, 4, 5}
    OBVIOUS
  <2>2. g[1] # LF /\ g[2] # LF /\ g[3] # LF /\ g[4] # LF /\ g[5] # LF
    BY <1>1, <1>2
  <2>3. \A i \in 1 .. Len(g) : g[i] # LF
    BY <1>2, <2>1, <2>2
  <2>4. g # <<>>
    BY <1>2
  <2> QED BY <2>3, <2>4
<1>4. /\ 1 \in 1 .. Len(g) /\ 3 \in 1 .. Len(g) /\ 5 \in 1 .. Len(g)
      /\ WordsAt(g, 1, 3, 5)
  BY <1>1, <1>2 DEF WordsAt
<1>5. /\ ~(Cardinality(Starts(g, {SP})) < 3)
      /\ Word(g, 1) = <<g[1]>> /\ Word(g, 2) = <<g[3]>>
      /\ Word(g, 3) = IF 5 = Len(g) \/ g[5 + 1] = SP
                      THEN <<g[5]>> ELSE <<g[5], g[5 + 1]>>
  BY <1>2, <1>4, ThreeWords
<1>6. IsField(g, {LF})
  <2>1. \A i \in 1 .. Len(g) : g[i] \notin {LF}
    BY <1>3
  <2> QED BY <1>2, <1>3, <2>1 DEF IsField
<1> QED BY <1>2, <1>5, <1>6 DEF g

\* The text of a request with a host, but for the line feeds that end it.
AskText(m, t, v, h) == AskLine(m, t, v) \o <<LF>> \o HostField(h)

\* The ends of a text that the buffer may leave.
Ends == {<<>>, <<LF>>, <<LF, LF>>}

LEMMA EndsAreTexts ==
    ASSUME NEW w \in Ends
    PROVE  IsEnd(w, {LF})
<1>1. LF \in Token
  BY TokensDiffer
<1>2. CASE w = <<>>
  BY <1>2 DEF IsEnd
<1>3. CASE w = <<LF>>
  BY <1>1, <1>3 DEF IsEnd
<1>4. CASE w = <<LF, LF>>
  BY <1>1, <1>4 DEF IsEnd
<1> QED BY <1>2, <1>3, <1>4 DEF Ends

\* What is read in a request with a host: its three words and the host.
\* Request r asks with method m for target t in version v, of host h.
Says(r, m, t, v, h) ==
    /\ r # NoRequest /\ r.method = Method(<<m>>)
    /\ r.target = <<t>> /\ r.version = <<v>>
    /\ r.header_host = h

LEMMA AskRead ==
    ASSUME NEW m \in TestWords, NEW t \in TestWords, NEW v \in TestWords,
           NEW h \in Hosts, NEW w \in Ends
    PROVE  Says(RequestOf(AskText(m, t, v, h) \o w, {LF}), m, t, v, h)
<1> DEFINE D == {LF}
           l == AskLine(m, t, v)
           f == HostField(h)
           s == l \o <<LF>>
           u == f \o w
<1>1. /\ IsField(l, D) /\ ~(Cardinality(Starts(l, {SP})) < 3)
      /\ Word(l, 1) = <<m>> /\ Word(l, 2) = <<t>> /\ Word(l, 3) = <<v>>
  BY AskLineRead
<1>2. IsField(f, D) /\ HasKey(f, "Host") /\ Value(f) = h
  BY HostFieldRead
<1>3. IsEnd(w, D) /\ IsEnd(<<LF>>, D)
  BY EndsAreTexts DEF Ends
<1>0. /\ l \in Seq(Token) /\ f \in Seq(Token) /\ w \in Seq(Token)
      /\ <<LF>> \in Seq(Token)
  BY <1>1, <1>2, <1>3 DEF IsField, IsEnd
<1>4. AskText(m, t, v, h) \o w = s \o u
  <2> HIDE DEF l, f
  <2>1. (l \o <<LF>> \o f) \o w = (l \o <<LF>>) \o (f \o w)
    BY <1>0
  <2> QED BY <2>1 DEF AskText, l, f
<1>5. /\ s \in Seq(Token) /\ Complete(s, D) /\ u \in Seq(Token)
  <2> HIDE DEF l, f
  <2>1. /\ s \in Seq(Token) /\ u \in Seq(Token)
        /\ Len(s) = Len(l) + 1 /\ s[Len(l) + 1] = LF
    BY <1>0
  <2> QED BY <2>1 DEF Complete
<1> HIDE DEF D, l, f
<1>6. Starts(s, D) = {1} /\ FieldAt(s, D, 1) = l
  BY <1>1, <1>3, FieldAndEnd
<1>7. Starts(u, D) = {1} /\ FieldAt(u, D, 1) = f
  BY <1>2, <1>3, FieldAndEnd
<1> HIDE DEF s, u
<1>8. FirstLine(s, D) = l
  BY <1>6, LeastOfOne DEF FirstLine
<1>9. Starts(s, D) # {}
  BY <1>6
<1>10. Starts(s \o u, D) # {} /\ FirstLine(s \o u, D) = l
  BY <1>5, <1>8, <1>9, FirstLineStays
<1>11. LastHeader(s \o u, D, "Host") = h
  <2>1. HasKey(FieldAt(u, D, 1), "Host")
    BY <1>2, <1>7
  <2>2. LastHeader(s \o u, D, "Host") = Value(FieldAt(u, D, 1))
    BY <1>5, <1>7, <1>9, <2>1, HeaderChanges
  <2> QED BY <1>2, <1>7, <2>2
<1>12. HasRequest(s \o u, D)
  BY <1>1, <1>10 DEF HasRequest
<1>13. LET r == RequestOf(s \o u, D)
       IN  /\ r # NoRequest /\ r.method = Method(<<m>>)
           /\ r.target = <<t>> /\ r.version = <<v>>
           /\ r.header_host = h
  BY <1>1, <1>10, <1>11, <1>12, RequestFields
<1>14. RequestOf(AskText(m, t, v, h) \o w, {LF}) = RequestOf(s \o u, D)
  BY <1>4 DEF D
<1> QED BY <1>13, <1>14 DEF Says

\* Without a header there is no host.
LEMMA HostlessRead ==
    ASSUME NEW m \in TestWords, NEW t \in TestWords, NEW v \in TestWords
    PROVE  LET r == RequestOf(AskLine(m, t, v) \o <<LF, LF>>, {LF})
           IN  r # NoRequest /\ r.header_host = Null
<1> DEFINE D == {LF}
           l == AskLine(m, t, v)
           s == l \o <<LF, LF>>
<1>1. IsField(l, D) /\ ~(Cardinality(Starts(l, {SP})) < 3)
  BY AskLineRead
<1>2. IsEnd(<<LF, LF>>, D)
  BY EndsAreTexts DEF Ends
<1> HIDE DEF D, l
<1>3. Starts(s, D) = {1} /\ FieldAt(s, D, 1) = l
  BY <1>1, <1>2, FieldAndEnd
<1> HIDE DEF s
<1>4. FirstLine(s, D) = l
  BY <1>3, LeastOfOne DEF FirstLine
<1>5. HeaderLines(s, D, "Host") = {}
  BY <1>3, LeastOfOne DEF HeaderLines
<1>6. HasRequest(s, D)
  BY <1>1, <1>3, <1>4 DEF HasRequest
<1>7. LastHeader(s, D, "Host") = Null
  BY <1>5 DEF LastHeader
<1>8. RequestOf(s, D) # NoRequest /\ RequestOf(s, D).header_host = Null
  BY <1>6, <1>7, RequestFields
<1> QED BY <1>8 DEF s, D, l

\* A first line of two words is no request, and neither is no line at all.
LEMMA ShortRead ==
    ASSUME NEW m \in TestWords, NEW t \in TestWords
    PROVE  RequestOf(<<m, SP, t>> \o <<LF, LF>>, {LF}) = NoRequest
<1> DEFINE D == {LF}
           l == <<m, SP, t>>
           s == l \o <<LF, LF>>
<1>1. /\ m \in Token /\ t \in Token /\ SP \in Token
      /\ m # LF /\ t # LF /\ SP # LF /\ m # SP /\ t # SP
  BY TokensDiffer
<1>2. IsField(l, D)
  BY <1>1 DEF IsField
<1>3. IsEnd(<<LF, LF>>, D)
  BY EndsAreTexts DEF Ends
<1>4. Starts(l, {SP}) \in SUBSET {1, 3}
  BY <1>1 DEF Starts
<1> HIDE DEF D, l
<1>5. Starts(s, D) = {1} /\ FieldAt(s, D, 1) = l
  BY <1>2, <1>3, FieldAndEnd
<1>6. Cardinality(Starts(l, {SP})) < 3
  BY <1>4, FewWords
<1> HIDE DEF s
<1>7. ~HasRequest(s, D)
  BY <1>5, <1>6, LeastOfOne DEF HasRequest, FirstLine
<1>8. RequestOf(s, D) = NoRequest
  BY <1>7, RequestFields
<1> QED BY <1>8 DEF s, D, l

LEMMA NothingRead == RequestOf(<<LF, LF>>, {LF}) = NoRequest
<1>1. Starts(<<LF, LF>>, {LF}) = {}
  BY DEF Starts
<1>2. ~HasRequest(<<LF, LF>>, {LF})
  BY <1>1 DEF HasRequest
<1> QED BY <1>2, RequestFields

-----------------------------------------------------------------------------
(* What httpd hears of them.                                               *)

\* The instances of Server in which a buffer holds the requests of the tests,
\* but for the line feeds at their end.
Instance ==
    /\ LineDelims = {LF} /\ BufferSize >= 12
    /\ Path = Paths /\ Index = Indexes /\ InitialFiles \subseteq Trees

\* A text without NUL is parsed as a whole.
LEMMA WholeParse ==
    ASSUME LineDelims = {LF}, NEW s \in Seq(Token)
    PROVE  Parse(s) = RequestOf(s, {LF})
<1>1. ~HasNul(s)
  BY TokensDiffer DEF HasNul
<1> QED BY <1>1, WholeCString DEF Parse

LEMMA ConcatIs ==
    ASSUME NEW a \in Seq(Token), NEW b \in Seq(Token), NEW c \in Seq(Token),
           Len(c) = Len(a) + Len(b),
           \A i \in 1 .. Len(a) : c[i] = a[i],
           \A i \in 1 .. Len(b) : c[Len(a) + i] = b[i]
    PROVE  c = a \o b
<1> DEFINE d == a \o b
<1>1. /\ d \in Seq(Token) /\ Len(d) = Len(c)
      /\ \A i \in 1 .. Len(a) : d[i] = a[i]
      /\ \A i \in 1 .. Len(b) : d[Len(a) + i] = b[i]
  OBVIOUS
<1> HIDE DEF d
<1>2. \A i \in 1 .. Len(c) : c[i] = d[i]
  <2> SUFFICES ASSUME NEW i \in 1 .. Len(c) PROVE c[i] = d[i]
    OBVIOUS
  <2>1. CASE i <= Len(a)
    BY <1>1, <2>1
  <2>2. CASE ~(i <= Len(a))
    <3>1. i - Len(a) \in 1 .. Len(b) /\ Len(a) + (i - Len(a)) = i
      BY <2>2
    <3> QED BY <1>1, <3>1
  <2> QED BY <2>1, <2>2
<1>3. c = d
  BY <1>1, <1>2, SeqEqual
<1> QED BY <1>3 DEF d

\* The buffer cuts off line feeds at most.
LEMMA CutEnd ==
    ASSUME NEW a \in Seq(Token), NEW n \in Nat,
           Len(a) <= n, n <= Len(a) + 2
    PROVE  \E w \in Ends : SubSeq(a \o <<LF, LF>>, 1, n) = a \o w
<1> DEFINE b == a \o <<LF, LF>>
           s == SubSeq(b, 1, n)
<1>1. LF \in Token
  BY TokensDiffer
<1>2. /\ b \in Seq(Token) /\ Len(b) = Len(a) + 2
      /\ \A i \in 1 .. Len(a) : b[i] = a[i]
      /\ b[Len(a) + 1] = LF /\ b[Len(a) + 2] = LF
  BY <1>1
<1> HIDE DEF b
<1>3. s \in Seq(Token) /\ Len(s) = n /\ \A i \in 1 .. n : s[i] = b[i]
  BY <1>2
<1> HIDE DEF s
<1>4. PICK w \in Ends : Len(w) = n - Len(a)
                       /\ \A i \in 1 .. Len(w) : w[i] = LF
  <2>1. n - Len(a) \in {0, 1, 2}
    OBVIOUS
  <2>2. Len(<<>>) = 0 /\ Len(<<LF>>) = 1 /\ Len(<<LF, LF>>) = 2
    OBVIOUS
  <2>3. \A w \in Ends : \A i \in 1 .. Len(w) : w[i] = LF
    BY EndsAreTexts DEF IsEnd
  <2> QED BY <2>1, <2>2, <2>3 DEF Ends
<1>5. s = a \o w
  <2>1. w \in Seq(Token)
    BY EndsAreTexts DEF IsEnd
  <2> DEFINE c == a \o w
  <2>2. /\ c \in Seq(Token) /\ Len(c) = n
        /\ \A i \in 1 .. n : c[i] = IF i <= Len(a) THEN a[i] ELSE w[i - Len(a)]
    BY <1>4, <2>1
  <2> HIDE DEF c
  <2>3. \A i \in 1 .. n : s[i] = c[i]
    <3> SUFFICES ASSUME NEW i \in 1 .. n PROVE s[i] = c[i]
      OBVIOUS
    <3>1. CASE i <= Len(a)
      BY <1>2, <1>3, <2>2, <3>1
    <3>2. CASE ~(i <= Len(a))
      <4>1. i - Len(a) \in 1 .. Len(w) /\ i \in {Len(a) + 1, Len(a) + 2}
        BY <1>4, <3>2
      <4> QED BY <1>2, <1>3, <1>4, <2>2, <3>2, <4>1
    <3> QED BY <3>1, <3>2
  <2>4. s = c
    BY <1>3, <2>2, <2>3, SeqEqual
  <2> QED BY <2>4 DEF c
<1> QED BY <1>5 DEF s, b

LEMMA AskHeard ==
    ASSUME Instance, NEW m \in TestWords, NEW t \in TestWords,
           NEW v \in TestWords, NEW h \in Hosts
    PROVE  Says(Heard(Ask(m, t, v, h)), m, t, v, h)
<1> DEFINE a == AskText(m, t, v, h)
           n == Smaller(Len(Ask(m, t, v, h)), BufferSize)
<1>1. /\ h \in Seq(Token) /\ Len(h) \in {1, 3}
      /\ m \in Token /\ t \in Token /\ v \in Token
      /\ SP \in Token /\ LF \in Token /\ Colon \in Token /\ "Host" \in Token
  <2>1. "Host" \in Token
    BY DEF Token
  <2> QED BY <2>1, HostsAreTexts, TokensDiffer
<1>2. AskLine(m, t, v) \in Seq(Token) /\ Len(AskLine(m, t, v)) = 5
  BY <1>1 DEF AskLine
<1>3. HostField(h) \in Seq(Token) /\ Len(HostField(h)) = 3 + Len(h)
  BY <1>1 DEF HostField
<1>4. a \in Seq(Token) /\ Len(a) = 9 + Len(h)
  <2>1. \A x, y \in Seq(Token) :
          /\ x \o <<LF>> \o y \in Seq(Token)
          /\ Len(x \o <<LF>> \o y) = Len(x) + 1 + Len(y)
    BY <1>1
  <2>2. /\ a \in Seq(Token)
        /\ Len(a) = Len(AskLine(m, t, v)) + 1 + Len(HostField(h))
    BY <1>2, <1>3, <2>1 DEF AskText
  <2> QED BY <1>1, <1>2, <1>3, <2>2
<1>5. Ask(m, t, v, h) = a \o <<LF, LF>>
  <2>1. <<m, SP, t, SP, v, LF>> = AskLine(m, t, v) \o <<LF>>
    BY <1>1 DEF AskLine
  <2>2. HostLine(h) = HostField(h) \o <<LF, LF>>
    BY DEF HostLine, HostField
  <2> DEFINE x == AskLine(m, t, v) \o <<LF>>
             y == HostField(h)
             z == <<LF, LF>>
  <2>3. x \in Seq(Token) /\ y \in Seq(Token) /\ z \in Seq(Token)
    BY <1>1, <1>2, <1>3
  <2>4. Ask(m, t, v, h) = x \o (y \o z)
    BY <2>1, <2>2 DEF Ask
  <2>5. a \o z = (x \o y) \o z
    BY DEF AskText
  <2> HIDE DEF x, y, z
  <2>6. x \o (y \o z) = (x \o y) \o z
    BY <2>3
  <2> QED BY <2>4, <2>5, <2>6 DEF z
<1> HIDE DEF a
<1>6. n \in Nat /\ Len(a) <= n /\ n <= Len(a) + 2
  <2>1. Len(a \o <<LF, LF>>) = Len(a) + 2 /\ Len(a) <= 12 /\ Len(a) \in Nat
    <3>1. <<LF, LF>> \in Seq(Token) /\ Len(<<LF, LF>>) = 2
      BY <1>1
    <3>2. Len(a \o <<LF, LF>>) = Len(a) + 2 /\ Len(a) \in Nat
      BY <1>4, <3>1
    <3>3. Len(h) = 1 \/ Len(h) = 3
      BY <1>1
    <3>4. Len(a) <= 12
      <4>1. CASE Len(h) = 1
        <5>1. Len(a) = 9 + 1
          BY <1>4, <4>1
        <5> QED BY <5>1
      <4>2. CASE Len(h) = 3
        <5>1. Len(a) = 9 + 3
          BY <1>4, <4>2
        <5> QED BY <5>1
      <4> QED BY <3>3, <4>1, <4>2
    <3> QED BY <3>2, <3>4
  <2> QED BY <1>5, <2>1, ServerAssumption DEF Smaller, Instance
<1> HIDE DEF n
<1>7. PICK w \in Ends : SubSeq(a \o <<LF, LF>>, 1, n) = a \o w
  BY <1>4, <1>6, CutEnd
<1>8. Heard(Ask(m, t, v, h)) = Parse(a \o w)
  BY <1>5, <1>7 DEF Heard, n
<1>9. a \o w \in Seq(Token)
  BY <1>4, EndsAreTexts DEF IsEnd
<1>10. Heard(Ask(m, t, v, h)) = RequestOf(a \o w, {LF})
  BY <1>8, <1>9, WholeParse DEF Instance
<1> HIDE DEF Ends
<1>11. Says(RequestOf(AskText(m, t, v, h) \o w, {LF}), m, t, v, h)
  BY <1>7, AskRead
<1> QED BY <1>10, <1>11 DEF a

\* A short text is heard as a whole.
LEMMA ShortHeard ==
    ASSUME Instance, NEW s \in Seq(Token), Len(s) <= 12
    PROVE  Heard(s) = RequestOf(s, {LF})
<1>1. Smaller(Len(s), BufferSize) = Len(s)
  BY ServerAssumption DEF Smaller, Instance
<1>2. SubSeq(s, 1, Len(s)) = s
  OBVIOUS
<1> QED BY <1>1, <1>2, WholeParse DEF Heard, Instance

-----------------------------------------------------------------------------
(* What the files of the tests hold.                                       *)

\* What is found behind a target.
LEMMA TreeServed ==
    ASSUME Instance, files = Tree, NEW r, NEW t, r.target = <<t>>
    PROVE  /\ t = "/f" \/ t = "/d" => Served(r).kind = "file"
           /\ t = "/e" \/ t = "/none" => Served(r).kind = "absent"
           /\ t = "/l" => Served(r).kind = "locked"
<1>1. PathOf(r.target) = IF t \in Paths THEN t ELSE NoPath
  BY DEF PathOf, Instance
<1>2. NoPath \notin Paths
  BY ServerAssumption DEF Instance
<1>3. \A p : NodeAt(p) = IF p \in Paths THEN Tree[p] ELSE Absent
  BY DEF NodeAt, Instance
<1>4. /\ Absent.kind = "absent" /\ Dir.kind = "dir" /\ Locked.kind = "locked"
      /\ File(2).kind = "file"
  BY DEF Absent, Dir, Locked, File
<1>5. /\ Tree["/f"] = File(2) /\ Tree["/d"] = Dir /\ Tree["/e"] = Dir
      /\ Tree["/l"] = Locked /\ Tree["/d/index"] = File(2)
  BY DEF Tree, Paths
<1>6. Index["/d"] = "/d/index" /\ Index["/e"] = NoPath
  BY DEF Instance, Indexes, Paths
<1>7. /\ "/f" \in Paths /\ "/d" \in Paths /\ "/d/index" \in Paths
      /\ "/e" \in Paths /\ "/l" \in Paths /\ "/none" \notin Paths
  BY DEF Paths
<1>8. CASE t = "/f"
  BY <1>1, <1>3, <1>4, <1>5, <1>7, <1>8 DEF Served
<1>9. CASE t = "/d"
  BY <1>1, <1>3, <1>4, <1>5, <1>6, <1>7, <1>9 DEF Served
<1>10. CASE t = "/e"
  BY <1>1, <1>2, <1>3, <1>4, <1>5, <1>6, <1>7, <1>10 DEF Served
<1>11. CASE t = "/none"
  BY <1>1, <1>2, <1>3, <1>4, <1>7, <1>11 DEF Served
<1>12. CASE t = "/l"
  BY <1>1, <1>3, <1>4, <1>5, <1>7, <1>12 DEF Served
<1> QED BY <1>8, <1>9, <1>10, <1>11, <1>12

\* The status that is due for a request with a host.
LEMMA AskDue ==
    ASSUME Instance, files = Tree, NEW m \in TestWords, NEW t \in TestWords,
           NEW v \in TestWords, NEW h \in Hosts
    PROVE  LET s == StatusDue(Heard(Ask(m, t, v, h)))
           IN  /\ h = <<"evil.com">> => s = "400"
               /\ h # <<"evil.com">> =>
                    /\ v # "HTTP/1.1" => s = "505"
                    /\ v = "HTTP/1.1" =>
                         /\ m = "POST" => s = "405"
                         /\ m \in {"GET", "HEAD"} =>
                              /\ t \in {"/f", "/d"} => s = "200"
                              /\ t \in {"/e", "/none"} => s = "404"
                              /\ t = "/l" => s = "403"
<1> DEFINE r == Heard(Ask(m, t, v, h))
<1>1. /\ r # NoRequest /\ r.method = Method(<<m>>)
      /\ r.target = <<t>> /\ r.version = <<v>> /\ r.header_host = h
  <2>1. Says(r, m, t, v, h)
    BY AskHeard
  <2> QED BY <2>1 DEF Says
<1> HIDE DEF r
<1>2. CASE h = <<"evil.com">>
  <2>1. ~HostValid(h)
    <3>1. h[1] = "evil.com" /\ Len(h) = 1
      BY <1>2
    <3>2. /\ h # <<"localhost">> /\ h # <<"ip">>
          /\ Len(<<"ip", Colon, "port">>) = 3
      BY <3>1
    <3> QED BY <3>1, <3>2 DEF HostValid
  <2>2. StatusDue(r) = "400"
    BY <1>1, <2>1 DEF StatusDue
  <2> QED BY <1>2, <2>2 DEF r
<1>3. CASE h # <<"evil.com">>
  <2>1. HostValid(r.header_host)
    BY <1>1, <1>3 DEF HostValid, Hosts
  <2>2. v # "HTTP/1.1" => StatusDue(r) = "505"
    BY <1>1, <2>1 DEF StatusDue
  <2>3. ASSUME v = "HTTP/1.1", m = "POST"
        PROVE  StatusDue(r) = "405"
    <3>1. r.method = "UNKNOWN"
      BY <1>1, <2>3 DEF Method
    <3> QED BY <1>1, <2>1, <2>3, <3>1 DEF StatusDue
  <2>4. ASSUME v = "HTTP/1.1", m \in {"GET", "HEAD"}
        PROVE  StatusDue(r) = [absent |-> "404", locked |-> "403",
                               file |-> "200", dir |-> "200"][Served(r).kind]
    <3>1. r.method = m
      BY <1>1, <2>4 DEF Method
    <3> QED BY <1>1, <2>1, <2>4, <3>1 DEF StatusDue
  <2>5. ASSUME v = "HTTP/1.1", m \in {"GET", "HEAD"}
        PROVE  /\ t \in {"/f", "/d"} => StatusDue(r) = "200"
               /\ t \in {"/e", "/none"} => StatusDue(r) = "404"
               /\ t = "/l" => StatusDue(r) = "403"
    BY <1>1, <2>4, <2>5, TreeServed
  <2> QED BY <1>3, <2>2, <2>3, <2>5 DEF r
<1> QED BY <1>2, <1>3

\* Each test gets what it expects.
LEMMA TestDue ==
    ASSUME Instance, files = Tree, NEW t \in Tests
    PROVE  Len(t.request) = 1 /\ StatusDue(Heard(t.request[1])) = t.status
<1>1. {"GET", "HEAD", "POST", "/f", "/d", "/e", "/none", "/l", "HTTP/1.1",
       "HTTP/1.0"} \subseteq TestWords
  BY DEF TestWords, Token, SP, LF, Colon
<1>2. {<<"localhost">>, <<"ip">>, <<"evil.com">>, <<"ip", Colon, "port">>}
        \subseteq Hosts
  BY DEF Hosts
<1>3. ASSUME NEW s, NEW x, t = Test(s, x), StatusDue(Heard(s)) = x
      PROVE  Len(t.request) = 1 /\ StatusDue(Heard(t.request[1])) = t.status
  <2>1. t.request = <<s>> /\ t.status = x
    BY <1>3 DEF Test
  <2> QED BY <1>3, <2>1
<1>4. <<"localhost">> # <<"evil.com">> /\ <<"ip">> # <<"evil.com">>
      /\ <<"ip", Colon, "port">> # <<"evil.com">>
  <2>1. Len(<<"ip", Colon, "port">>) = 3 /\ Len(<<"evil.com">>) = 1
    OBVIOUS
  <2> QED BY <2>1
<1>5. ASSUME NEW p \in {"/f", "/d", "/e", "/none", "/l"}
      PROVE  LET s == StatusDue(Heard(Get(p)))
             IN  /\ p \in {"/f", "/d"} => s = "200"
                 /\ p \in {"/e", "/none"} => s = "404"
                 /\ p = "/l" => s = "403"
  BY <1>1, <1>2, <1>4, <1>5, AskDue DEF Get
<1>6. CASE \/ t = Test(Get("/f"), "200") \/ t = Test(Get("/d"), "200")
           \/ t = Test(Get("/e"), "404") \/ t = Test(Get("/none"), "404")
           \/ t = Test(Get("/l"), "403")
  BY <1>3, <1>5, <1>6
<1>7. CASE t = Test(Ask("HEAD", "/f", "HTTP/1.1", <<"ip", Colon, "port">>),
                    "200")
  <2>1. StatusDue(Heard(Ask("HEAD", "/f", "HTTP/1.1",
                            <<"ip", Colon, "port">>))) = "200"
    BY <1>1, <1>2, <1>4, AskDue
  <2> QED BY <1>3, <1>7, <2>1
<1>8. CASE t = Test(Ask("POST", "/f", "HTTP/1.1", <<"ip">>), "405")
  <2>1. StatusDue(Heard(Ask("POST", "/f", "HTTP/1.1", <<"ip">>))) = "405"
    BY <1>1, <1>2, <1>4, AskDue
  <2> QED BY <1>3, <1>8, <2>1
<1>9. CASE t = Test(Ask("GET", "/f", "HTTP/1.0", <<"localhost">>), "505")
  <2>1. StatusDue(Heard(Ask("GET", "/f", "HTTP/1.0", <<"localhost">>)))
          = "505"
    BY <1>1, <1>2, <1>4, AskDue
  <2> QED BY <1>3, <1>9, <2>1
<1>10. CASE \/ t = Test(Ask("GET", "/f", "HTTP/1.1", <<"evil.com">>), "400")
            \/ t = Test(Ask("GET", "/f", "HTTP/1.0", <<"evil.com">>), "400")
  <2>1. \A v \in {"HTTP/1.1", "HTTP/1.0"} :
          StatusDue(Heard(Ask("GET", "/f", v, <<"evil.com">>))) = "400"
    BY <1>1, <1>2, AskDue
  <2> QED BY <1>3, <1>10, <2>1
<1>11. CASE t = Test(<<"GET", SP, "/f", SP, "HTTP/1.1", LF, LF>>, "400")
  <2> DEFINE s == <<"GET", SP, "/f", SP, "HTTP/1.1", LF, LF>>
             l == AskLine("GET", "/f", "HTTP/1.1")
  <2>0. /\ "GET" \in Token /\ "/f" \in Token /\ "HTTP/1.1" \in Token
        /\ SP \in Token /\ LF \in Token
    BY <1>1, TokensDiffer
  <2>1. /\ s \in Seq(Token) /\ Len(s) = 7
        /\ s[1] = "GET" /\ s[2] = SP /\ s[3] = "/f" /\ s[4] = SP
        /\ s[5] = "HTTP/1.1" /\ s[6] = LF /\ s[7] = LF
    BY <2>0
  <2>2. /\ l \in Seq(Token) /\ Len(l) = 5
        /\ l[1] = "GET" /\ l[2] = SP /\ l[3] = "/f" /\ l[4] = SP
        /\ l[5] = "HTTP/1.1"
    BY <2>0 DEF AskLine
  <2>3. RequestOf(s, {LF}).header_host = Null
    <3>1. <<LF, LF>> \in Seq(Token) /\ Len(<<LF, LF>>) = 2
      BY <2>0
    <3> HIDE DEF s, l
    <3>2. /\ Len(s) = Len(l) + Len(<<LF, LF>>)
          /\ \A i \in 1 .. Len(l) : s[i] = l[i]
          /\ \A i \in 1 .. Len(<<LF, LF>>) : s[Len(l) + i] = <<LF, LF>>[i]
      <4>1. \A i \in 1 .. 5 : i \in {1, 2, 3, 4, 5}
        OBVIOUS
      <4>2. \A i \in 1 .. 2 : i \in {1, 2}
        OBVIOUS
      <4>3. <<LF, LF>>[1] = LF /\ <<LF, LF>>[2] = LF
        OBVIOUS
      <4> QED BY <2>1, <2>2, <3>1, <4>1, <4>2, <4>3
    <3>3. s = l \o <<LF, LF>>
      BY <2>1, <2>2, <3>1, <3>2, ConcatIs
    <3>4. RequestOf(l \o <<LF, LF>>, {LF}).header_host = Null
      BY <1>1, HostlessRead DEF l
    <3> QED BY <3>3, <3>4
  <2> HIDE DEF s
  <2>4. Heard(s) = RequestOf(s, {LF})
    <3>1. s \in Seq(Token) /\ Len(s) <= 12
      BY <2>1
    <3> QED BY <3>1, ShortHeard
  <2>5. ~HostValid(Null)
    <3>1. Null[1] = "NULL" /\ Len(Null) = 1
      BY DEF Null
    <3>2. Null # <<"localhost">> /\ Null # <<"ip">>
          /\ Len(<<"ip", Colon, "port">>) = 3
      BY <3>1
    <3> QED BY <3>1, <3>2 DEF HostValid
  <2>6. StatusDue(Heard(s)) = "400"
    BY <2>3, <2>4, <2>5 DEF StatusDue
  <2> QED BY <1>3, <1>11, <2>6 DEF s
<1>12. CASE t = Test(<<"GET", SP, "/f", LF, LF>>, "400")
  <2> DEFINE s == <<"GET", SP, "/f", LF, LF>>
             l == <<"GET", SP, "/f">>
  <2>0. /\ "GET" \in Token /\ "/f" \in Token
        /\ SP \in Token /\ LF \in Token
    BY <1>1, TokensDiffer
  <2>1. /\ s \in Seq(Token) /\ Len(s) = 5
        /\ s[1] = "GET" /\ s[2] = SP /\ s[3] = "/f" /\ s[4] = LF /\ s[5] = LF
    BY <2>0
  <2>2. /\ l \in Seq(Token) /\ Len(l) = 3
        /\ l[1] = "GET" /\ l[2] = SP /\ l[3] = "/f"
    BY <2>0
  <2>3. RequestOf(s, {LF}) = NoRequest
    <3>1. <<LF, LF>> \in Seq(Token) /\ Len(<<LF, LF>>) = 2
      BY <2>0
    <3> HIDE DEF s, l
    <3>2. /\ Len(s) = Len(l) + Len(<<LF, LF>>)
          /\ \A i \in 1 .. Len(l) : s[i] = l[i]
          /\ \A i \in 1 .. Len(<<LF, LF>>) : s[Len(l) + i] = <<LF, LF>>[i]
      <4>1. \A i \in 1 .. 3 : i \in {1, 2, 3}
        OBVIOUS
      <4>2. \A i \in 1 .. 2 : i \in {1, 2}
        OBVIOUS
      <4>3. <<LF, LF>>[1] = LF /\ <<LF, LF>>[2] = LF
        OBVIOUS
      <4> QED BY <2>1, <2>2, <3>1, <4>1, <4>2, <4>3
    <3>3. s = l \o <<LF, LF>>
      BY <2>1, <2>2, <3>1, <3>2, ConcatIs
    <3>4. RequestOf(l \o <<LF, LF>>, {LF}) = NoRequest
      BY <1>1, ShortRead DEF l
    <3> QED BY <3>3, <3>4
  <2> HIDE DEF s
  <2>4. Heard(s) = NoRequest
    <3>1. s \in Seq(Token) /\ Len(s) <= 12
      BY <2>1
    <3>2. Heard(s) = RequestOf(s, {LF})
      BY <3>1, ShortHeard
    <3> QED BY <2>3, <3>2
  <2>5. StatusDue(Heard(s)) = "400"
    BY <2>4 DEF StatusDue
  <2> QED BY <1>3, <1>12, <2>5 DEF s
<1>13. CASE t = Test(<<LF, LF>>, "400")
  <2>1. <<LF, LF>> \in Seq(Token) /\ Len(<<LF, LF>>) = 2
    BY TokensDiffer
  <2> DEFINE s == <<LF, LF>>
  <2> HIDE DEF s
  <2>2. Heard(s) = RequestOf(s, {LF})
    <3>1. s \in Seq(Token) /\ Len(s) <= 12
      BY <2>1 DEF s
    <3> QED BY <3>1, ShortHeard
  <2>3. Heard(s) = NoRequest
    BY <2>2, NothingRead DEF s
  <2>4. StatusDue(Heard(s)) = "400"
    BY <2>3 DEF StatusDue
  <2> QED BY <1>3, <1>13, <2>4 DEF s
<1> QED
  BY <1>6, <1>7, <1>8, <1>9, <1>10, <1>11, <1>12, <1>13 DEF Tests

-----------------------------------------------------------------------------
(* The theorem.                                                            *)

\* The files are those the server started with, until they are edited.
FilesInv == changes = 0 => files \in InitialFiles

LEMMA FilesAlways == Spec => []FilesInv
<1>1. Init => FilesInv
  BY DEF Init, FilesInv
<1>2. IInv /\ FilesInv /\ [Next]_vars => FilesInv'
  BY Untouched DEF IInv, FilesInv
<1> QED BY <1>1, <1>2, Invariance, PTL DEF Spec

\* Every request that the integration tests send, arriving in one piece, gets
\* the status they expect, whoever else is served before, meanwhile or after,
\* and whatever SIGINT and clients that hang up do: for any number of clients
\* and any other requests.
THEOREM TestsPass ==
    ASSUME Instance
    PROVE  Spec => []RepliesAsTested
<1>1. StatusAsDue /\ FilesInv => RepliesAsTested
  <2> SUFFICES ASSUME StatusAsDue, FilesInv, NEW t \in Tests,
                      NEW c \in Client, asked[c] = t.request,
                      got[c].status # NoStatus, changes = 0
               PROVE  got[c].status = t.status
    BY DEF RepliesAsTested
  <2>1. files = Tree
    BY DEF FilesInv, Instance, Trees
  <2>2. Len(t.request) = 1 /\ StatusDue(Heard(t.request[1])) = t.status
    BY <2>1, TestDue
  <2> QED BY <2>2 DEF StatusAsDue
<1> QED BY <1>1, StatusesAsDue, FilesAlways, PTL

=============================================================================
