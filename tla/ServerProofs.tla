---------------------------- MODULE ServerProofs ----------------------------
(***************************************************************************)
(* Proofs about Server, for any number of clients and any requests, files, *)
(* buffers and failures.                                                   *)
(***************************************************************************)
EXTENDS Server, TLAPS

-----------------------------------------------------------------------------
(* The inductive invariant, in parts.                                      *)

IdlePCs == {"while", "accept", "accepting", "exit", "stopped"}
\* A client is served and has been sent nothing.
BeforePCs == {"recv", "receiving", "parse", "check", "send_400", "send_505",
              "stat_index", "open", "status"}
\* http_response_create has returned res.
AnswerPCs == {"status", "headers", "body", "sending", "log", "destroy"}
ServedPCs == BeforePCs \cup AnswerPCs \cup {"log_505", "close"}
PCs == IdlePCs \cup ServedPCs \cup {"crashed"}

AnyStatus == Statuses \cup {NoStatus}
GotType == [status : AnyStatus, length : Nat, body : Nat, headers : BOOLEAN]
ResType == [status : AnyStatus, length : Nat, body : BOOLEAN,
            headers : BOOLEAN]
InodeType == [path : Path \cup {NoPath},
              kind : {"absent", "file", "dir", "locked"}, size : Nat]

\* The types of the variables of the loop and of the reply.
LoopType ==
    /\ pc \in PCs
    /\ actif \in BOOLEAN
    /\ cur \in IF Idle THEN {NoClient} ELSE Client
    /\ changes \in 0 .. MaxChanges
ReplyType ==
    /\ path \in Path \cup {NoPath}
    /\ res \in ResType
    /\ inode \in InodeType
    /\ files \in [Path -> Node]
    /\ got \in [Client -> GotType]
    /\ gone \subseteq Client
ClientType ==
    /\ queue \in Seq(Client)
    /\ asked \in [Client -> Seq(Seq(STRING))]
    /\ todo \in [Client -> Seq(Seq(STRING))]
    /\ wire \in [Client -> Seq(STRING)]

\* The flag: whoever is accepted with the flag cleared is the last one.
LateInv ==
    /\ late \in 0 .. 1
    /\ actif \/ pc \in {"accept", "accepting"} => late = 0
    /\ pc \in {"exit", "stopped"} => ~actif

\* The descriptors, at each call.
FdInv ==
    /\ pc \in IdlePCs \cup {"crashed"} => fds = {}
    /\ pc \in ServedPCs \ AnswerPCs => fds = {"client"}
    /\ pc \in AnswerPCs =>
         fds = IF res.body THEN {"client", "body"} ELSE {"client"}

Types == LoopType /\ ReplyType /\ ClientType

-----------------------------------------------------------------------------
(* Types.                                                                  *)

LEMMA InitTypes == Init => Types
BY ServerAssumption
DEF Init, Types, LoopType, ReplyType, ClientType, PCs, IdlePCs, Idle,
    NoResponse, Response, ResType, NoInode, InodeType, Nothing, GotType,
    AnyStatus

LEMMA LoopTypeKept ==
    ASSUME Types, [Next]_vars
    PROVE  LoopType'
<1> USE ServerAssumption
        DEF Types, LoopType, ReplyType, ClientType, PCs, IdlePCs, ServedPCs,
            BeforePCs, AnswerPCs, Idle, Only, Prints, Sends, Fails, loopVars,
            replyVars, outVars, clientVars, fileVars
<1>1. CASE TestActif
  BY <1>1 DEF TestActif
<1>2. CASE Accept
  BY <1>2 DEF Accept
<1>3. CASE AcceptBlocks \/ AcceptFails \/ Exit
  BY <1>3 DEF AcceptBlocks, AcceptFails, AcceptFailing, Exit
<1>4. CASE Recv \/ RecvBlocks \/ RecvEnd
  BY <1>4 DEF Recv, RecvBlocks, RecvEnd, Receiving, Takes
<1>5. CASE ParseRequest
  BY <1>5 DEF ParseRequest
<1>6. CASE RefuseHost \/ RefuseVersion \/ RefuseMethod
  BY <1>6 DEF RefuseHost, RefuseVersion, RefuseMethod, Serve, Answer
<1>7. CASE Send400 \/ Send505 \/ Log505
  BY <1>7 DEF Send400, Send505, Log505
<1>8. CASE StatTarget \/ StatIndex
  BY <1>8 DEF StatTarget, StatIndex, Stat, Serve, Answer
<1>9. CASE Open \/ OpenFails
  BY <1>9 DEF Open, OpenFails, Answer
<1>10. CASE Crash
  BY <1>10 DEF Crash, Serve
<1>11. CASE SendStatus \/ SendHeaders \/ SendBody \/ SendFails
  BY <1>11 DEF SendStatus, SendHeaders, SendBody, SendFails
<1>12. CASE LogResponse \/ Destroy \/ Close
  BY <1>12 DEF LogResponse, Destroy, Destroys, Close
<1>13. CASE Sigint \/ SigintWakes
  BY <1>13 DEF Sigint, SigintWakes, Blocked
<1>14. ASSUME NEW c \in Client, ClientNext(c)
       PROVE  LoopType'
  BY <1>14 DEF ClientNext, Send, HangUp, Drain, Connect
<1>15. ASSUME NEW p \in Path, NEW n \in FileNodes,
              WriteFile(p, n) \/ ReplaceFile(p, n)
       PROVE  LoopType'
  BY <1>15 DEF WriteFile, ReplaceFile, Edit
<1>16. CASE UNCHANGED vars
  BY <1>16 DEF vars
<1> QED
  BY <1>1, <1>2, <1>3, <1>4, <1>5, <1>6, <1>7, <1>8, <1>9, <1>10, <1>11,
     <1>12, <1>13, <1>14, <1>15, <1>16 DEF Next, ServerNext

\* Records that are changed in one field keep their type.
LEMMA GotStatus ==
    ASSUME NEW g \in GotType, NEW s \in AnyStatus
    PROVE  [g EXCEPT !.status = s] \in GotType
BY DEF GotType

LEMMA GotLength ==
    ASSUME NEW g \in GotType, NEW n \in Nat
    PROVE  [g EXCEPT !.length = n, !.headers = TRUE] \in GotType
BY DEF GotType

LEMMA GotBody ==
    ASSUME NEW g \in GotType, NEW n \in Nat
    PROVE  [g EXCEPT !.body = n] \in GotType
BY DEF GotType

LEMMA GotRefusal ==
    ASSUME NEW s \in AnyStatus
    PROVE  [Nothing EXCEPT !.status = s, !.headers = TRUE] \in GotType
BY DEF GotType, Nothing, AnyStatus

LEMMA ResLength ==
    ASSUME NEW r \in ResType, NEW n \in Nat
    PROVE  [r EXCEPT !.length = n] \in ResType
BY DEF ResType

LEMMA InodeKept ==
    ASSUME NEW i \in InodeType, NEW p \in Path \cup {NoPath}, NEW n \in Nat
    PROVE  /\ [i EXCEPT !.path = p] \in InodeType
           /\ [i EXCEPT !.size = n] \in InodeType
BY DEF InodeType

\* What is at a path.
LEMMA NodeType ==
    ASSUME NEW n \in Node
    PROVE  /\ n.kind \in {"absent", "file", "dir", "locked"} /\ n.size \in Nat
           /\ n.kind = "absent" <=> n = Absent
<1>1. CASE n = Absent
  BY <1>1 DEF Absent
<1>2. CASE n \in [kind : {"file", "dir", "locked"}, size : Nat]
  BY <1>2 DEF Absent
<1> QED BY <1>1, <1>2 DEF Node

\* A response that lost its status line or its headers is a response still.
LEMMA MaimedType ==
    ASSUME NEW r \in ResType, NEW x \in Maimed(r)
    PROVE  /\ x \in ResType /\ x.body = r.body
           /\ x.status \in {r.status, "000"}
<1>1. PICK s \in {r.status, "000"}, h \in {TRUE, r.status # "200"} :
         x = [r EXCEPT !.status = s, !.headers = h]
  BY DEF Maimed
<1>2. s \in AnyStatus /\ h \in BOOLEAN
  BY DEF ResType, AnyStatus, Statuses
<1>3. x \in ResType
  BY <1>1, <1>2 DEF ResType
<1> QED BY <1>1, <1>3 DEF ResType

\* Answer(r) makes a response of r.
LEMMA AnswerType ==
    ASSUME NEW r \in ResType, Answer(r)
    PROVE  /\ res' \in ResType /\ files' = files
           /\ pc' = "status" /\ res'.body = r.body
           /\ res'.status \in {r.status, "000"}
<1>1. PICK x \in {r} \cup Maimed(r) : res' = x /\ Fails(x # r)
  BY DEF Answer
<1> QED BY <1>1, MaimedType DEF Answer, Fails

\* Sends(l, g) gives cur g, if it is there.
LEMMA SendsType ==
    ASSUME got \in [Client -> GotType], NEW l, NEW g \in GotType, Sends(l, g)
    PROVE  got' \in [Client -> GotType]
BY DEF Sends

LEMMA ReplyTypeKept ==
    ASSUME Types, [Next]_vars
    PROVE  ReplyType'
<1> USE DEF ReplyType
<1>0. Types /\ ReplyType
  BY DEF Types
<1>1. ASSUME UNCHANGED <<replyVars, got, gone, files>>
      PROVE  ReplyType'
  BY <1>0, <1>1 DEF replyVars
<1>2. CASE ServerNext /\ UNCHANGED <<path, res, inode, got, gone, files>>
  BY <1>0, <1>2
<1>3. /\ NoResponse \in ResType /\ NoInode \in InodeType
      /\ \A s \in Statuses : ErrorResponse(s) \in ResType
      /\ Statuses \subseteq AnyStatus
  BY DEF NoResponse, Response, ErrorResponse, NoInode, ResType, InodeType,
         AnyStatus
<1>4. CASE RefuseMethod
  <2>1. ErrorResponse("405") \in ResType
    BY <1>3 DEF Statuses
  <2>2. res' \in ResType /\ files' = files
    BY <1>4, <2>1, AnswerType DEF RefuseMethod
  <2> QED BY <1>0, <1>4, <2>2 DEF RefuseMethod, clientVars
<1>5. ASSUME NEW p \in Path \cup {NoPath}, NEW next, Stat(p, next)
      PROVE  ReplyType'
  <2>1. NodeAt(p) \in Node /\ (NodeAt(p).kind = "dir" => p \in Path)
    BY <1>0 DEF NodeAt, Absent, Node
  <2>2. path' \in Path \cup {NoPath}
    BY <1>5, <2>1, ServerAssumption DEF Stat
  <2>3. res' \in ResType /\ files' = files
    <3>1. CASE NodeAt(p) = Absent
      <4>1. ErrorResponse("404") \in ResType
        BY <1>3 DEF Statuses
      <4> QED BY <1>5, <3>1, <4>1, AnswerType DEF Stat
    <3>2. CASE NodeAt(p) # Absent
      <4>1. NodeAt(p).size \in Nat
        BY <2>1, NodeType
      <4>2. [NoResponse EXCEPT !.length = NodeAt(p).size] \in ResType
        BY <1>3, <4>1, ResLength
      <4> QED BY <1>5, <3>2, <4>2 DEF Stat, fileVars
    <3> QED BY <3>1, <3>2
  <2> QED BY <1>0, <1>5, <2>2, <2>3 DEF Stat, clientVars
<1>6. CASE StatTarget
  <2>1. PathOf(req.target) \in Path \cup {NoPath}
    BY DEF PathOf
  <2> QED BY <1>5, <1>6, <2>1 DEF StatTarget
<1>7. CASE StatIndex
  BY <1>0, <1>5, <1>7 DEF StatIndex
<1>8. CASE OpenFails
  <2>1. ErrorResponse("403") \in ResType
    BY <1>3 DEF Statuses
  <2>2. res' \in ResType /\ files' = files
    BY <1>8, <2>1, AnswerType DEF OpenFails
  <2> QED BY <1>0, <1>8, <2>2 DEF OpenFails, clientVars
<1>9. CASE Open
  <2>1. Response("200", res.length, req.method = "GET") \in ResType
    <3>1. res.length \in Nat
      BY <1>0 DEF ResType
    <3> QED BY <3>1 DEF Response, ResType, AnyStatus, Statuses
  <2>2. res' \in ResType /\ files' = files
    BY <1>9, <2>1, AnswerType DEF Open
  <2>3. NodeAt(path) \in Node
    BY <1>0 DEF NodeAt, Absent, Node
  <2>4. [path |-> path, kind |-> NodeAt(path).kind,
         size |-> NodeAt(path).size] \in InodeType
    BY <1>0, <2>3, NodeType DEF InodeType
  <2>5. inode' \in InodeType
    BY <1>0, <1>9, <2>4 DEF Open
  <2> QED BY <1>0, <1>9, <2>2, <2>5 DEF Open, clientVars
<1>10. CASE Crash \/ Close
  BY <1>0, <1>3, <1>10 DEF Crash, Close, Fails, fileVars
<1>11. CASE Destroy
  BY <1>0, <1>3, <1>11 DEF Destroy, Destroys, clientVars, fileVars
<1>12. ASSUME NEW l, NEW g \in GotType, Sends(l, g)
       PROVE  ReplyType'
  BY <1>0, <1>12, SendsType DEF Sends, replyVars, clientVars, fileVars
<1>13. ASSUME cur \in Client
       PROVE  got[cur] \in GotType
  BY <1>0, <1>13
<1>14. BodyNow \in Nat /\ Larger(SocketBuffer, BodyNow) \in Nat
  <2>1. inode.size \in Nat /\ res.length \in Nat
    BY <1>0 DEF InodeType, ResType
  <2> QED BY <2>1, ServerAssumption DEF BodyNow, Smaller, Larger
<1>15. CASE Send400 \/ Send505
  <2>1. \A s \in AnyStatus :
          [Nothing EXCEPT !.status = s, !.headers = TRUE] \in GotType
    BY GotRefusal
  <2>2. {"400", "505"} \subseteq AnyStatus
    BY DEF AnyStatus, Statuses
  <2> QED BY <1>12, <1>15, <2>1, <2>2 DEF Send400, Send505
<1>16. CASE SendStatus \/ SendHeaders \/ SendBody
  <2>1. cur \in Client
    BY <1>0, <1>16 DEF Types, LoopType, SendStatus, SendHeaders, SendBody, Idle
  <2>2. res.status \in AnyStatus /\ res.length \in Nat
    BY <1>0 DEF ResType
  <2>3. CASE SendStatus
    BY <1>12, <1>13, <2>1, <2>2, <2>3, GotStatus DEF SendStatus
  <2>4. CASE SendHeaders
    BY <1>12, <1>13, <2>1, <2>2, <2>4, GotLength DEF SendHeaders
  <2>5. CASE SendBody
    BY <1>12, <1>13, <1>14, <2>1, <2>5, GotBody, ServerAssumption
    DEF SendBody
  <2> QED BY <1>16, <2>3, <2>4, <2>5
<1>17. ASSUME NEW c \in Client, Drain(c)
       PROVE  ReplyType'
  BY <1>0, <1>12, <1>14, <1>17, GotBody DEF Drain
<1>18. CASE SigintWakes
  <2>1. CASE got' = got
    BY <1>0, <1>18, <2>1 DEF SigintWakes, replyVars, clientVars, fileVars
  <2>2. CASE got' # got
    <3>1. cur \in Client
      BY <1>0, <1>18, <2>2 DEF Types, LoopType, SigintWakes, Idle
    <3>2. PICK n \in SocketBuffer .. Larger(SocketBuffer, BodyNow) :
                  got' = [got EXCEPT ![cur].body = n]
      BY <1>18, <2>2 DEF SigintWakes
    <3>3. n \in Nat
      BY <1>14, ServerAssumption
    <3>4. [got[cur] EXCEPT !.body = n] \in GotType
      BY <1>13, <3>1, <3>3, GotBody
    <3>5. got' \in [Client -> GotType]
      BY <1>0, <3>2, <3>4
    <3> QED
      BY <1>0, <1>18, <3>5 DEF SigintWakes, replyVars, clientVars, fileVars
  <2> QED BY <2>1, <2>2
<1>19. ASSUME NEW c \in Client, HangUp(c)
       PROVE  ReplyType'
  BY <1>0, <1>19 DEF HangUp, replyVars, fileVars
<1>20. ASSUME NEW p \in Path, NEW n \in FileNodes,
              WriteFile(p, n) \/ ReplaceFile(p, n)
       PROVE  ReplyType'
  <2>1. n \in Node /\ n.size \in Nat
    BY NodeType, ServerAssumption
  <2>2. /\ [inode EXCEPT !.size = n.size] \in InodeType
        /\ [inode EXCEPT !.path = NoPath] \in InodeType
    BY <1>0, <2>1, InodeKept
  <2>3. inode' \in InodeType /\ files' \in [Path -> Node]
    BY <1>0, <1>20, <2>1, <2>2 DEF WriteFile, ReplaceFile, Edit
  <2> QED
    BY <1>0, <1>20, <2>3 DEF WriteFile, ReplaceFile, Edit, clientVars
<1>21. ASSUME NEW c \in Client, Send(c) \/ \E r \in Requests : Connect(c, r)
       PROVE  ReplyType'
  BY <1>1, <1>21 DEF Send, Connect, fileVars
<1>22. CASE Sigint \/ UNCHANGED vars
  BY <1>1, <1>22 DEF Sigint, vars, clientVars, fileVars
<1>23. CASE TestActif \/ AcceptBlocks \/ RecvBlocks \/ RecvEnd \/ RefuseHost
            \/ RefuseVersion \/ Log505 \/ SendFails \/ LogResponse
            \/ Accept \/ AcceptFails \/ Exit \/ Recv
            \/ ParseRequest
  <2>1. UNCHANGED <<path, res, inode, got, gone, files>>
    BY <1>23
    DEF TestActif, AcceptBlocks, RecvBlocks, RecvEnd, RefuseHost,
        RefuseVersion, Log505, SendFails, LogResponse, Accept, AcceptFails,
        AcceptFailing, Exit, Recv, Takes, ParseRequest, Only, Prints, Fails,
        replyVars, clientVars, fileVars
  <2> QED BY <1>0, <2>1
<1> HIDE DEF ReplyType
<1> QED
  BY <1>4, <1>6, <1>7, <1>8, <1>9, <1>10, <1>11, <1>15, <1>16, <1>17, <1>18,
     <1>19, <1>20, <1>21, <1>22, <1>23 DEF Next, ServerNext, ClientNext

LEMMA ClientTypeKept ==
    ASSUME Types, [Next]_vars
    PROVE  ClientType'
<1> USE ServerAssumption
        DEF Types, LoopType, ClientType, Idle, PCs, ServedPCs, IdlePCs,
            BeforePCs, AnswerPCs, clientVars
<1>1. /\ <<>> \in Seq(Client)
      /\ <<>> \in Seq(STRING)
      /\ <<>> \in Seq(Seq(STRING))
  OBVIOUS
<1>2. CASE UNCHANGED clientVars
  BY <1>2
<1>3. CASE Accept
  BY <1>3 DEF Accept
<1>4. CASE Exit \/ Crash
  <2>1. /\ queue' = <<>> /\ asked' = asked
        /\ todo' = [c \in Client |-> <<>>]
        /\ wire' = [c \in Client |-> <<>>]
    BY <1>4 DEF Exit, Crash
  <2>2. /\ todo' \in [Client -> Seq(Seq(STRING))]
        /\ wire' \in [Client -> Seq(STRING)]
    BY <1>1, <2>1
  <2> QED BY <1>1, <2>1, <2>2
<1>5. CASE Recv
  <2>1. cur \in Client /\ wire[cur] \in Seq(STRING)
    BY <1>5 DEF Recv, Receiving
  <2> DEFINE n == Smaller(Len(wire[cur]), BufferSize)
  <2>2. SubSeq(wire[cur], n + 1, Len(wire[cur])) \in Seq(STRING)
    BY <2>1 DEF Smaller
  <2> QED BY <1>5, <2>1, <2>2 DEF Recv, Takes
<1>6. CASE Close
  BY <1>1, <1>6 DEF Close
<1>7. ASSUME NEW c \in Client, Send(c)
      PROVE  ClientType'
  <2>1. /\ todo[c] \in Seq(Seq(STRING)) /\ todo[c] # <<>>
        /\ wire[c] \in Seq(STRING)
    BY <1>7 DEF Send
  <2>2. /\ Tail(todo[c]) \in Seq(Seq(STRING))
        /\ wire[c] \o Head(todo[c]) \in Seq(STRING)
    BY <2>1
  <2> QED BY <1>7, <2>2 DEF Send
<1>8. ASSUME NEW c \in Client, NEW r \in Requests, Connect(c, r)
      PROVE  ClientType'
  <2>1. r \in Seq(Seq(STRING))
    OBVIOUS
  <2> QED BY <1>8, <2>1 DEF Connect
<1>9. ASSUME NEW c \in Client, HangUp(c)
      PROVE  ClientType'
  BY <1>9 DEF HangUp
<1>10. CASE UNCHANGED vars
  BY <1>10 DEF vars
<1>11. CASE ServerNext /\ ~(Accept \/ Exit \/ Crash \/ Recv \/ Close)
  <2>1. UNCHANGED clientVars
    BY <1>11
    DEF ServerNext, TestActif, AcceptBlocks, AcceptFails, AcceptFailing,
        RecvBlocks, RecvEnd, ParseRequest, RefuseHost, RefuseVersion,
        RefuseMethod, Send400, Send505, Log505, StatTarget, StatIndex, Stat,
        Open, OpenFails, SendStatus, SendHeaders, SendBody, SendFails,
        LogResponse, Destroy, Destroys, Only, Prints, Sends
  <2> QED BY <2>1, <1>2
<1>12. CASE Sigint \/ SigintWakes
  BY <1>12 DEF Sigint, SigintWakes
<1>13. ASSUME NEW c \in Client, Drain(c)
       PROVE  ClientType'
  BY <1>13 DEF Drain, Sends
<1>14. ASSUME NEW p \in Path, NEW n \in FileNodes,
              WriteFile(p, n) \/ ReplaceFile(p, n)
       PROVE  ClientType'
  BY <1>14 DEF WriteFile, ReplaceFile, Edit
<1> QED
  BY <1>3, <1>4, <1>5, <1>6, <1>7, <1>8, <1>9, <1>10, <1>11, <1>12, <1>13,
     <1>14 DEF Next, ClientNext

-----------------------------------------------------------------------------
(* The buffer, the flag and the descriptors.                               *)

BufferInv == Len(buffer) <= BufferSize

LEMMA BufferKept ==
    ASSUME Types, BufferInv, [Next]_vars
    PROVE  BufferInv'
<1> USE ServerAssumption DEF BufferInv
<1>1. CASE Recv
  <2>1. wire[cur] \in Seq(STRING)
    BY <1>1 DEF Types, LoopType, ClientType, Recv, Receiving, Idle
  <2> DEFINE n == Smaller(Len(wire[cur]), BufferSize)
  <2>2. n \in 0 .. Len(wire[cur]) /\ n <= BufferSize
    BY <2>1 DEF Smaller
  <2>3. Len(SubSeq(wire[cur], 1, n)) = n
    BY <2>1, <2>2
  <2> QED BY <1>1, <2>2, <2>3 DEF Recv, Takes
<1>2. CASE ParseRequest
  BY <1>2 DEF ParseRequest
<1>3. CASE ServerNext /\ ~Recv /\ ~ParseRequest
  BY <1>3
  DEF ServerNext, TestActif, Accept, AcceptBlocks, AcceptFails, AcceptFailing,
      Exit, RecvBlocks, RecvEnd, RefuseHost, RefuseVersion, RefuseMethod,
      Send400, Send505, Log505, StatTarget, StatIndex, Stat, Open, OpenFails,
      Crash, SendStatus, SendHeaders, SendBody, SendFails, LogResponse,
      Destroy, Destroys, Close, Only, Prints, Sends, replyVars
<1>4. ASSUME NEW c \in Client, ClientNext(c)
      PROVE  BufferInv'
  BY <1>4 DEF ClientNext, Send, HangUp, Drain, Connect, Sends, replyVars
<1>5. CASE \/ Sigint \/ SigintWakes \/ UNCHANGED vars
           \/ \E p \in Path, n \in FileNodes :
                WriteFile(p, n) \/ ReplaceFile(p, n)
  BY <1>5
  DEF Sigint, SigintWakes, WriteFile, ReplaceFile, Edit, replyVars, vars
<1> QED BY <1>1, <1>2, <1>3, <1>4, <1>5 DEF Next

LEMMA LateKept ==
    ASSUME Types, LateInv, [Next]_vars
    PROVE  LateInv'
<1> USE DEF LateInv, Types, LoopType, loopVars
<1>1. CASE TestActif \/ AcceptBlocks \/ AcceptFails
  <2>1. UNCHANGED <<actif, late>>
    BY <1>1 DEF TestActif, AcceptBlocks, AcceptFails, AcceptFailing, Only
  <2>2. pc' = "accept" => actif
    BY <1>1 DEF TestActif, AcceptBlocks, AcceptFails, AcceptFailing, Only
  <2>3. pc' = "accepting" => pc = "accept"
    BY <1>1 DEF TestActif, AcceptBlocks, AcceptFails, AcceptFailing, Only
  <2>4. pc' \in {"exit", "stopped"} => ~actif
    BY <1>1 DEF TestActif, AcceptBlocks, AcceptFails, AcceptFailing, Only
  <2> QED BY <2>1, <2>2, <2>3, <2>4
<1>2. CASE Accept
  BY <1>2 DEF Accept
<1>3. CASE ServerNext /\ ~(TestActif \/ AcceptBlocks \/ AcceptFails \/ Accept)
  <2>1. UNCHANGED <<actif, late>> /\ pc' \notin {"accept", "accepting", "exit"}
    BY <1>3
    DEF ServerNext, Exit, Recv, Takes, RecvBlocks, RecvEnd, ParseRequest,
        RefuseHost, RefuseVersion, RefuseMethod, Send400, Send505, Log505,
        StatTarget, StatIndex, Stat, Open, OpenFails, Answer, Crash,
        SendStatus, SendHeaders, SendBody, SendFails, LogResponse, Destroy,
        Destroys, Close, Only, Prints, Sends
  <2>2. pc' = "stopped" => pc = "exit"
    BY <1>3
    DEF ServerNext, Exit, Recv, Takes, RecvBlocks, RecvEnd, ParseRequest,
        RefuseHost, RefuseVersion, RefuseMethod, Send400, Send505, Log505,
        StatTarget, StatIndex, Stat, Open, OpenFails, Answer, Crash,
        SendStatus, SendHeaders, SendBody, SendFails, LogResponse, Destroy,
        Destroys, Close, Only, Prints, Sends
  <2> QED BY <2>1, <2>2
<1>4. CASE Sigint \/ SigintWakes
  BY <1>4 DEF Sigint, SigintWakes
<1>5. ASSUME NEW c \in Client, ClientNext(c)
      PROVE  LateInv'
  <2>1. UNCHANGED <<actif, late>> /\ pc' \in {pc, "log"}
    BY <1>5 DEF ClientNext, Send, HangUp, Drain, Connect, Sends
  <2> QED BY <2>1
<1>6. CASE \/ UNCHANGED vars
           \/ \E p \in Path, n \in FileNodes :
                WriteFile(p, n) \/ ReplaceFile(p, n)
  BY <1>6 DEF WriteFile, ReplaceFile, Edit, vars
<1> QED BY <1>1, <1>2, <1>3, <1>4, <1>5, <1>6 DEF Next

LEMMA FdKept ==
    ASSUME Types, FdInv, [Next]_vars
    PROVE  FdInv'
<1> USE DEF FdInv, IdlePCs, ServedPCs, BeforePCs, AnswerPCs, replyVars
<1>1. CASE TestActif \/ AcceptBlocks \/ AcceptFails \/ Accept \/ Exit
  BY <1>1
  DEF TestActif, AcceptBlocks, AcceptFails, AcceptFailing, Accept, Exit, Only
<1>2. CASE Recv \/ RecvBlocks \/ RecvEnd \/ ParseRequest
  BY <1>2 DEF Recv, Receiving, Takes, RecvBlocks, RecvEnd, ParseRequest, Only
<1>3. CASE RefuseHost \/ RefuseVersion \/ Send400 \/ Send505 \/ Log505
  BY <1>3
  DEF RefuseHost, RefuseVersion, Send400, Send505, Log505, Only, Prints, Sends
<1>4. ASSUME NEW r, Answer(r)
      PROVE  pc' = "status" /\ (r \in ResType => res'.body = r.body)
  BY <1>4, AnswerType DEF Answer
<1>5. \A s \in Statuses : /\ ErrorResponse(s) \in ResType
                          /\ ErrorResponse(s).body = FALSE
  BY DEF ErrorResponse, Response, ResType, AnyStatus
<1>6. CASE RefuseMethod \/ OpenFails
  BY <1>4, <1>5, <1>6 DEF RefuseMethod, OpenFails, Serve, Statuses
<1>7. CASE StatTarget \/ StatIndex
  <2>1. PICK p, next : Stat(p, next) /\ next \in {"stat_index", "open"}
    BY <1>7 DEF StatTarget, StatIndex
  <2>2. fds' = fds /\ fds = {"client"}
    BY <1>7, <2>1 DEF StatTarget, StatIndex, Serve, Stat
  <2>3. CASE NodeAt(p) = Absent
    BY <1>4, <1>5, <2>1, <2>2, <2>3 DEF Stat, Statuses
  <2>4. CASE NodeAt(p) # Absent
    BY <2>1, <2>2, <2>4 DEF Stat
  <2> QED BY <2>3, <2>4
<1>8. CASE Open
  <2>1. Response("200", res.length, req.method = "GET") \in ResType
    BY DEF Types, ReplyType, Response, ResType, AnyStatus, Statuses
  <2>2. pc' = "status" /\ res'.body = (req.method = "GET")
    BY <1>4, <1>8, <2>1 DEF Open, Response
  <2> QED BY <1>8, <2>2 DEF Open
<1>9. CASE Crash
  BY <1>9 DEF Crash
<1>10. CASE SendStatus \/ SendHeaders \/ SendBody \/ SendFails \/ LogResponse
  BY <1>10
  DEF SendStatus, SendHeaders, SendBody, SendFails, LogResponse, Only, Prints,
      Sends
<1>11. CASE Destroy \/ Close
  BY <1>11 DEF Destroy, Destroys, Close
<1>12. CASE Sigint \/ SigintWakes
  BY <1>12 DEF Sigint, SigintWakes
<1>13. ASSUME NEW c \in Client, ClientNext(c)
       PROVE  FdInv'
  BY <1>13 DEF ClientNext, Send, HangUp, Drain, Connect, Sends
<1>14. CASE \/ UNCHANGED vars
            \/ \E p \in Path, n \in FileNodes :
                 WriteFile(p, n) \/ ReplaceFile(p, n)
  BY <1>14 DEF WriteFile, ReplaceFile, Edit, vars
<1> HIDE DEF FdInv
<1> QED
  BY <1>1, <1>2, <1>3, <1>6, <1>7, <1>8, <1>9, <1>10, <1>11, <1>12, <1>13,
     <1>14 DEF Next, ServerNext

-----------------------------------------------------------------------------
(* The clients: one that waits has been sent nothing, and waits once.      *)

QueueInv ==
    /\ \A c \in Client : asked[c] = <<>> =>
         got[c] = Nothing /\ c # cur /\ \A i \in DOMAIN queue : queue[i] # c
    /\ \A i \in DOMAIN queue : got[queue[i]] = Nothing /\ queue[i] # cur
    /\ \A i, j \in DOMAIN queue : queue[i] = queue[j] => i = j

LEMMA QueueKept ==
    ASSUME Types, QueueInv, [Next]_vars
    PROVE  QueueInv'
<1> USE DEF QueueInv
<1>0. /\ queue \in Seq(Client) /\ got \in [Client -> GotType]
      /\ asked \in [Client -> Seq(Seq(STRING))]
      /\ cur \in IF Idle THEN {NoClient} ELSE Client
  BY DEF Types, LoopType, ReplyType, ClientType
<1>1. CASE Accept
  <2>1. /\ queue # <<>> /\ queue' = Tail(queue) /\ cur' = Head(queue)
        /\ UNCHANGED <<asked, got>>
    BY <1>1 DEF Accept
  <2>2. /\ \A i \in DOMAIN queue' :
             i + 1 \in DOMAIN queue /\ queue'[i] = queue[i + 1]
        /\ 1 \in DOMAIN queue /\ cur' = queue[1]
        /\ DOMAIN queue \subseteq Nat \ {0}
        /\ DOMAIN queue' \subseteq Nat \ {0}
    BY <1>0, <2>1
  <2> QED BY <2>1, <2>2
<1>2. ASSUME NEW c \in Client, NEW r \in Requests, Connect(c, r)
      PROVE  QueueInv'
  <2>1. /\ asked[c] = <<>> /\ asked' = [asked EXCEPT ![c] = r]
        /\ queue' = Append(queue, c) /\ UNCHANGED <<cur, got>>
    BY <1>2 DEF Connect
  <2>2. r # <<>>
    BY ServerAssumption
  <2>3. \A i \in DOMAIN queue' :
          \/ i \in DOMAIN queue /\ queue'[i] = queue[i]
          \/ i = Len(queue) + 1 /\ i \notin DOMAIN queue /\ queue'[i] = c
    BY <1>0, <2>1
  <2> QED BY <1>0, <2>1, <2>2, <2>3
<1>3. ASSUME queue' \in {queue, <<>>}, asked' = asked,
             cur' \in {cur, NoClient},
             \A c \in Client \ {cur} : got'[c] = got[c]
      PROVE  QueueInv'
  <2>1. \A i \in DOMAIN queue' :
          i \in DOMAIN queue /\ queue'[i] = queue[i] /\ queue[i] \in Client
    BY <1>0, <1>3
  <2> QED BY <1>0, <1>3, <2>1, ServerAssumption
<1>4. ASSUME NEW l, NEW g, Sends(l, g)
      PROVE  QueueInv'
  BY <1>0, <1>3, <1>4 DEF Sends, clientVars
<1>5. CASE Send400 \/ Send505 \/ SendStatus \/ SendHeaders \/ SendBody
  BY <1>4, <1>5 DEF Send400, Send505, SendStatus, SendHeaders, SendBody
<1>6. CASE Exit \/ Crash \/ Close
  BY <1>3, <1>6 DEF Exit, Crash, Close
<1>7. ASSUME NEW c \in Client, Send(c) \/ HangUp(c) \/ Drain(c)
      PROVE  QueueInv'
  BY <1>3, <1>4, <1>7 DEF Send, HangUp, Drain
<1>8. CASE SigintWakes
  <2>1. \A c \in Client \ {cur} : got'[c] = got[c]
    BY <1>0, <1>8 DEF SigintWakes
  <2> QED BY <1>3, <1>8, <2>1 DEF SigintWakes, clientVars
<1>9. CASE \/ UNCHANGED vars \/ Sigint
           \/ \E p \in Path, n \in FileNodes :
                WriteFile(p, n) \/ ReplaceFile(p, n)
  BY <1>3, <1>9 DEF Sigint, WriteFile, ReplaceFile, Edit, vars, clientVars
<1>10. CASE TestActif \/ AcceptBlocks \/ AcceptFails \/ Recv \/ RecvBlocks
            \/ RecvEnd \/ ParseRequest \/ RefuseHost \/ RefuseVersion
            \/ RefuseMethod \/ Log505 \/ StatTarget \/ StatIndex \/ Open
            \/ OpenFails \/ SendFails \/ LogResponse \/ Destroy
  <2>1. UNCHANGED <<queue, asked, cur, got>>
    BY <1>10
    DEF TestActif, AcceptBlocks, AcceptFails, AcceptFailing, Recv, Takes,
        RecvBlocks, RecvEnd, ParseRequest, RefuseHost, RefuseVersion,
        RefuseMethod, Log505, StatTarget, StatIndex, Stat, Open, OpenFails,
        SendFails, LogResponse, Destroy, Destroys, Only, Prints, clientVars
  <2> QED BY <1>3, <2>1
<1> HIDE DEF QueueInv
<1> QED
  BY <1>1, <1>2, <1>5, <1>6, <1>7, <1>8, <1>9, <1>10
  DEF Next, ServerNext, ClientNext

-----------------------------------------------------------------------------
(* The reply: what has been sent to cur at each call, and how it relates   *)
(* to the response.                                                        *)

StatusInv ==
    /\ pc \in BeforePCs => got[cur] = Nothing
    /\ pc \in AnswerPCs => /\ res.status \in Statuses
                           /\ res.body => res.status \in {"200", "000"}
    /\ pc \in {"body", "sending"} => res.body

LengthInv ==
    /\ pc = "headers" => ~got[cur].headers
    /\ pc \in {"headers", "body"} => got[cur].body = 0
    /\ pc \in {"body", "sending"} /\ cur \notin gone =>
         got[cur].status = res.status
    /\ pc = "headers" /\ cur \notin gone => got[cur].status = res.status
    /\ pc \in {"body", "sending"} /\ got[cur].headers =>
         got[cur].length = res.length
    /\ pc = "sending" => SocketBuffer <= res.length

LEMMA StatusKept ==
    ASSUME Types, QueueInv, StatusInv, [Next]_vars
    PROVE  StatusInv'
<1> USE DEF StatusInv, BeforePCs, AnswerPCs
<1>0. /\ queue \in Seq(Client) /\ got \in [Client -> GotType]
      /\ cur \in IF Idle THEN {NoClient} ELSE Client
      /\ res \in ResType
  BY DEF Types, LoopType, ReplyType, ClientType
<1>1. CASE Accept
  <2>1. Head(queue) = queue[1] /\ 1 \in DOMAIN queue
    BY <1>0, <1>1 DEF Accept
  <2> QED BY <1>1, <2>1 DEF Accept, QueueInv
<1>2. CASE TestActif \/ AcceptBlocks \/ AcceptFails \/ Exit \/ RecvEnd
           \/ RefuseVersion \/ Log505 \/ Destroy \/ Close \/ Crash
  BY <1>2
  DEF TestActif, AcceptBlocks, AcceptFails, AcceptFailing, Exit, RecvEnd,
      RefuseVersion, Log505, Destroy, Destroys, Close, Crash, Only, replyVars
<1>3. CASE Recv \/ RecvBlocks \/ ParseRequest \/ RefuseHost
  BY <1>3
  DEF Recv, Receiving, Takes, RecvBlocks, ParseRequest, RefuseHost, Only,
      Prints
<1>4. ASSUME NEW r \in ResType, Answer(r), r.status \in Statuses,
             r.body => r.status = "200"
      PROVE  /\ pc' = "status" /\ res'.status \in Statuses
             /\ res'.body => res'.status \in {"200", "000"}
  BY <1>4, AnswerType DEF Statuses
<1>5. \A s \in Statuses :
        /\ ErrorResponse(s) \in ResType
        /\ ErrorResponse(s).status = s /\ ErrorResponse(s).body = FALSE
  BY DEF ErrorResponse, Response, ResType, AnyStatus
<1>6. CASE RefuseMethod \/ OpenFails
  <2>1. PICK s \in Statuses : Answer(ErrorResponse(s))
    BY <1>6 DEF RefuseMethod, OpenFails, Statuses
  <2>2. UNCHANGED <<cur, got>> /\ got[cur] = Nothing
    BY <1>6 DEF RefuseMethod, OpenFails, Serve
  <2> QED BY <1>4, <1>5, <2>1, <2>2
<1>7. CASE StatTarget \/ StatIndex
  <2>1. PICK p, next : Stat(p, next) /\ next \in {"stat_index", "open"}
    BY <1>7 DEF StatTarget, StatIndex
  <2>2. UNCHANGED <<cur, got>> /\ got[cur] = Nothing
    BY <1>7, <2>1 DEF StatTarget, StatIndex, Serve, Stat
  <2>3. CASE NodeAt(p) = Absent
    <3>1. Answer(ErrorResponse("404")) /\ "404" \in Statuses
      BY <2>1, <2>3 DEF Stat, Statuses
    <3> QED BY <1>4, <1>5, <2>2, <3>1
  <2>4. CASE NodeAt(p) # Absent
    BY <2>1, <2>2, <2>4 DEF Stat
  <2> QED BY <2>3, <2>4
<1>8. CASE Open
  <2> DEFINE r == Response("200", res.length, req.method = "GET")
  <2>1. r \in ResType /\ r.status = "200" /\ "200" \in Statuses
    BY <1>0 DEF Response, ResType, AnyStatus, Statuses
  <2>2. Answer(r) /\ UNCHANGED <<cur, got>> /\ got[cur] = Nothing
    BY <1>8 DEF Open
  <2> HIDE DEF r
  <2> QED BY <1>4, <2>1, <2>2
<1>9. CASE Send400 \/ Send505
  BY <1>9 DEF Send400, Send505, Sends
<1>10. CASE SendStatus \/ SendHeaders \/ SendBody \/ SendFails \/ LogResponse
  <2>1. /\ res' = res /\ pc \in AnswerPCs /\ pc' \in AnswerPCs \ {"status"}
        /\ pc' \in {"body", "sending"} => res.body
    BY <1>10
    DEF SendStatus, SendHeaders, SendBody, SendFails, LogResponse, Sends, Only,
        Prints, replyVars
  <2> QED BY <2>1
<1>11. CASE SigintWakes
  BY <1>11 DEF SigintWakes, replyVars
<1>12. ASSUME NEW c \in Client, Drain(c)
       PROVE  StatusInv'
  BY <1>12 DEF Drain, Sends, replyVars
<1>13. ASSUME UNCHANGED <<pc, cur, res, got>>
       PROVE  StatusInv'
  BY <1>13
<1>14. ASSUME NEW c \in Client,
              Send(c) \/ HangUp(c) \/ \E r \in Requests : Connect(c, r)
       PROVE  StatusInv'
  BY <1>13, <1>14 DEF Send, HangUp, Connect, replyVars
<1>15. CASE \/ UNCHANGED vars \/ Sigint
            \/ \E p \in Path, n \in FileNodes :
                 WriteFile(p, n) \/ ReplaceFile(p, n)
  BY <1>13, <1>15 DEF Sigint, WriteFile, ReplaceFile, Edit, vars, replyVars
<1> HIDE DEF StatusInv
<1> QED
  BY <1>1, <1>2, <1>3, <1>6, <1>7, <1>8, <1>9, <1>10, <1>11, <1>12, <1>14,
     <1>15 DEF Next, ServerNext, ClientNext

LEMMA LengthKept ==
    ASSUME Types, StatusInv, LengthInv, BodyWithinLength, [Next]_vars
    PROVE  LengthInv' /\ BodyWithinLength'
<1> DEFINE Goal == LengthInv' /\ BodyWithinLength'
<1> USE DEF LengthInv, BodyWithinLength
<1>0. /\ got \in [Client -> GotType]
      /\ cur \in IF Idle THEN {NoClient} ELSE Client
      /\ res \in ResType /\ gone \subseteq Client
      /\ \A c \in Client : got[c] \in GotType
  BY DEF Types, LoopType, ReplyType
<1>1. ASSUME got' = got, pc' \notin {"headers", "body", "sending"}
      PROVE  Goal
  BY <1>1
<1>2. ASSUME UNCHANGED <<pc, cur, res, got>>, gone \subseteq gone'
      PROVE  Goal
  BY <1>2
<1>3. CASE Send400 \/ Send505
  <2>1. PICK s \in {"400", "505"} :
             /\ cur \in Client
             /\ \/ got' = got
                \/ got' = [got EXCEPT ![cur] = [Nothing EXCEPT
                                !.status = s, !.headers = TRUE]]
    BY <1>0, <1>3 DEF Send400, Send505, Sends, Idle
  <2>2. pc' \in {"close", "log_505"}
    BY <1>3 DEF Send400, Send505, Sends
  <2>3. /\ \A c \in Client \ {cur} : got'[c] = got[c]
        /\ got'[cur] = got[cur] \/ got'[cur].body = 0
        /\ got'[cur] = got[cur] \/ got'[cur].length = 0
    BY <1>0, <2>1 DEF Nothing
  <2> QED BY <2>1, <2>2, <2>3
<1>4. CASE SendStatus
  <2>1. /\ cur \in Client /\ got[cur] = Nothing
        /\ pc' = "headers" /\ UNCHANGED <<cur, res, gone>>
        /\ got' = IF cur \in gone THEN got
                  ELSE [got EXCEPT ![cur] = [got[cur] EXCEPT
                                               !.status = res.status]]
    BY <1>0, <1>4
    DEF SendStatus, Sends, Idle, StatusInv, BeforePCs, replyVars, clientVars
  <2> QED BY <1>0, <2>1 DEF Nothing, GotType
<1>5. CASE SendHeaders
  <2>1. /\ cur \in Client /\ pc = "headers"
        /\ pc' \in {"body", "log"} /\ UNCHANGED <<cur, res, gone>>
        /\ \/ got' = got
           \/ /\ res.headers /\ cur \notin gone
              /\ got' = [got EXCEPT ![cur] = [got[cur] EXCEPT
                            !.length = res.length, !.headers = TRUE]]
    BY <1>0, <1>5 DEF SendHeaders, Sends, Idle, replyVars, clientVars
  <2>2. res.length \in Nat
    BY <1>0 DEF ResType
  <2>3. CASE got' = got
    BY <1>0, <2>1, <2>3
  <2>4. CASE got' # got
    <3>1. /\ \A c \in Client \ {cur} : got'[c] = got[c]
          /\ got'[cur].status = got[cur].status
          /\ got'[cur].body = got[cur].body
          /\ got'[cur].length = res.length
      BY <1>0, <2>1, <2>4 DEF GotType
    <3> QED BY <1>0, <2>1, <2>2, <3>1
  <2> QED BY <2>3, <2>4
<1>6. /\ BodyNow \in Nat /\ BodyNow <= res.length /\ res.length \in Nat
      /\ SocketBuffer \in Nat
  <2>1. inode.size \in Nat /\ res.length \in Nat
    BY DEF Types, ReplyType, InodeType, ResType
  <2> QED BY <2>1, ServerAssumption DEF BodyNow, Smaller
<1>7. ASSUME cur \in Client, pc \in {"body", "sending"},
             pc' \in {"sending", "log"}, UNCHANGED <<cur, res, gone>>,
             pc' = "sending" => SocketBuffer <= res.length,
             NEW n \in Nat, n <= res.length,
             \/ got' = got
             \/ /\ cur \notin gone
                /\ got' = [got EXCEPT ![cur] = [got[cur] EXCEPT !.body = n]]
      PROVE  Goal
  <2>1. res.status \in {"200", "000"}
    <3>1. res.body /\ pc \in AnswerPCs
      BY <1>7 DEF StatusInv, AnswerPCs
    <3> QED BY <3>1 DEF StatusInv
  <2> QED BY <1>0, <1>7, <2>1 DEF GotType
<1>8. CASE SendBody
  <2>1. cur \in Client /\ pc = "body" /\ UNCHANGED <<cur, res, gone>>
    BY <1>0, <1>8 DEF SendBody, Sends, Idle, replyVars, clientVars
  <2>2. CASE BodyNow <= SocketBuffer
    BY <1>6, <1>7, <1>8, <2>1, <2>2 DEF SendBody, Sends
  <2>3. CASE ~(BodyNow <= SocketBuffer)
    BY <1>6, <1>7, <1>8, <2>1, <2>3 DEF SendBody, Sends
  <2> QED BY <2>2, <2>3
<1>9. ASSUME NEW c \in Client, Drain(c)
      PROVE  Goal
  <2> DEFINE n == Larger(SocketBuffer, BodyNow)
  <2>1. /\ cur \in Client /\ pc = "sending" /\ pc' = "log"
        /\ cur \notin gone /\ UNCHANGED <<cur, res, gone>>
        /\ got' = [got EXCEPT ![cur] = [got[cur] EXCEPT !.body = n]]
    BY <1>9 DEF Drain, Sends, replyVars, clientVars
  <2>2. n \in Nat /\ n <= res.length
    BY <1>6, <2>1 DEF Larger
  <2> HIDE DEF n
  <2> QED BY <1>7, <2>1, <2>2
<1>10. CASE SigintWakes
  <2>1. CASE pc # "sending"
    BY <1>1, <1>10, <2>1 DEF SigintWakes
  <2>2. CASE pc = "sending"
    <3>1. PICK n \in SocketBuffer .. Larger(SocketBuffer, BodyNow) :
                 got' = [got EXCEPT ![cur].body = n]
      BY <1>10, <2>2 DEF SigintWakes
    <3>2. /\ cur \in Client /\ cur \notin gone /\ pc' = "log"
          /\ UNCHANGED <<cur, res, gone>>
      BY <1>0, <1>10, <2>2
      DEF SigintWakes, Blocked, Idle, replyVars, clientVars
    <3>3. n \in Nat /\ n <= res.length
      BY <1>6, <2>2, <3>1 DEF Larger
    <3> QED BY <1>7, <2>2, <3>1, <3>2, <3>3
  <2> QED BY <2>1, <2>2
<1>11. CASE TestActif \/ AcceptBlocks \/ AcceptFails \/ Accept \/ Exit \/ Recv
            \/ RecvBlocks \/ RecvEnd \/ ParseRequest \/ RefuseHost
            \/ RefuseVersion \/ RefuseMethod \/ Log505 \/ StatTarget
            \/ StatIndex \/ Open \/ OpenFails \/ Crash \/ SendFails
            \/ LogResponse \/ Destroy \/ Close
  <2>1. got' = got /\ pc' \notin {"headers", "body", "sending"}
    BY <1>11
    DEF TestActif, AcceptBlocks, AcceptFails, AcceptFailing, Accept, Exit,
        Recv, Takes, RecvBlocks, RecvEnd, ParseRequest, RefuseHost,
        RefuseVersion, RefuseMethod, Log505, StatTarget, StatIndex, Stat, Open,
        OpenFails, Answer, Crash, SendFails, LogResponse, Destroy, Destroys,
        Close, Only, Prints
  <2> QED BY <1>1, <2>1
<1>12. ASSUME NEW c \in Client,
              Send(c) \/ HangUp(c) \/ \E r \in Requests : Connect(c, r)
       PROVE  Goal
  BY <1>0, <1>2, <1>12 DEF Send, HangUp, Connect, replyVars
<1>13. CASE \/ UNCHANGED vars \/ Sigint
            \/ \E p \in Path, n \in FileNodes :
                 WriteFile(p, n) \/ ReplaceFile(p, n)
  BY <1>2, <1>13
  DEF Sigint, WriteFile, ReplaceFile, Edit, vars, replyVars, clientVars
<1> HIDE DEF LengthInv, BodyWithinLength
<1> QED
  BY <1>3, <1>4, <1>5, <1>8, <1>9, <1>10, <1>11, <1>12, <1>13
  DEF Next, ServerNext, ClientNext

-----------------------------------------------------------------------------
(* The theorems.                                                           *)

IInv ==
    /\ Types /\ BufferInv /\ LateInv /\ FdInv
    /\ QueueInv /\ StatusInv /\ LengthInv /\ BodyWithinLength

LEMMA IInvInit == Init => IInv
<1> SUFFICES ASSUME Init PROVE IInv
  OBVIOUS
<1>1. Types
  BY InitTypes
<1>2. BufferInv /\ LateInv /\ FdInv
  BY ServerAssumption
  DEF Init, BufferInv, LateInv, FdInv, IdlePCs, ServedPCs, BeforePCs, AnswerPCs
<1>3. QueueInv
  BY ServerAssumption DEF Init, QueueInv
<1>4. StatusInv /\ LengthInv
  BY DEF Init, StatusInv, LengthInv, BeforePCs, AnswerPCs
<1>5. BodyWithinLength
  BY DEF Init, BodyWithinLength, Nothing
<1> QED BY <1>1, <1>2, <1>3, <1>4, <1>5 DEF IInv

LEMMA IInvNext == IInv /\ [Next]_vars => IInv'
BY LoopTypeKept, ReplyTypeKept, ClientTypeKept, BufferKept, LateKept, FdKept,
   QueueKept, StatusKept, LengthKept DEF IInv, Types

LEMMA Invariance == Spec => []IInv
BY IInvInit, IInvNext, PTL DEF Spec

\* The variables keep their types; in particular recv never overruns the
\* buffer of gerer_client, and one connection at most is accepted late.
THEOREM TypeCorrect == Spec => []TypeOK
<1>1. IInv => TypeOK
  BY DEF IInv, Types, LoopType, ReplyType, BufferInv, LateInv, FdInv, TypeOK,
         PCs, IdlePCs, ServedPCs, BeforePCs, AnswerPCs, ResType, GotType,
         AnyStatus
<1> QED BY <1>1, Invariance, PTL

\* gerer_client closes every descriptor, whichever way it returns.
THEOREM NothingLeaks == Spec => []NoLeak
<1>1. IInv => NoLeak
  BY DEF IInv, FdInv, NoLeak, Idle, IdlePCs
<1> QED BY <1>1, Invariance, PTL

\* No client gets more of a body than Content-Length announced.
THEOREM BodyBounded == Spec => []BodyWithinLength
BY Invariance, PTL DEF IInv

-----------------------------------------------------------------------------
(* Server implements OneReply: every step is one of its steps or changes   *)
(* none of its variables.                                                  *)

InService == IF Idle \/ Ended THEN {} ELSE {cur}
StatusOf == [c \in Client |-> got[c].status]

\* The control states in which the server runs and serves nobody.
FreePCs == IdlePCs \ {"stopped"}

LEMMA PromiseInit == Init => Promise!Init
BY DEF Init, Promise!Init, Idle, Ended, Nothing

\* A step within gerer_client, or outside it, that sends no status line.
LEMMA PromiseStutters ==
    ASSUME UNCHANGED <<queue, actif, cur, StatusOf>>,
           \/ pc' = pc
           \/ pc \in ServedPCs /\ pc' \in ServedPCs
           \/ pc \in FreePCs /\ pc' \in FreePCs
    PROVE  UNCHANGED Promise!vars
<1>1. Ended' = Ended /\ InService' = InService
  BY DEF Ended, InService, Idle, FreePCs, IdlePCs, ServedPCs, BeforePCs,
         AnswerPCs
<1> QED BY <1>1 DEF Promise!vars, InService, StatusOf

\* A call that sends something to cur.
LEMMA PromiseSends ==
    ASSUME IInv, NEW l \in ServedPCs, NEW g, Sends(l, g), pc \in ServedPCs,
           \/ g.status = got[cur].status
           \/ got[cur].status = NoStatus /\ g.status \in Statuses
    PROVE  [Promise!Next]_(Promise!vars)
<1>1. /\ cur \in Client /\ got \in [Client -> GotType]
      /\ pc' \in ServedPCs /\ UNCHANGED <<queue, actif, cur>>
  BY DEF IInv, Types, LoopType, ReplyType, Sends, Idle, ServedPCs,
         BeforePCs, AnswerPCs, loopVars, clientVars
<1>2. CASE got' = got \/ g.status = got[cur].status
  <2>1. StatusOf' = StatusOf
    BY <1>1, <1>2 DEF StatusOf, Sends
  <2> QED BY <1>1, <2>1, PromiseStutters
<1>3. CASE got' # got /\ got[cur].status = NoStatus /\ g.status \in Statuses
  <2>1. got' = [got EXCEPT ![cur] = g]
    BY <1>3 DEF Sends
  <2>2. StatusOf' = [StatusOf EXCEPT ![cur] = g.status]
    BY <1>1, <2>1 DEF StatusOf
  <2>3. /\ ~Idle /\ ~Ended /\ ~Idle' /\ ~Ended'
    BY <1>1 DEF Idle, Ended, ServedPCs, BeforePCs, AnswerPCs
  <2>4. /\ InService = {cur} /\ InService' = {cur} /\ Ended' = Ended
    BY <1>1, <2>3 DEF InService, Ended
  <2>5. Promise!Reply(cur, g.status)
    BY <1>1, <1>3, <2>2, <2>4 DEF Promise!Reply, StatusOf, InService
  <2> QED BY <1>1, <1>3, <2>5 DEF Promise!Next
<1> QED BY <1>2, <1>3 DEF Sends

\* The steps that take a client, let it go, or end the server.
LEMMA PromiseTurns ==
    ASSUME IInv, Accept \/ Close \/ Exit \/ Crash
    PROVE  Promise!Next
<1>0. /\ queue \in Seq(Client)
      /\ cur \in IF Idle THEN {NoClient} ELSE Client
  BY DEF IInv, Types, LoopType, ClientType
<1>1. CASE Accept
  <2>1. /\ InService = {} /\ InService' = {Head(queue)} /\ Ended' = Ended
        /\ queue # <<>> /\ queue' = Tail(queue) /\ UNCHANGED <<actif, got>>
    BY <1>1 DEF Accept, InService, Idle, Ended
  <2>2. Promise!Take
    BY <2>1 DEF Promise!Take, InService
  <2> QED BY <2>2 DEF Promise!Next
<1>2. CASE Close
  <2>1. /\ InService = {cur} /\ InService' = {} /\ Ended' = Ended
        /\ UNCHANGED <<queue, actif, got>>
    BY <1>2 DEF Close, InService, Idle, Ended, loopVars
  <2>2. Promise!Done
    BY <2>1 DEF Promise!Done, InService
  <2> QED BY <2>2 DEF Promise!Next
<1>3. CASE Exit
  <2>1. /\ InService = {} /\ InService' = {} /\ ~Ended /\ Ended'
        /\ queue' = <<>> /\ actif' = actif /\ got' = got /\ ~actif
    BY <1>3
    DEF Exit, InService, Idle, Ended, loopVars, IInv, LateInv
  <2>2. Promise!Stop
    BY <2>1 DEF Promise!Stop, InService
  <2> QED BY <2>2 DEF Promise!Next
<1>4. CASE Crash
  <2>1. /\ ~Idle /\ ~Ended /\ Ended' /\ queue' = <<>>
        /\ actif' = actif /\ got' = got /\ pc \in BeforePCs
    BY <1>4 DEF Crash, Serve, Idle, Ended, loopVars, BeforePCs
  <2>2. /\ InService = {cur} /\ InService' = {}
        /\ cur \in Client /\ got[cur].status = NoStatus
    BY <1>0, <2>1 DEF InService, IInv, StatusInv, Nothing
  <2>3. Promise!Crash
    BY <2>1, <2>2 DEF Promise!Crash, InService
  <2> QED BY <2>3 DEF Promise!Next
<1> QED BY <1>1, <1>2, <1>3, <1>4

LEMMA PromiseArrive ==
    ASSUME IInv, NEW c \in Client, NEW r \in Requests, Connect(c, r)
    PROVE  Promise!Next
<1>1. /\ queue' = Append(queue, c) /\ UNCHANGED <<pc, cur, actif, got>>
      /\ ~Ended
  BY DEF Connect, loopVars
<1>2. /\ got[c].status = NoStatus /\ c # cur
      /\ \A i \in DOMAIN queue : queue[i] # c
  BY DEF Connect, IInv, QueueInv, Nothing
<1>3. InService' = InService /\ Ended' = Ended /\ c \notin InService
  BY <1>1, <1>2 DEF InService, Idle, Ended
<1>4. Promise!Arrive(c)
  BY <1>1, <1>2, <1>3 DEF Promise!Arrive, InService
<1> QED BY <1>4 DEF Promise!Next

LEMMA PromiseTell ==
    ASSUME IInv, Sigint \/ SigintWakes
    PROVE  Promise!Next
<1>0. got \in [Client -> GotType]
      /\ cur \in IF Idle THEN {NoClient} ELSE Client
  BY DEF IInv, Types, LoopType, ReplyType
<1>1. /\ UNCHANGED <<queue, cur>> /\ actif' = FALSE
  BY DEF Sigint, SigintWakes, clientVars
<1>2. StatusOf' = StatusOf
  <2>1. CASE got' = got
    BY <2>1 DEF StatusOf
  <2>2. CASE got' # got
    <3>1. PICK n : got' = [got EXCEPT ![cur].body = n]
      BY <2>2 DEF Sigint, SigintWakes
    <3>2. \A c \in Client : got'[c].status = got[c].status
      BY <1>0, <3>1 DEF GotType
    <3> QED BY <1>1, <3>2 DEF StatusOf
  <2> QED BY <2>1, <2>2
<1>3. InService' = InService /\ ~Ended /\ Ended' = Ended
  BY <1>1 DEF Sigint, SigintWakes, Blocked, InService, Idle, Ended
<1>4. Promise!Tell
  BY <1>1, <1>2, <1>3 DEF Promise!Tell, InService, StatusOf
<1> QED BY <1>4 DEF Promise!Next

LEMMA PromiseStep ==
    ASSUME IInv, [Next]_vars
    PROVE  [Promise!Next]_(Promise!vars)
<1>0. /\ got \in [Client -> GotType] /\ res \in ResType
      /\ cur \in IF Idle THEN {NoClient} ELSE Client
  BY DEF IInv, Types, LoopType, ReplyType
<1>1. ASSUME got' = got, UNCHANGED <<queue, actif, cur>>,
             \/ pc' = pc
             \/ pc \in ServedPCs /\ pc' \in ServedPCs
             \/ pc \in FreePCs /\ pc' \in FreePCs
      PROVE  UNCHANGED Promise!vars
  BY <1>1, PromiseStutters DEF StatusOf
<1>2. CASE Accept \/ Close \/ Exit \/ Crash
  BY <1>2, PromiseTurns
<1>3. CASE Sigint \/ SigintWakes
  BY <1>3, PromiseTell
<1>4. CASE TestActif \/ AcceptBlocks \/ AcceptFails
  BY <1>1, <1>4
  DEF TestActif, AcceptBlocks, AcceptFails, AcceptFailing, Only, loopVars,
      clientVars, FreePCs, IdlePCs
<1>5. CASE Recv \/ RecvBlocks \/ RecvEnd \/ ParseRequest \/ RefuseHost
           \/ RefuseVersion \/ Log505
  BY <1>1, <1>5
  DEF Recv, Receiving, Takes, RecvBlocks, RecvEnd, ParseRequest, RefuseHost,
      RefuseVersion, Log505, Only, Prints, loopVars, clientVars, ServedPCs,
      BeforePCs, AnswerPCs
<1>6. CASE RefuseMethod \/ StatTarget \/ StatIndex \/ Open \/ OpenFails
  <2>1. /\ got' = got /\ UNCHANGED <<queue, actif, cur>>
        /\ pc \in {"check", "stat_index", "open"}
        /\ pc' \in {"stat_index", "open", "status"}
    BY <1>6
    DEF RefuseMethod, StatTarget, StatIndex, Stat, Serve, Open, OpenFails,
        Answer, loopVars, clientVars
  <2> QED BY <1>1, <2>1 DEF ServedPCs, BeforePCs
<1>7. CASE SendFails \/ LogResponse \/ Destroy
  BY <1>1, <1>7
  DEF SendFails, LogResponse, Destroy, Destroys, Only, Prints, loopVars,
      clientVars, ServedPCs, AnswerPCs
<1>8. CASE Send400 \/ Send505
  <2>1. PICK l \in {"close", "log_505"}, s \in {"400", "505"} :
          /\ Sends(l, [Nothing EXCEPT !.status = s, !.headers = TRUE])
          /\ pc \in BeforePCs
    BY <1>8 DEF Send400, Send505, BeforePCs
  <2>2. got[cur].status = NoStatus
    BY <2>1 DEF IInv, StatusInv, Nothing
  <2>3. [Nothing EXCEPT !.status = s, !.headers = TRUE].status \in Statuses
    BY DEF Nothing, Statuses
  <2> QED BY <2>1, <2>2, <2>3, PromiseSends DEF ServedPCs
<1>9. CASE SendStatus
  <2>1. /\ Sends("headers", [got[cur] EXCEPT !.status = res.status])
        /\ pc = "status" /\ got[cur] = Nothing /\ res.status \in Statuses
    BY <1>9 DEF SendStatus, IInv, StatusInv, BeforePCs, AnswerPCs
  <2>2. /\ got[cur].status = NoStatus
        /\ [got[cur] EXCEPT !.status = res.status].status \in Statuses
    BY <2>1 DEF Nothing
  <2> QED BY <2>1, <2>2, PromiseSends DEF ServedPCs, BeforePCs, AnswerPCs
<1>10. ASSUME NEW l \in ServedPCs, NEW g, Sends(l, g), pc \in ServedPCs,
              g.status = got[cur].status
       PROVE  [Promise!Next]_(Promise!vars)
  BY <1>10, PromiseSends
<1>11. \A n \in Nat : cur \in Client =>
         /\ got[cur] \in GotType
         /\ [got[cur] EXCEPT !.body = n].status = got[cur].status
         /\ [got[cur] EXCEPT !.length = n, !.headers = TRUE].status
              = got[cur].status
  BY <1>0 DEF GotType
<1>12. /\ res.length \in Nat /\ SocketBuffer \in Nat /\ BodyNow \in Nat
       /\ Larger(SocketBuffer, BodyNow) \in Nat
  BY <1>0, ServerAssumption
  DEF BodyNow, Smaller, Larger, ResType, IInv, Types, ReplyType, InodeType
<1>13. pc \in AnswerPCs =>
         /\ cur \in Client
         /\ {"headers", "body", "sending", "log"} \subseteq ServedPCs
         /\ pc \in ServedPCs
  BY <1>0 DEF Idle, AnswerPCs, ServedPCs
<1>14. CASE SendHeaders
  <2>1. PICK l \in {"body", "log"} :
             \/ Sends(l, got[cur])
             \/ Sends(l, [got[cur] EXCEPT !.length = res.length,
                                          !.headers = TRUE])
    BY <1>14 DEF SendHeaders
  <2> QED BY <1>10, <1>11, <1>12, <1>13, <1>14, <2>1 DEF SendHeaders, AnswerPCs
<1>15. CASE SendBody
  <2>1. PICK l \in {"sending", "log"}, n \in Nat :
             Sends(l, [got[cur] EXCEPT !.body = n])
    BY <1>12, <1>15 DEF SendBody
  <2> QED BY <1>10, <1>11, <1>13, <1>15, <2>1 DEF SendBody, AnswerPCs
<1>16. ASSUME NEW c \in Client, Drain(c)
       PROVE  [Promise!Next]_(Promise!vars)
  <2>1. PICK n \in Nat : Sends("log", [got[cur] EXCEPT !.body = n])
    BY <1>12, <1>16 DEF Drain
  <2> QED BY <1>10, <1>11, <1>13, <1>16, <2>1 DEF Drain, AnswerPCs
<1>17. ASSUME NEW c \in Client, Send(c) \/ HangUp(c)
       PROVE  [Promise!Next]_(Promise!vars)
  BY <1>1, <1>17 DEF Send, HangUp, loopVars
<1>18. ASSUME NEW c \in Client, NEW r \in Requests, Connect(c, r)
       PROVE  [Promise!Next]_(Promise!vars)
  BY <1>18, PromiseArrive
<1>19. CASE \/ UNCHANGED vars
            \/ \E p \in Path, n \in FileNodes :
                 WriteFile(p, n) \/ ReplaceFile(p, n)
  BY <1>1, <1>19
  DEF WriteFile, ReplaceFile, Edit, vars, loopVars, clientVars
<1> QED
  BY <1>2, <1>3, <1>4, <1>5, <1>6, <1>7, <1>8, <1>9, <1>14, <1>15, <1>16,
     <1>17, <1>18, <1>19 DEF Next, ServerNext, ClientNext

\* Clients are served one by one, in the order they connected, with at most
\* one status line each, and turned away by a SIGINT or a crash only.
THEOREM ImplementsOneReply == Spec => OneReplyEach
BY PromiseInit, PromiseStep, Invariance, PTL
DEF Spec, OneReplyEach, Promise!Spec

=============================================================================
