------------------------------- MODULE Server -------------------------------
(***************************************************************************)
(* The accept loop of server_start and all it calls for a connection:      *)
(* gerer_client, http_response_create, http_response_send, the logger.     *)
(* Each system call is a step, so that clients, SIGINT and whoever edits   *)
(* the served files move between any two of them; a call that blocks has a *)
(* control state of its own ("accepting", "receiving", "sending").  Every  *)
(* allocation and every accept may fail.                                   *)
(***************************************************************************)
EXTENDS Request

CONSTANTS
    Client, NoClient,
    Requests,       \* requests, each the sequence of its segments
    Path, NoPath,   \* tokens that are targets of existing paths
    Index,          \* Index[p]: p/default_file
    InitialFiles,   \* the files when the server starts
    FileNodes,      \* what an edit may put at a path
    BufferSize,     \* tokens that recv takes at most (2047 bytes)
    SocketBuffer,   \* how much of a body sendfile hands over before it blocks
    MaxChanges,     \* bound on the edits of files and the steps that fail
    Interruptible   \* TRUE: SIGINT may arrive

\* "000" is what logger_log_response prints when status_line is NULL; the
\* client is sent "(null)" for a status line then.
Statuses == {"200", "400", "403", "404", "405", "505", "000"}
NoStatus == "none"

\* What may be at a path; a locked file may not be opened.
Absent == [kind |-> "absent", size |-> 0]
Node == {Absent} \cup [kind : {"file", "dir", "locked"}, size : Nat]

ASSUME ServerAssumption ==
    /\ NoClient \notin Client
    /\ Requests \subseteq Seq(Seq(STRING)) \ {<<>>}
    /\ NoPath \notin Path
    /\ InitialFiles \subseteq [Path -> Node]
    /\ FileNodes \subseteq Node
    /\ Index \in [Path -> Path \cup {NoPath}]
    /\ BufferSize \in Nat \ {0}
    /\ SocketBuffer \in Nat
    /\ MaxChanges \in Nat
    /\ Interruptible \in BOOLEAN

VARIABLES
    pc,         \* the next system call of the server
    actif,      \* the flag of the loop
    late,       \* how many connections were accepted although actif was 0
    queue,      \* the backlog of the listening socket
    cur,        \* the client being served
    buffer,     \* what recv returned
    req,        \* what http_request_parse returned
    path,       \* chemin_comp
    res,        \* the response; body: is body_fd open, headers: not NULL
    fds,        \* the descriptors that are open besides the listening socket
    inode,      \* the file behind body_fd
    buf, log,   \* stdout: what stdio still buffers, what has been written
    asked,      \* asked[c]: the request c connected with, or <<>>
    todo,       \* todo[c]: the segments that c has still to send
    wire,       \* wire[c]: what c has sent and the server not read
    gone,       \* the clients that hung up
    got,        \* got[c]: what the server sent to c before c hung up
    files,      \* the file system below root_dir
    changes     \* how often it was edited, or a step had a failing call

loopVars == <<actif, late>>
replyVars == <<buffer, req, path, res, inode>>
outVars == <<buf, log>>
clientVars == <<queue, asked, todo, wire, gone>>
fileVars == <<files, changes>>
vars == <<pc, loopVars, cur, fds, replyVars, outVars, clientVars, got,
          fileVars>>

-----------------------------------------------------------------------------
Smaller(a, b) == IF a <= b THEN a ELSE b
Larger(a, b) == IF a >= b THEN a ELSE b

NodeAt(p) == IF p \in Path THEN files[p] ELSE Absent
NoInode == [path |-> NoPath, kind |-> "absent", size |-> 0]
Nothing == [status |-> NoStatus, length |-> 0, body |-> 0, headers |-> FALSE]

\* A response of length n: with creer_rep_erreur it is empty.
Response(s, n, body) ==
    [status |-> s, length |-> n, body |-> body, headers |-> TRUE]
NoResponse == Response(NoStatus, 0, FALSE)
ErrorResponse(s) == Response(s, 0, FALSE)

\* All that a recv may return, and what is parsed from it.
Received ==
    UNION { {SubSeq(text, 1, n) : n \in 1 .. Smaller(Len(text), BufferSize)} :
            text \in {FlattenSeq(r) : r \in Requests} }
Parsed == [text \in Received |-> Parse(text)]

\* What http_request_parse returns when allocations fail: no request, or one
\* that lacks some of its strings.
Starved(r) ==
    IF r = NoRequest THEN {}
    ELSE {NoRequest} \cup
         { [r EXCEPT !.target = t, !.version = v, !.header_host = h] :
             t \in {r.target, Null}, v \in {r.version, Null},
             h \in {r.header_host, Null} }

\* root_dir and the target, as one path.
PathOf(target) ==
    IF Len(target) = 1 /\ target[1] \in Path THEN target[1] ELSE NoPath

\* Mutant: the form ip:port is forgotten.
HostValidWithoutPort(host) == host \in {<<"localhost">>, <<"ip">>}

\* is_host_valid: server_name, ip or ip:port, exactly.
HostValid(host) ==
    host \in {<<"localhost">>, <<"ip">>, <<"ip", Colon, "port">>}

Bad(c) == <<<<"bad", c>>, <<"400", c>>>>

\* Mutant: the new lines overtake what was buffered.
PrintPastBuffer(lines) == log' = log \o lines \o buf /\ buf' = <<>>

\* printf and fflush(stdout): what was buffered before goes first.
PrintFlush(lines) == log' = log \o buf \o lines /\ buf' = <<>>

\* Some call of this step fails, if b: the environment can do so in MaxChanges
\* steps at most.
Fails(b) ==
    /\ b => changes < MaxChanges
    /\ changes' = IF b THEN changes + 1 ELSE changes
    /\ UNCHANGED files

-----------------------------------------------------------------------------
(* Steps of the server that change little.                                 *)

\* The server goes on at l.
Only(l) ==
    /\ pc' = l
    /\ UNCHANGED <<loopVars, cur, fds, replyVars, outVars, clientVars, got,
                   fileVars>>

\* Mutant: fflush is forgotten.
PrintsUnflushed(l, lines) ==
    /\ pc' = l
    /\ buf' = buf \o lines /\ log' = log
    /\ UNCHANGED <<loopVars, cur, fds, replyVars, clientVars, got, fileVars>>

\* The logger prints lines.
Prints(l, lines) ==
    /\ pc' = l
    /\ PrintFlush(lines)
    /\ UNCHANGED <<loopVars, cur, fds, replyVars, clientVars, got, fileVars>>

\* What was sent to cur is now g; it reaches nobody once cur hung up, and
\* does no harm (SIGPIPE is ignored).
Sends(l, g) ==
    /\ pc' = l
    /\ got' = IF cur \in gone THEN got ELSE [got EXCEPT ![cur] = g]
    /\ UNCHANGED <<loopVars, cur, fds, replyVars, outVars, clientVars,
                   fileVars>>

-----------------------------------------------------------------------------
Init ==
    /\ pc = "while" /\ actif = TRUE /\ late = 0
    /\ cur = NoClient /\ buffer = <<>> /\ req = NoRequest
    /\ path = NoPath /\ res = NoResponse /\ fds = {} /\ inode = NoInode
    /\ buf = <<>> /\ log = <<>>
    /\ queue = <<>> /\ gone = {}
    /\ asked = [c \in Client |-> <<>>]
    /\ todo = [c \in Client |-> <<>>]
    /\ wire = [c \in Client |-> <<>>]
    /\ got = [c \in Client |-> Nothing]
    /\ files \in InitialFiles
    /\ changes = 0

-----------------------------------------------------------------------------
(* server_start: the loop.                                                 *)

TestActif ==
    /\ pc = "while"
    /\ Only(IF actif THEN "accept" ELSE "exit")

Accept ==
    /\ pc \in {"accept", "accepting"} /\ queue # <<>>
    /\ pc' = "recv"
    /\ late' = IF actif THEN late ELSE late + 1
    /\ cur' = Head(queue)
    /\ queue' = Tail(queue)
    /\ fds' = fds \cup {"client"}
    /\ UNCHANGED <<actif, replyVars, outVars, asked, todo, wire, gone, got,
                   fileVars>>

AcceptBlocks ==
    /\ pc = "accept" /\ queue = <<>>
    /\ Only("accepting")

\* No descriptor or no memory is left, with or without a connection to
\* accept: perror (stderr is not buffered, nor is the log of a daemon).
AcceptFailing(next) ==
    /\ pc = "accept"
    /\ pc' = next
    /\ log' = Append(log, <<"accept", NoClient>>)
    /\ Fails(TRUE)
    /\ UNCHANGED <<loopVars, cur, fds, replyVars, buf, clientVars, got>>

\* Mutant: an accept that fails ends the loop.
AcceptFailsForGood == AcceptFailing("exit")

AcceptFails == AcceptFailing("while")

\* close(sfd) and exit: the clients in the backlog are reset, stdout flushed.
Exit ==
    /\ pc = "exit"
    /\ pc' = "stopped"
    /\ queue' = <<>>
    /\ todo' = [c \in Client |-> <<>>]
    /\ wire' = [c \in Client |-> <<>>]
    /\ PrintFlush(<<>>)
    /\ UNCHANGED <<loopVars, cur, fds, replyVars, asked, gone, got, fileVars>>

-----------------------------------------------------------------------------
(* gerer_client.                                                           *)

Receiving == pc \in {"recv", "receiving"}

Takes(n) ==
    /\ pc' = "parse"
    /\ buffer' = SubSeq(wire[cur], 1, n)
    /\ wire' = [wire EXCEPT ![cur] = SubSeq(@, n + 1, Len(@))]
    /\ UNCHANGED <<loopVars, cur, fds, req, path, res, inode, outVars, queue,
                   asked, todo, gone, got, fileVars>>

\* Mutant: recv is not told the size of the buffer.
RecvUnbounded == Receiving /\ wire[cur] # <<>> /\ Takes(Len(wire[cur]))

\* One recv takes what has arrived, up to the size of the buffer.
Recv ==
    /\ Receiving /\ wire[cur] # <<>>
    /\ Takes(Smaller(Len(wire[cur]), BufferSize))

RecvBlocks ==
    /\ pc = "recv" /\ wire[cur] = <<>> /\ cur \notin gone
    /\ Only("receiving")

\* Mutant: the server goes on reading from a client that hung up.
RecvEndRetried ==
    /\ Receiving /\ wire[cur] = <<>> /\ cur \in gone
    /\ UNCHANGED vars

\* The client hung up and nothing is left to read: no reply.
RecvEnd ==
    /\ Receiving /\ wire[cur] = <<>> /\ cur \in gone
    /\ Only("close")

\* http_request_parse, and the log of what it found.
ParseRequest ==
    /\ pc = "parse"
    /\ buffer' = <<>>
    /\ \E r \in {Parsed[buffer]} \cup Starved(Parsed[buffer]) :
         /\ req' = r
         /\ Fails(r # Parsed[buffer])
         /\ IF r = NoRequest
            THEN pc' = "send_400" /\ PrintFlush(Bad(cur))
            ELSE pc' = "check" /\ PrintFlush(<<<<"received", cur>>>>)
    /\ UNCHANGED <<loopVars, cur, fds, path, res, inode, clientVars, got>>

RefuseHost ==
    /\ pc = "check" /\ ~HostValid(req.header_host)
    /\ Prints("send_400", Bad(cur))

RefuseVersion ==
    /\ pc = "check" /\ HostValid(req.header_host)
    /\ req.version # <<"HTTP/1.1">>
    /\ Only("send_505")

\* Mutant: no return after the 400.
Send400AndGoOn ==
    /\ pc = "send_400"
    /\ Sends(IF req = NoRequest THEN "close" ELSE "send_505",
             [Nothing EXCEPT !.status = "400", !.headers = TRUE])

Send400 ==
    /\ pc = "send_400"
    /\ Sends("close", [Nothing EXCEPT !.status = "400", !.headers = TRUE])

Send505 ==
    /\ pc = "send_505"
    /\ Sends("log_505", [Nothing EXCEPT !.status = "505", !.headers = TRUE])

\* Mutant: nothing is printed.
Log505Forgotten ==
    /\ pc = "log_505"
    /\ Only("close")

\* A printf without the logger, and without a flush.
Log505 ==
    /\ pc = "log_505"
    /\ pc' = "close"
    /\ buf' = Append(buf, <<"505", cur>>)
    /\ UNCHANGED <<loopVars, cur, fds, replyVars, log, clientVars, got,
                   fileVars>>

\* close(client_fd); the locals of gerer_client go out of scope, and what
\* the client has still to send is read by nobody.
Close ==
    /\ pc = "close"
    /\ pc' = "while"
    /\ cur' = NoClient /\ req' = NoRequest /\ res' = NoResponse
    /\ path' = NoPath
    /\ fds' = fds \ {"client"}
    /\ todo' = [todo EXCEPT ![cur] = <<>>]
    /\ wire' = [wire EXCEPT ![cur] = <<>>]
    /\ UNCHANGED <<loopVars, buffer, inode, outVars, queue, asked, gone, got,
                   fileVars>>

-----------------------------------------------------------------------------
(* http_response_create.                                                   *)

Serve == pc = "check" /\ HostValid(req.header_host)
         /\ req.version = <<"HTTP/1.1">>

\* What is left of the response r if strdup fails: it has no status line, or,
\* when it is not an error, no headers, or neither.
Maimed(r) == { [r EXCEPT !.status = s, !.headers = h] :
                 s \in {r.status, "000"}, h \in {TRUE, r.status # "200"} }

\* The response is r, or what the failing strdups leave of it.
Answer(r) ==
    /\ pc' = "status"
    /\ \E x \in {r} \cup Maimed(r) : res' = x /\ Fails(x # r)

RefuseMethod ==
    /\ Serve /\ req.method \notin {"GET", "HEAD"}
    /\ Answer(ErrorResponse("405"))
    /\ UNCHANGED <<loopVars, cur, fds, buffer, req, path, inode, outVars,
                   clientVars, got>>

\* stat p, which may be a directory if next is where directories lead.  The
\* size is kept in res.length (st.st_size).
Stat(p, next) ==
    /\ path' = IF NodeAt(p).kind = "dir" /\ next = "stat_index"
               THEN Index[p] ELSE p
    /\ IF NodeAt(p) = Absent
       THEN Answer(ErrorResponse("404"))
       ELSE /\ pc' = IF NodeAt(p).kind = "dir" THEN next ELSE "open"
            /\ res' = [NoResponse EXCEPT !.length = NodeAt(p).size]
            /\ UNCHANGED fileVars
    /\ UNCHANGED <<loopVars, cur, fds, buffer, req, inode, outVars,
                   clientVars, got>>

StatTarget ==
    /\ Serve /\ req.method \in {"GET", "HEAD"} /\ req.target # Null
    /\ Stat(PathOf(req.target), "stat_index")

\* The default file of a directory: nobody asks whether it is one again.
StatIndex == pc = "stat_index" /\ Stat(path, "open")

OpenFails ==
    /\ pc = "open" /\ NodeAt(path).kind \in {"absent", "locked"}
    /\ Answer(ErrorResponse("403"))
    /\ UNCHANGED <<loopVars, cur, fds, buffer, req, path, inode, outVars,
                   clientVars, got>>

\* open succeeds, on a directory too; a HEAD closes the file at once.
Open ==
    /\ pc = "open" /\ NodeAt(path).kind \in {"file", "dir"}
    /\ Answer(Response("200", res.length, req.method = "GET"))
    /\ IF req.method = "GET"
       THEN /\ fds' = fds \cup {"body"}
            /\ inode' = [path |-> path, kind |-> NodeAt(path).kind,
                         size |-> NodeAt(path).size]
       ELSE UNCHANGED <<fds, inode>>
    /\ UNCHANGED <<loopVars, cur, buffer, req, path, outVars, clientVars,
                   got>>

\* The other allocations are not tested either, and a NULL is used at once:
\* SIGSEGV, and what stdio buffers is lost.
Crash ==
    /\ \/ /\ Serve /\ req.method \in {"GET", "HEAD"} /\ req.target = Null
          /\ UNCHANGED fileVars
       \/ /\ Serve \/ pc \in {"stat_index", "open"}
          /\ Fails(TRUE)
    /\ pc' = "crashed"
    /\ fds' = {} /\ buf' = <<>> /\ queue' = <<>>
    /\ req' = NoRequest /\ res' = NoResponse /\ path' = NoPath
    /\ todo' = [c \in Client |-> <<>>]
    /\ wire' = [c \in Client |-> <<>>]
    /\ UNCHANGED <<loopVars, cur, buffer, inode, log, asked, gone, got>>

-----------------------------------------------------------------------------
(* http_response_send, the log of the response, http_response_destroy.     *)

SendStatus ==
    /\ pc = "status"
    /\ Sends("headers", [got[cur] EXCEPT !.status = res.status])

SendHeaders ==
    /\ pc = "headers"
    /\ Sends(IF res.body THEN "body" ELSE "log",
             IF res.headers
             THEN [got[cur] EXCEPT !.length = res.length, !.headers = TRUE]
             ELSE got[cur])

\* What sendfile finds to send: at most content_length bytes of the file as
\* it is now, and nothing of a directory.
BodyNow == IF inode.kind = "dir" THEN 0 ELSE Smaller(inode.size, res.length)

\* Mutant: the file is sent to its end, however long it has become.
SendWholeBody ==
    /\ pc = "body"
    /\ Sends("log", [got[cur] EXCEPT
                       !.body = IF inode.kind = "dir" THEN 0 ELSE inode.size])

\* Mutant: the socket does not block, and sendfile is called once.
SendBodyOnce ==
    /\ pc = "body"
    /\ Sends("log", [got[cur] EXCEPT !.body = Smaller(BodyNow, SocketBuffer)])

\* sendfile returns when the kernel has taken the last byte; it blocks when
\* the body is longer than the buffer of the socket.
SendBody ==
    /\ pc = "body"
    /\ IF BodyNow <= SocketBuffer
       THEN Sends("log", [got[cur] EXCEPT !.body = BodyNow])
       ELSE Sends("sending", [got[cur] EXCEPT !.body = SocketBuffer])

\* The client hung up in the meantime.
SendFails ==
    /\ pc = "sending" /\ cur \in gone
    /\ Only("log")

LogResponse ==
    /\ pc = "log"
    /\ Prints("destroy", <<<<res.status, cur>>>>)

Destroys(left) ==
    /\ pc = "destroy"
    /\ pc' = "close"
    /\ fds' = left
    /\ inode' = NoInode
    /\ UNCHANGED <<loopVars, cur, buffer, req, path, res, outVars,
                   clientVars, got, fileVars>>

\* Mutant: body_fd is not closed.
DestroyKeepsBody == Destroys(fds)

Destroy == Destroys(IF res.body THEN fds \ {"body"} ELSE fds)

-----------------------------------------------------------------------------
(* SIGINT, the clients and the files.                                      *)

Ended == pc \in {"stopped", "crashed"}
Blocked ==
    \/ pc = "accepting" /\ queue = <<>>
    \/ pc = "receiving" /\ wire[cur] = <<>> /\ cur \notin gone
    \/ pc = "sending" /\ cur \notin gone

\* A signal between two calls only clears the flag.
Sigint ==
    /\ Interruptible /\ actif /\ ~Blocked /\ ~Ended
    /\ actif' = FALSE
    /\ UNCHANGED <<pc, late, cur, fds, replyVars, outVars, clientVars, got,
                   fileVars>>

\* A signal in a call that is blocked makes it fail with EINTR; a sendfile
\* returns what it has sent so far.
SigintWakes ==
    /\ Interruptible /\ Blocked
    /\ actif' = FALSE
    /\ \/ pc = "accepting" /\ pc' = "while" /\ got' = got
       \/ pc = "receiving" /\ pc' = "close" /\ got' = got
       \/ /\ pc = "sending" /\ pc' = "log"
          /\ \E n \in SocketBuffer .. Larger(SocketBuffer, BodyNow) :
               got' = [got EXCEPT ![cur].body = n]
    /\ UNCHANGED <<late, cur, fds, replyVars, outVars, clientVars, fileVars>>

\* c connects, once, with a request to send.
Connect(c, r) ==
    /\ ~Ended
    /\ asked[c] = <<>>
    /\ asked' = [asked EXCEPT ![c] = r]
    /\ queue' = Append(queue, c)
    /\ todo' = [todo EXCEPT ![c] = r]
    /\ UNCHANGED <<pc, loopVars, cur, fds, replyVars, outVars, wire, gone, got,
                   fileVars>>

Send(c) ==
    /\ todo[c] # <<>> /\ c \notin gone
    /\ wire' = [wire EXCEPT ![c] = @ \o Head(todo[c])]
    /\ todo' = [todo EXCEPT ![c] = Tail(@)]
    /\ UNCHANGED <<pc, loopVars, cur, fds, replyVars, outVars, queue, asked,
                   gone, got, fileVars>>

\* c reads what the server has sent, and sendfile comes to its end.
Drain(c) ==
    /\ pc = "sending" /\ c = cur /\ c \notin gone
    /\ Sends("log", [got[c] EXCEPT !.body = Larger(SocketBuffer, BodyNow)])

HangUp(c) ==
    /\ ~Ended
    /\ c = cur \/ \E i \in DOMAIN queue : queue[i] = c
    /\ c \notin gone
    /\ gone' = gone \cup {c}
    /\ UNCHANGED <<pc, loopVars, cur, fds, replyVars, outVars, queue, asked,
                   todo, wire, got, fileVars>>

\* p becomes n: the open descriptor sees it if the change is made in place.
Edit(p, n, i) ==
    /\ changes < MaxChanges
    /\ n # files[p]
    /\ files' = [files EXCEPT ![p] = n]
    /\ inode' = IF inode.path = p THEN i ELSE inode
    /\ changes' = changes + 1
    /\ UNCHANGED <<pc, loopVars, cur, fds, buffer, req, path, res, outVars,
                   clientVars, got>>

\* Somebody writes into the file at p.
WriteFile(p, n) ==
    /\ files[p].kind = "file" /\ n.kind = "file"
    /\ Edit(p, n, [inode EXCEPT !.size = n.size])

\* Somebody removes p or puts another file there: an open descriptor stays
\* on the file that was.
ReplaceFile(p, n) == Edit(p, n, [inode EXCEPT !.path = NoPath])

-----------------------------------------------------------------------------
ServerNext ==
    \/ TestActif \/ Accept \/ AcceptBlocks \/ AcceptFails \/ Exit
    \/ Recv \/ RecvBlocks \/ RecvEnd \/ ParseRequest
    \/ RefuseHost \/ RefuseVersion \/ RefuseMethod
    \/ Send400 \/ Send505 \/ Log505
    \/ StatTarget \/ StatIndex \/ Open \/ OpenFails \/ Crash
    \/ SendStatus \/ SendHeaders \/ SendBody \/ SendFails
    \/ LogResponse \/ Destroy \/ Close

ClientNext(c) ==
    \/ Send(c) \/ HangUp(c) \/ Drain(c)
    \/ \E r \in Requests : Connect(c, r)

Next ==
    \/ ServerNext \/ Sigint \/ SigintWakes
    \/ \E c \in Client : ClientNext(c)
    \/ \E p \in Path, n \in FileNodes : WriteFile(p, n) \/ ReplaceFile(p, n)

Spec == Init /\ [][Next]_vars

\* The server runs when it can, and a client that is waited for sends, reads
\* or hangs up.
FairSpec ==
    /\ Spec
    /\ WF_vars(ServerNext)
    /\ \A c \in Client : WF_vars(Send(c) \/ Drain(c) \/ HangUp(c))

-----------------------------------------------------------------------------
(* Properties.                                                             *)

\* The control states in which no client is being served.
Idle == pc \in {"while", "accept", "accepting", "exit", "stopped"}

\* The values the variables may take.
TypeOK ==
    /\ pc \in {"while", "accept", "accepting", "recv", "receiving", "parse",
              "check", "send_400", "send_505", "log_505", "stat_index",
              "open", "status", "headers", "body", "sending", "log",
              "destroy", "close", "exit", "stopped", "crashed"}
    /\ actif \in BOOLEAN
    /\ late \in 0 .. 1
    /\ cur \in IF Idle THEN {NoClient} ELSE Client
    /\ Len(buffer) <= BufferSize
    /\ res.status \in Statuses \cup {NoStatus}
    /\ path \in Path \cup {NoPath}
    /\ fds \subseteq {"client", "body"}
    /\ gone \subseteq Client
    /\ \A c \in Client : got[c].status \in Statuses \cup {NoStatus}
    /\ changes \in 0 .. MaxChanges

\* httpd keeps the promise of OneReply: clients are served one by one, first
\* come first served, with at most one status line each, and turned away
\* only by a SIGINT or a crash, whatever hang-ups, signals, edits and
\* failures come between its calls.
Promise == INSTANCE OneReply WITH
    Status <- Statuses,
    waiting <- queue,
    served <- IF Idle \/ Ended THEN {} ELSE {cur},
    status <- [c \in Client |-> got[c].status],
    told <- ~actif,
    up <- ~Ended
OneReplyEach == Promise!Spec

\* Between two connections every descriptor is closed again, by whichever
\* way gerer_client returned and whatever was missing in the response.
NoLeak == Idle => fds = {}

\* A client never gets more bytes than Content-Length announced, even when
\* the file grows after stat; without a body it gets none.  (A response that
\* lost its headers announces nothing.)
BodyWithinLength ==
    \A c \in Client : /\ got[c].headers => got[c].body <= got[c].length
                      /\ got[c].body > 0 => got[c].status \in {"200", "000"}

\* What recv gets of a text that arrives in one piece, and what is read there.
Heard(text) == Parse(SubSeq(text, 1, Smaller(Len(text), BufferSize)))

\* What answers r: for a directory, its default file.
Served(r) ==
    LET p == PathOf(r.target)
    IN  NodeAt(IF NodeAt(p).kind = "dir" THEN Index[p] ELSE p)

\* The status that r calls for.
StatusDue(r) ==
    IF r = NoRequest \/ ~HostValid(r.header_host) THEN "400"
    ELSE IF r.version # <<"HTTP/1.1">> THEN "505"
    ELSE IF r.method \notin {"GET", "HEAD"} THEN "405"
    ELSE [absent |-> "404", locked |-> "403",
          file |-> "200", dir |-> "200"][Served(r).kind]

\* The whole reply.  (A default file that is a directory is taken for what
\* the code makes of it, its st_size and no body; see LengthTruthful.)
ReplyDue(r) ==
    IF StatusDue(r) # "200"
    THEN [Nothing EXCEPT !.status = StatusDue(r), !.headers = TRUE]
    ELSE [status |-> "200", length |-> Served(r).size, headers |-> TRUE,
          body |-> IF r.method = "GET" /\ Served(r).kind = "file"
                   THEN Served(r).size ELSE 0]

\* Whoever sends its request in one piece and stays is sent the reply that the
\* request and the files call for, with its whole body, as long as nothing
\* fails, nobody edits the files and no SIGINT cuts a sendfile short: nothing
\* of it depends on the other clients, or on when the client reads.
RepliedAsDue ==
    actif /\ changes = 0 =>
        \A c \in Client \ (gone \cup {cur}) :
            Len(asked[c]) = 1 /\ got[c].status # NoStatus =>
                got[c] = ReplyDue(Heard(asked[c][1]))

\* The lines of out that are about c.
LinesOf(out, c) == {i \in DOMAIN out : out[i][2] = c}

\* What out tells of c begins with its request, or with what is wrong with
\* it, and ends with s, the only status that is told.
Reported(out, c, s) ==
    \E first, last \in LinesOf(out, c) :
        /\ LinesOf(out, c) \subseteq first .. last
        /\ out[first][1] \in {"received", "bad"}
        /\ out[last][1] = s
        /\ \A i \in LinesOf(out, c) \ {last} : out[i][1] \notin Statuses

\* c was sent the status s, or hung up before it was sent any.
WasSent(c, s) ==
    got[c].status = s \/ (c \in gone /\ got[c].status = NoStatus)

\* Once a client is done with, what is printed about it begins with a line
\* for its request and ends with one for the status it was sent, or it was
\* sent nothing and nothing is printed.  (A refused host adds the two lines
\* of logger_log_bad_request.)
LoggedOnce ==
    \A c \in Client \ {cur} :
        \/ LinesOf(log \o buf, c) = {} /\ got[c].status = NoStatus
        \/ \E s \in Statuses : Reported(log \o buf, c, s) /\ WasSent(c, s)

\* What a SIGKILL can take from the log is the line of one client, answered
\* with 505: every other line is written by the time its client is closed.
OneLineAtRisk ==
    LET missing == {c \in Client \ {cur} :
                      /\ got[c].status # NoStatus
                      /\ \A i \in LinesOf(log, c) : log[i][1] \notin Statuses}
    IN  /\ \A c, d \in missing : c = d
        /\ \A c \in missing : got[c].status = "505" /\ LinesOf(log, c) # {}

\* The lines of two clients are never mixed: the 505 that waits in the
\* buffer of stdout comes before the lines of the next client.  Only the
\* message of a failed accept may overtake it.
LogInOrder ==
    \A i, k \in DOMAIN log :
        i < k /\ log[i][2] = log[k][2] /\ log[i][2] # NoClient =>
            \A j \in i .. k : log[j][2] \in {log[i][2], NoClient}

\* A client that connected is served in the end, or the server stops or
\* crashes.
EveryClientServed ==
    \A c \in Client :
        (\E i \in DOMAIN queue : queue[i] = c) ~>
            (Ended \/ (cur # c /\ \A i \in DOMAIN queue : queue[i] # c))

-----------------------------------------------------------------------------
(* What a comment of the repository says, refuted by a run.                *)

\* "size_t content_length; // Taille du contenu": the length announced is the
\* length of the body that a GET gets.
LengthTruthful ==
    \A c \in Client :
        c # cur /\ got[c].status = "200" /\ asked[c] # <<>>
        /\ Head(Head(asked[c])) = "GET" /\ c \notin gone
            => got[c].body = got[c].length

=============================================================================
