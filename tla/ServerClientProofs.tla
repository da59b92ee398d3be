------------------------- MODULE ServerClientProofs -------------------------
(***************************************************************************)
(* Proofs about Server as its clients and its log see it, for any number   *)
(* of clients.  What is printed about a client agrees with what it was     *)
(* sent, the lines of two clients are not mixed, and a SIGKILL takes the   *)
(* line of one client at most.  A client that sends its request in one     *)
(* piece is sent what the request and the files call for.                  *)
(***************************************************************************)
EXTENDS ServerProofs

-----------------------------------------------------------------------------
(* Lines.                                                                  *)

Line ==
    (Statuses \cup {"received", "bad", "accept"}) \X (Client \cup {NoClient})

\* s says nothing of c.
FreshIn(s, c) == \A i \in DOMAIN s : s[i][2] # c

\* What s tells of c has begun, is at its end and has no status yet.
OpenIn(s, c) ==
    \E first \in DOMAIN s :
        /\ s[first][2] = c /\ s[first][1] \in {"received", "bad"}
        /\ \A i \in DOMAIN s :
             /\ i < first => s[i][2] # c
             /\ i > first => s[i][2] \in {c, NoClient}
             /\ s[i][2] = c => s[i][1] \notin Statuses

\* No lines of another client come between those of one.
InOrder(s) ==
    \A i, k \in DOMAIN s :
        i < k /\ s[i][2] = s[k][2] /\ s[i][2] # NoClient =>
            \A j \in i .. k : s[j][2] \in {s[i][2], NoClient}

LEMMA AppendLine ==
    ASSUME NEW s \in Seq(Line), NEW x \in Line
    PROVE  /\ Append(s, x) \in Seq(Line)
           /\ Len(s) \in Nat /\ DOMAIN s = 1 .. Len(s)
           /\ DOMAIN Append(s, x) = 1 .. Len(s) + 1
           /\ \A i \in 1 .. Len(s) : Append(s, x)[i] = s[i]
           /\ Append(s, x)[Len(s) + 1] = x
OBVIOUS

\* A line about somebody else.
LEMMA AppendOther ==
    ASSUME NEW s \in Seq(Line), NEW x \in Line, NEW c, x[2] # c
    PROVE  /\ FreshIn(s, c) => FreshIn(Append(s, x), c)
           /\ \A k : Reported(s, c, k) => Reported(Append(s, x), c, k)
<1>1. FreshIn(s, c) => FreshIn(Append(s, x), c)
  BY AppendLine DEF FreshIn
<1>2. LinesOf(Append(s, x), c) = LinesOf(s, c)
  BY AppendLine DEF LinesOf
<1>3. \A i \in LinesOf(s, c) : Append(s, x)[i] = s[i]
  BY AppendLine DEF LinesOf
<1>4. ASSUME NEW k, Reported(s, c, k)
      PROVE  Reported(Append(s, x), c, k)
  <2> DEFINE t == Append(s, x)
  <2>1. /\ LinesOf(t, c) = LinesOf(s, c)
        /\ \A i \in LinesOf(s, c) : t[i] = s[i]
    BY <1>2, <1>3
  <2> HIDE DEF t
  <2>2. Reported(t, c, k)
    BY <1>4, <2>1 DEF Reported
  <2> QED BY <2>2 DEF t
<1> QED BY <1>1, <1>4

\* A line about nobody.
LEMMA AppendNobody ==
    ASSUME NEW s \in Seq(Line), NEW x \in Line, x[2] = NoClient,
           NEW c \in Client, OpenIn(s, c)
    PROVE  OpenIn(Append(s, x), c)
BY AppendLine, ServerAssumption DEF OpenIn

\* The first line about c.
LEMMA AppendFirst ==
    ASSUME NEW s \in Seq(Line), NEW x \in Line, FreshIn(s, x[2]),
           x[1] \in {"received", "bad"}
    PROVE  OpenIn(Append(s, x), x[2])
BY AppendLine DEF FreshIn, OpenIn, Statuses

\* One more.
LEMMA AppendMore ==
    ASSUME NEW s \in Seq(Line), NEW x \in Line, OpenIn(s, x[2]),
           x[1] \notin Statuses
    PROVE  OpenIn(Append(s, x), x[2])
<1> DEFINE t == Append(s, x)
<1>1. /\ Len(s) \in Nat /\ DOMAIN s = 1 .. Len(s)
      /\ DOMAIN t = 1 .. Len(s) + 1
      /\ \A i \in 1 .. Len(s) : t[i] = s[i]
      /\ t[Len(s) + 1] = x
  BY AppendLine
<1> HIDE DEF t
<1>2. OpenIn(t, x[2])
  BY <1>1 DEF OpenIn
<1> QED BY <1>2 DEF t

\* The last one.
LEMMA AppendStatus ==
    ASSUME NEW s \in Seq(Line), NEW x \in Line, OpenIn(s, x[2]),
           x[1] \in Statuses
    PROVE  Reported(Append(s, x), x[2], x[1])
<1> DEFINE t == Append(s, x)
           n == Len(s) + 1
<1>1. PICK first \in DOMAIN s :
        /\ s[first][2] = x[2] /\ s[first][1] \in {"received", "bad"}
        /\ \A i \in DOMAIN s : /\ i < first => s[i][2] # x[2]
                               /\ s[i][2] = x[2] => s[i][1] \notin Statuses
  BY DEF OpenIn
<1>2. /\ Len(s) \in Nat /\ DOMAIN s = 1 .. Len(s) /\ DOMAIN t = 1 .. n
      /\ \A i \in 1 .. Len(s) : t[i] = s[i]
      /\ t[n] = x
  BY AppendLine
<1> HIDE DEF t
<1>3. first \in LinesOf(t, x[2]) /\ n \in LinesOf(t, x[2])
  BY <1>1, <1>2 DEF LinesOf
<1>4. \A i \in LinesOf(t, x[2]) : i \in first .. n /\ (i = n \/ i \in DOMAIN s)
  BY <1>1, <1>2 DEF LinesOf
<1>5. \A i \in LinesOf(t, x[2]) \ {n} : t[i][1] \notin Statuses
  BY <1>1, <1>2, <1>4 DEF LinesOf
<1> QED BY <1>1, <1>2, <1>3, <1>4, <1>5 DEF Reported, t

LEMMA AppendInOrder ==
    ASSUME NEW s \in Seq(Line), NEW x \in Line, InOrder(s),
           FreshIn(s, x[2]) \/ OpenIn(s, x[2]) \/ x[2] = NoClient
    PROVE  InOrder(Append(s, x))
<1> DEFINE t == Append(s, x)
           n == Len(s) + 1
<1>1. /\ Len(s) \in Nat /\ DOMAIN s = 1 .. Len(s) /\ DOMAIN t = 1 .. n
      /\ \A i \in 1 .. Len(s) : t[i] = s[i]
      /\ t[n] = x
  BY AppendLine
<1> HIDE DEF t
<1> SUFFICES ASSUME NEW i \in DOMAIN t, NEW k \in DOMAIN t, i < k,
                    t[i][2] = t[k][2], t[i][2] # NoClient,
                    NEW j \in i .. k
             PROVE  t[j][2] \in {t[i][2], NoClient}
  BY DEF InOrder, t
<1>2. CASE k \in DOMAIN s
  <2>1. i \in DOMAIN s /\ j \in DOMAIN s
    BY <1>1, <1>2
  <2> QED BY <1>1, <1>2, <2>1 DEF InOrder
<1>3. CASE k = n
  <2>1. i \in DOMAIN s /\ s[i][2] = x[2]
    BY <1>1, <1>3
  <2>2. PICK first \in DOMAIN s :
          \A m \in DOMAIN s : /\ m < first => s[m][2] # x[2]
                              /\ m > first => s[m][2] \in {x[2], NoClient}
    BY <1>1, <1>3, <2>1 DEF FreshIn, OpenIn
  <2>3. first <= i
    BY <1>1, <2>1, <2>2
  <2>4. CASE j \in DOMAIN s
    BY <1>1, <2>1, <2>2, <2>3, <2>4
  <2>5. CASE j \notin DOMAIN s
    BY <1>1, <1>3, <2>1, <2>5
  <2> QED BY <2>4, <2>5
<1> QED BY <1>1, <1>2, <1>3

\* Sequences of no, one and two lines.
LEMMA ConcatLines ==
    ASSUME NEW s \in Seq(Line), NEW x \in Line, NEW y \in Line
    PROVE  /\ s \o <<>> = s
           /\ s \o <<x>> = Append(s, x)
           /\ s \o <<x, y>> = Append(Append(s, x), y)
OBVIOUS

-----------------------------------------------------------------------------
(* The inductive invariant.                                                *)

\* The line of a 505 may wait in the buffer of stdout until the next flush.
BufferPCs == {"close", "while", "accept", "accepting", "exit", "recv",
              "receiving", "parse"}
\* The request is in the log, and the status is not.
OpenPCs == {"check", "send_505", "log_505", "stat_index", "open", "status",
            "headers", "body", "sending", "log"}

\* Nothing has been read from c.
Unread(c) ==
    \/ asked[c] = <<>>
    \/ \E i \in DOMAIN queue : queue[i] = c
    \/ c = cur /\ pc \in {"recv", "receiving", "parse"}

\* The line of c is the one that waits.
Waits(c) == buf = <<<<"505", c>>>> /\ WasSent(c, "505")

\* All has been printed about c that will be.
Done(c) ==
    \/ FreshIn(log, c) /\ got[c].status = NoStatus
    \/ Waits(c)
    \/ \E s \in Statuses : Reported(log, c, s) /\ WasSent(c, s)

BufferedInv ==
    buf = <<>> \/ (/\ pc \in BufferPCs
                   /\ \E c \in Client : Waits(c) /\ OpenIn(log, c))

\* The client being served.
CurInv ==
    /\ pc \in OpenPCs => OpenIn(log, cur)
    /\ pc = "log_505" => WasSent(cur, "505")
    /\ pc \in {"headers", "body", "sending", "log"} =>
         WasSent(cur, res.status)
    /\ pc = "send_400" => Reported(log, cur, "400")
    /\ pc \in {"destroy", "close"} => Done(cur)

LogInv ==
    /\ log \in Seq(Line) /\ buf \in Seq(Line)
    /\ InOrder(log)
    /\ BufferedInv
    /\ \A c \in Client : Unread(c) => FreshIn(log, c)
    /\ CurInv
    /\ \A c \in Client \ {cur} : Done(c)

-----------------------------------------------------------------------------
(* A flush.                                                                *)

\* Done, by what is in s alone.
DoneIn(s, c) ==
    \/ FreshIn(s, c) /\ got[c].status = NoStatus
    \/ \E k \in Statuses : Reported(s, c, k) /\ WasSent(c, k)

LEMMA LinesType ==
    /\ \A k \in Statuses \cup {"received", "bad"}, c \in Client :
         <<k, c>> \in Line /\ <<k, c>>[1] = k /\ <<k, c>>[2] = c
    /\ <<"accept", NoClient>> \in Line
BY DEF Line

\* What the log is once the buffer is written.
LEMMA Flushed ==
    ASSUME LogInv
    PROVE  /\ log \o buf \in Seq(Line) /\ InOrder(log \o buf)
           /\ \A c \in Client : FreshIn(log, c) => FreshIn(log \o buf, c)
           /\ \A c \in Client : Done(c) => DoneIn(log \o buf, c)
           /\ pc \notin BufferPCs => log \o buf = log
<1>1. CASE buf = <<>>
  <2>1. log \o buf = log
    BY <1>1 DEF LogInv
  <2>2. \A c \in Client : ~Waits(c)
    BY <1>1 DEF Waits
  <2> QED BY <2>1, <2>2 DEF LogInv, Done, DoneIn
<1>2. CASE buf # <<>>
  <2>1. PICK d \in Client : Waits(d) /\ OpenIn(log, d)
    BY <1>2 DEF LogInv, BufferedInv
  <2> DEFINE x == <<"505", d>>
             t == Append(log, x)
  <2>2. /\ log \in Seq(Line) /\ InOrder(log) /\ pc \in BufferPCs
        /\ x \in Line /\ x[1] = "505" /\ x[2] = d
        /\ "505" \in Statuses
    BY <1>2, LinesType DEF LogInv, BufferedInv, Statuses
  <2>3. log \o buf = t
    BY <2>1, <2>2, ConcatLines DEF Waits
  <2> HIDE DEF x
  <2>4. t \in Seq(Line) /\ InOrder(t)
    BY <2>1, <2>2, AppendInOrder, AppendLine
  <2>5. Reported(t, d, "505")
    BY <2>1, <2>2, AppendStatus
  <2>6. \A c \in Client : FreshIn(log, c) => c # d
    BY <2>1 DEF FreshIn, OpenIn
  <2>7. \A c \in Client \ {d} :
          /\ FreshIn(log, c) => FreshIn(t, c)
          /\ \A k : Reported(log, c, k) => Reported(t, c, k)
    BY <2>2, AppendOther
  <2>8. \A c \in Client : Waits(c) => c = d
    BY <2>1 DEF Waits
  <2>9. WasSent(d, "505")
    BY <2>1 DEF Waits
  <2> HIDE DEF t
  <2>10. \A c \in Client : Done(c) => DoneIn(t, c)
    BY <2>2, <2>5, <2>6, <2>7, <2>8, <2>9 DEF Done, DoneIn
  <2> QED BY <2>2, <2>3, <2>4, <2>6, <2>7, <2>10
<1> QED BY <1>1, <1>2

-----------------------------------------------------------------------------
(* The steps.                                                              *)

\* Nothing is printed.
LEMMA NothingPrinted ==
    ASSUME LogInv, UNCHANGED <<log, buf, cur>>, gone \subseteq gone',
           \A c \in Client :
             got'[c].status = got[c].status \/ (c = cur /\ buf = <<>>),
           \A c \in Client : Unread(c)' => Unread(c),
           buf # <<>> => pc' \in BufferPCs,
           CurInv'
    PROVE  LogInv'
<1>1. \A c \in Client \ {cur} :
        got'[c].status = got[c].status /\ (c \in gone => c \in gone')
  OBVIOUS
<1>2. \A c \in Client \ {cur}, s \in Statuses :
        WasSent(c, s) => WasSent(c, s)'
  BY <1>1 DEF WasSent
<1>3. "505" \in Statuses
  BY DEF Statuses
<1>4. \A c \in Client \ {cur} : Done(c)'
  BY <1>1, <1>2, <1>3 DEF LogInv, Done, Waits
<1>5. BufferedInv'
  <2>1. ASSUME NEW c \in Client, Waits(c)
        PROVE  Waits(c)'
    BY <2>1 DEF Waits, WasSent
  <2> QED BY <2>1 DEF LogInv, BufferedInv
<1> QED BY <1>4, <1>5 DEF LogInv

\* Lines about cur are printed and flushed; the log is t now.
LEMMA LinesPrinted ==
    ASSUME LogInv, NEW t \in Seq(Line), log' = t, buf' = <<>>, InOrder(t),
           UNCHANGED <<cur, got, gone>>,
           \A c \in Client \ {cur} :
             /\ FreshIn(log \o buf, c) => FreshIn(t, c)
             /\ \A k : Reported(log \o buf, c, k) => Reported(t, c, k),
           \A c \in Client : Unread(c)' => Unread(c) /\ c # cur,
           CurInv'
    PROVE  LogInv'
<1>1. \A c \in Client \ {cur} : DoneIn(log \o buf, c)
  BY Flushed DEF LogInv
<1>2. \A c \in Client : \A s : WasSent(c, s)' <=> WasSent(c, s)
  BY DEF WasSent
<1>3. \A c \in Client \ {cur} : Done(c)'
  BY <1>1, <1>2 DEF DoneIn, Done
<1>4. \A c \in Client : Unread(c)' => FreshIn(t, c)
  BY Flushed DEF LogInv
<1>5. BufferedInv' /\ buf' \in Seq(Line)
  BY DEF BufferedInv
<1> QED BY <1>3, <1>4, <1>5 DEF LogInv

LEMMA AcceptKeepsLog ==
    ASSUME IInv, LogInv, Accept
    PROVE  LogInv'
<1>1. /\ queue \in Seq(Client) /\ queue # <<>>
      /\ cur' = queue[1] /\ 1 \in DOMAIN queue /\ queue' = Tail(queue)
      /\ pc \in {"accept", "accepting"} /\ pc' = "recv"
      /\ UNCHANGED <<log, buf, asked, got, gone>>
      /\ cur = NoClient
  BY DEF Accept, IInv, Types, LoopType, ClientType, Idle, outVars
<1>2. \A i \in DOMAIN queue' :
        i + 1 \in DOMAIN queue /\ queue'[i] = queue[i + 1]
  BY <1>1
<1>3. \A c \in Client : Unread(c)' => Unread(c)
  BY <1>1, <1>2 DEF Unread
<1>4. \A c \in Client : Done(c)' <=> Done(c)
  BY <1>1 DEF Done, Waits, WasSent
<1>5. BufferedInv'
  BY <1>1 DEF LogInv, BufferedInv, BufferPCs, Waits, WasSent
<1>6. CurInv'
  BY <1>1 DEF CurInv, OpenPCs
<1>7. NoClient \notin Client
  BY ServerAssumption
<1> QED BY <1>1, <1>3, <1>4, <1>5, <1>6, <1>7 DEF LogInv

LEMMA CloseKeepsLog ==
    ASSUME IInv, LogInv, Close
    PROVE  LogInv'
<1>1. /\ pc = "close" /\ pc' = "while" /\ cur' = NoClient
      /\ UNCHANGED <<log, buf, queue, asked, got, gone>>
      /\ cur \in Client
  BY DEF Close, IInv, Types, LoopType, Idle, outVars
<1>2. \A c \in Client : Done(c)' <=> Done(c)
  BY <1>1 DEF Done, Waits, WasSent
<1>3. \A c \in Client : Done(c)
  BY <1>1 DEF LogInv, CurInv
<1>4. \A c \in Client : Unread(c)' => Unread(c)
  BY <1>1 DEF Unread
<1>5. BufferedInv'
  BY <1>1 DEF LogInv, BufferedInv, BufferPCs, Waits, WasSent
<1>6. CurInv'
  BY <1>1 DEF CurInv, OpenPCs
<1> QED BY <1>1, <1>2, <1>3, <1>4, <1>5, <1>6 DEF LogInv

\* The message of accept may be printed before a 505 that waits.
LEMMA AcceptFailsKeepsLog ==
    ASSUME IInv, LogInv, AcceptFails
    PROVE  LogInv'
<1> DEFINE x == <<"accept", NoClient>>
<1>1. /\ log' = Append(log, x) /\ pc = "accept" /\ pc' = "while"
      /\ UNCHANGED <<buf, cur, queue, asked, got, gone>>
      /\ cur = NoClient
  BY DEF AcceptFails, AcceptFailing, IInv, Types, LoopType, Idle, clientVars
<1>2. x \in Line /\ x[2] = NoClient /\ NoClient \notin Client
  BY LinesType, ServerAssumption
<1> HIDE DEF x
<1>3. log \in Seq(Line) /\ log' \in Seq(Line) /\ InOrder(log')
  BY <1>1, <1>2, AppendInOrder, AppendLine DEF LogInv
<1>4. \A c \in Client :
        /\ FreshIn(log, c) => FreshIn(log', c)
        /\ \A k : Reported(log, c, k) => Reported(log', c, k)
        /\ OpenIn(log, c) => OpenIn(log', c)
  BY <1>1, <1>2, <1>3, AppendOther, AppendNobody
<1>5. \A c \in Client : Done(c) => Done(c)'
  BY <1>1, <1>4 DEF Done, Waits, WasSent
<1>6. BufferedInv'
  BY <1>1, <1>4 DEF LogInv, BufferedInv, BufferPCs, Waits, WasSent
<1>7. CurInv' /\ \A c \in Client : Unread(c)' => Unread(c)
  BY <1>1 DEF CurInv, OpenPCs, Unread
<1> QED BY <1>1, <1>2, <1>3, <1>4, <1>5, <1>6, <1>7 DEF LogInv

\* A client that is being read from or served is in no queue.
LEMMA CurRead ==
    ASSUME IInv, cur \in Client, UNCHANGED <<queue, asked, cur>>,
           pc' \notin {"recv", "receiving", "parse"}, NEW c \in Client,
           Unread(c)'
    PROVE  Unread(c) /\ c # cur
BY DEF Unread, IInv, QueueInv

LEMMA PrintKeepsLog ==
    ASSUME IInv, LogInv, ParseRequest \/ RefuseHost \/ LogResponse \/ Exit
    PROVE  LogInv'
<1> DEFINE out == log \o buf
<1>0. /\ cur \in IF Idle THEN {NoClient} ELSE Client
      /\ NoClient \notin Client /\ queue \in Seq(Client)
  BY ServerAssumption DEF IInv, Types, LoopType, ClientType
<1>1. /\ out \in Seq(Line) /\ InOrder(out)
      /\ pc \notin BufferPCs => out = log
  BY Flushed
<1>2. ASSUME NEW k \in {"received", "bad"}, cur \in Client,
             FreshIn(out, cur) \/ OpenIn(out, cur)
      PROVE  /\ Append(out, <<k, cur>>) \in Seq(Line)
             /\ InOrder(Append(out, <<k, cur>>))
             /\ OpenIn(Append(out, <<k, cur>>), cur)
             /\ \A c \in Client \ {cur} :
                  /\ FreshIn(out, c) => FreshIn(Append(out, <<k, cur>>), c)
                  /\ \A s : Reported(out, c, s)
                              => Reported(Append(out, <<k, cur>>), c, s)
  <2> DEFINE x == <<k, cur>>
  <2>1. x \in Line /\ x[1] = k /\ x[2] = cur /\ k \notin Statuses
    BY <1>2, LinesType DEF Statuses
  <2> HIDE DEF x, out
  <2>2. Append(out, x) \in Seq(Line) /\ InOrder(Append(out, x))
    BY <1>1, <1>2, <2>1, AppendInOrder, AppendLine
  <2>3. OpenIn(Append(out, x), cur)
    BY <1>1, <1>2, <2>1, AppendFirst, AppendMore
  <2>4. \A c \in Client \ {cur} :
          /\ FreshIn(out, c) => FreshIn(Append(out, x), c)
          /\ \A s : Reported(out, c, s) => Reported(Append(out, x), c, s)
    BY <1>1, <2>1, AppendOther
  <2> QED BY <2>2, <2>3, <2>4 DEF x
<1>3. ASSUME NEW s \in Seq(Line), InOrder(s), OpenIn(s, cur), cur \in Client,
             NEW k \in Statuses
      PROVE  /\ Append(s, <<k, cur>>) \in Seq(Line)
             /\ InOrder(Append(s, <<k, cur>>))
             /\ Reported(Append(s, <<k, cur>>), cur, k)
             /\ \A c \in Client \ {cur} :
                  /\ FreshIn(s, c) => FreshIn(Append(s, <<k, cur>>), c)
                  /\ \A j : Reported(s, c, j)
                              => Reported(Append(s, <<k, cur>>), c, j)
  <2> DEFINE x == <<k, cur>>
  <2>1. x \in Line /\ x[1] = k /\ x[2] = cur
    BY <1>3, LinesType
  <2> HIDE DEF x
  <2>2. Append(s, x) \in Seq(Line) /\ InOrder(Append(s, x))
    BY <1>3, <2>1, AppendInOrder, AppendLine
  <2>3. Reported(Append(s, x), cur, k)
    BY <1>3, <2>1, AppendStatus
  <2>4. \A c \in Client \ {cur} :
          /\ FreshIn(s, c) => FreshIn(Append(s, x), c)
          /\ \A j : Reported(s, c, j) => Reported(Append(s, x), c, j)
    BY <2>1, AppendOther
  <2> QED BY <2>2, <2>3, <2>4 DEF x
<1>4. ASSUME cur \in Client, FreshIn(out, cur) \/ OpenIn(out, cur),
             log' = out \o Bad(cur), buf' = <<>>, pc' = "send_400",
             UNCHANGED <<cur, got, gone, queue, asked>>
      PROVE  LogInv'
  <2> DEFINE s == Append(out, <<"bad", cur>>)
             t == Append(s, <<"400", cur>>)
  <2>1. log' = t
    <3> DEFINE x == <<"bad", cur>>
               y == <<"400", cur>>
    <3>1. x \in Line /\ y \in Line
      BY <1>4, LinesType DEF Statuses
    <3>2. log' = out \o <<x, y>>
      BY <1>4 DEF Bad
    <3>3. t = Append(Append(out, x), y)
      OBVIOUS
    <3> HIDE DEF x, y, out, t
    <3> QED BY <1>1, <3>1, <3>2, <3>3, ConcatLines
  <2>2. /\ s \in Seq(Line) /\ InOrder(s) /\ OpenIn(s, cur)
        /\ \A c \in Client \ {cur} :
             /\ FreshIn(out, c) => FreshIn(s, c)
             /\ \A k : Reported(out, c, k) => Reported(s, c, k)
    BY <1>2, <1>4
  <2> HIDE DEF s
  <2>3. /\ t \in Seq(Line) /\ InOrder(t) /\ Reported(t, cur, "400")
        /\ \A c \in Client \ {cur} :
             /\ FreshIn(s, c) => FreshIn(t, c)
             /\ \A k : Reported(s, c, k) => Reported(t, c, k)
    BY <1>3, <1>4, <2>2 DEF Statuses
  <2> HIDE DEF t
  <2>4. CurInv'
    BY <1>4, <2>1, <2>3 DEF CurInv, OpenPCs
  <2>5. \A c \in Client : Unread(c)' => Unread(c) /\ c # cur
    BY <1>4, CurRead
  <2> QED BY <1>4, <2>1, <2>2, <2>3, <2>4, <2>5, LinesPrinted
<1>5. CASE ParseRequest
  <2>1. /\ pc = "parse" /\ cur \in Client
        /\ UNCHANGED <<cur, got, gone, queue, asked>>
    BY <1>0, <1>5 DEF ParseRequest, Idle, clientVars
  <2>2. FreshIn(out, cur)
    BY <2>1, Flushed DEF LogInv, Unread
  <2>3. CASE pc' = "send_400"
    BY <1>4, <1>5, <2>1, <2>2, <2>3 DEF ParseRequest, PrintFlush
  <2>4. CASE pc' # "send_400"
    <3> DEFINE t == Append(out, <<"received", cur>>)
    <3>1. /\ pc' = "check" /\ buf' = <<>>
          /\ log' = out \o <<<<"received", cur>>>>
      BY <1>5, <2>4 DEF ParseRequest, PrintFlush
    <3>2. log' = t
      BY <1>1, <2>1, <3>1, LinesType, ConcatLines
    <3>3. /\ t \in Seq(Line) /\ InOrder(t) /\ OpenIn(t, cur)
          /\ \A c \in Client \ {cur} :
               /\ FreshIn(out, c) => FreshIn(t, c)
               /\ \A k : Reported(out, c, k) => Reported(t, c, k)
      BY <1>2, <2>1, <2>2
    <3> HIDE DEF t
    <3>4. CurInv'
      BY <2>1, <3>1, <3>2, <3>3 DEF CurInv, OpenPCs
    <3>5. \A c \in Client : Unread(c)' => Unread(c) /\ c # cur
      BY <2>1, <3>1, CurRead
    <3> QED BY <2>1, <3>1, <3>2, <3>3, <3>4, <3>5, LinesPrinted
  <2> QED BY <2>3, <2>4
<1>6. CASE RefuseHost
  <2>1. /\ pc = "check" /\ cur \in Client /\ pc' = "send_400"
        /\ UNCHANGED <<cur, got, gone, queue, asked>>
        /\ log' = out \o Bad(cur) /\ buf' = <<>>
    BY <1>0, <1>6 DEF RefuseHost, Prints, PrintFlush, Idle, clientVars
  <2>2. OpenIn(out, cur)
    BY <1>1, <2>1 DEF LogInv, CurInv, OpenPCs, BufferPCs
  <2> QED BY <1>4, <2>1, <2>2
<1>7. CASE LogResponse
  <2> DEFINE t == Append(out, <<res.status, cur>>)
  <2>1. /\ pc = "log" /\ cur \in Client /\ pc' = "destroy"
        /\ UNCHANGED <<cur, got, gone, queue, asked>>
        /\ log' = out \o <<<<res.status, cur>>>> /\ buf' = <<>>
    BY <1>0, <1>7 DEF LogResponse, Prints, PrintFlush, Idle, clientVars
  <2>2. res.status \in Statuses
    BY <2>1 DEF IInv, StatusInv, AnswerPCs
  <2>3. log' = t
    BY <1>1, <2>1, <2>2, LinesType, ConcatLines
  <2>4. OpenIn(out, cur) /\ WasSent(cur, res.status)
    BY <1>1, <2>1 DEF LogInv, CurInv, OpenPCs, BufferPCs
  <2>5. /\ t \in Seq(Line) /\ InOrder(t) /\ Reported(t, cur, res.status)
        /\ \A c \in Client \ {cur} :
             /\ FreshIn(out, c) => FreshIn(t, c)
             /\ \A k : Reported(out, c, k) => Reported(t, c, k)
    BY <1>1, <1>3, <2>1, <2>2, <2>4
  <2> HIDE DEF t
  <2>6. Done(cur)'
    BY <2>1, <2>2, <2>3, <2>4, <2>5 DEF Done, WasSent
  <2>7. CurInv'
    BY <2>1, <2>6 DEF CurInv, OpenPCs
  <2>8. \A c \in Client : Unread(c)' => Unread(c) /\ c # cur
    BY <2>1, CurRead
  <2> QED BY <2>1, <2>3, <2>5, <2>7, <2>8, LinesPrinted
<1>8. CASE Exit
  <2>1. /\ pc = "exit" /\ pc' = "stopped" /\ cur = NoClient
        /\ UNCHANGED <<cur, got, gone, asked>> /\ queue' = <<>>
        /\ log' = out \o <<>> /\ buf' = <<>>
    BY <1>0, <1>8 DEF Exit, PrintFlush, Idle
  <2>2. log' = out
    BY <1>1, <2>1
  <2>3. CurInv' /\ \A c \in Client : Unread(c)' => Unread(c) /\ c # cur
    BY <1>0, <2>1 DEF CurInv, OpenPCs, Unread
  <2> QED BY <1>1, <2>1, <2>2, <2>3, LinesPrinted
<1> QED BY <1>5, <1>6, <1>7, <1>8

LEMMA Log505KeepsLog ==
    ASSUME IInv, LogInv, Log505
    PROVE  LogInv'
<1>1. /\ pc = "log_505" /\ pc' = "close" /\ cur \in Client
      /\ buf' = Append(buf, <<"505", cur>>)
      /\ UNCHANGED <<log, cur, got, gone, queue, asked>>
  BY DEF Log505, IInv, Types, LoopType, Idle, clientVars
<1>2. buf = <<>> /\ OpenIn(log, cur) /\ WasSent(cur, "505")
  BY <1>1 DEF LogInv, BufferedInv, BufferPCs, CurInv, OpenPCs
<1>3. buf' = <<<<"505", cur>>>> /\ buf' \in Seq(Line)
  BY <1>1, <1>2, LinesType DEF Statuses
<1>4. Waits(cur)' /\ BufferedInv' /\ CurInv'
  BY <1>1, <1>2, <1>3
  DEF Waits, WasSent, BufferedInv, BufferPCs, CurInv, OpenPCs, Done
<1>5. \A c \in Client : Done(c) => Done(c)'
  BY <1>1, <1>2 DEF Done, Waits, WasSent
<1>6. \A c \in Client : Unread(c)' => Unread(c)
  BY <1>1 DEF Unread
<1> QED BY <1>1, <1>3, <1>4, <1>5, <1>6 DEF LogInv

\* A crash loses nothing of the log: all has been flushed by then.
LEMMA CrashKeepsLog ==
    ASSUME IInv, LogInv, Crash
    PROVE  LogInv'
<1>1. /\ pc \in {"check", "stat_index", "open"} /\ pc' = "crashed"
      /\ buf' = <<>> /\ queue' = <<>>
      /\ UNCHANGED <<log, cur, got, gone, asked>>
  BY DEF Crash, Serve
<1>2. buf = <<>>
  BY <1>1 DEF LogInv, BufferedInv, BufferPCs
<1>3. CurInv' /\ \A c \in Client : Unread(c)' => Unread(c)
  BY <1>1 DEF CurInv, OpenPCs, Unread
<1> QED BY <1>1, <1>2, <1>3, NothingPrinted

\* What was sent to a client is not taken back.
LEMMA SentStays ==
    ASSUME UNCHANGED <<log, buf>>, gone \subseteq gone', NEW c,
           got'[c].status = got[c].status
    PROVE  /\ \A s : WasSent(c, s) => WasSent(c, s)'
           /\ Done(c) => Done(c)'
BY DEF WasSent, Done, Waits

LEMMA OnlyKeepsLog ==
    ASSUME IInv, LogInv,
           \/ TestActif \/ AcceptBlocks \/ RecvBlocks \/ RecvEnd
           \/ RefuseVersion \/ SendFails
    PROVE  LogInv'
<1>1. UNCHANGED <<log, buf, cur, queue, asked, gone, got, res>>
  BY DEF TestActif, AcceptBlocks, RecvBlocks, RecvEnd, RefuseVersion,
         SendFails, Only, outVars, clientVars, replyVars
<1>2. \/ pc = "while" /\ pc' \in {"accept", "exit"}
      \/ pc = "accept" /\ pc' = "accepting"
      \/ pc = "recv" /\ pc' = "receiving"
      \/ pc \in {"recv", "receiving"} /\ pc' = "close"
      \/ pc = "check" /\ pc' = "send_505"
      \/ pc = "sending" /\ pc' = "log"
  BY DEF TestActif, AcceptBlocks, RecvBlocks, RecvEnd, Receiving,
         RefuseVersion, SendFails, Only
<1>3. \A c \in Client : Unread(c)' => Unread(c)
  BY <1>1, <1>2 DEF Unread
<1>4. buf # <<>> => pc' \in BufferPCs
  BY <1>2 DEF LogInv, BufferedInv, BufferPCs
<1>5. pc \in {"recv", "receiving"} => Done(cur)
  <2> SUFFICES ASSUME pc \in {"recv", "receiving"} PROVE Done(cur)
    OBVIOUS
  <2>1. cur \in Client /\ got[cur] = Nothing
    BY DEF IInv, Types, LoopType, Idle, StatusInv, BeforePCs
  <2> QED BY <2>1 DEF LogInv, Unread, Done, Nothing
<1>6. \A s : WasSent(cur, s) => WasSent(cur, s)'
  BY <1>1, SentStays
<1>7. Done(cur) => Done(cur)'
  BY <1>1, SentStays
<1>8. CurInv'
  BY <1>1, <1>2, <1>5, <1>6, <1>7 DEF LogInv, CurInv, OpenPCs
<1> QED BY <1>1, <1>3, <1>4, <1>8, NothingPrinted

LEMMA CreateKeepsLog ==
    ASSUME IInv, LogInv,
           RefuseMethod \/ StatTarget \/ StatIndex \/ Open \/ OpenFails
    PROVE  LogInv'
<1>1. /\ UNCHANGED <<log, buf, cur, queue, asked, gone, got>>
      /\ pc \in {"check", "stat_index", "open"}
      /\ pc' \in {"stat_index", "open", "status"}
  BY DEF RefuseMethod, StatTarget, StatIndex, Open, OpenFails, Stat, Serve,
         Answer, outVars, clientVars
<1>2. buf = <<>> /\ \A c \in Client : Unread(c)' => Unread(c)
  BY <1>1 DEF LogInv, BufferedInv, BufferPCs, Unread
<1>3. CurInv'
  BY <1>1 DEF LogInv, CurInv, OpenPCs
<1> QED BY <1>1, <1>2, <1>3, NothingPrinted

LEMMA TakesKeepsLog ==
    ASSUME IInv, LogInv, Recv
    PROVE  LogInv'
<1>1. /\ UNCHANGED <<log, buf, cur, queue, asked, gone, got>>
      /\ pc \in {"recv", "receiving"} /\ pc' = "parse"
  BY DEF Recv, Receiving, Takes, outVars
<1>2. pc' \in BufferPCs /\ \A c \in Client : Unread(c)' => Unread(c)
  BY <1>1 DEF BufferPCs, Unread
<1>3. CurInv'
  BY <1>1 DEF CurInv, OpenPCs
<1> QED BY <1>1, <1>2, <1>3, NothingPrinted

LEMMA DestroyKeepsLog ==
    ASSUME IInv, LogInv, Destroy
    PROVE  LogInv'
<1>1. /\ UNCHANGED <<log, buf, cur, queue, asked, gone, got>>
      /\ pc = "destroy" /\ pc' = "close"
  BY DEF Destroy, Destroys, outVars, clientVars
<1>2. pc' \in BufferPCs /\ \A c \in Client : Unread(c)' => Unread(c)
  BY <1>1 DEF BufferPCs, Unread
<1>3. CurInv'
  BY <1>1, SentStays DEF LogInv, CurInv, OpenPCs
<1> QED BY <1>1, <1>2, <1>3, NothingPrinted

LEMMA SendsKeepsLog ==
    ASSUME IInv, LogInv, NEW l, NEW g, Sends(l, g), pc \notin BufferPCs,
           l \notin {"recv", "receiving", "parse"}, CurInv'
    PROVE  LogInv'
<1>1. /\ UNCHANGED <<log, buf, cur, queue, asked, gone>> /\ pc' = l
      /\ buf = <<>>
      /\ got' = IF cur \in gone THEN got ELSE [got EXCEPT ![cur] = g]
  BY DEF Sends, LogInv, BufferedInv, outVars, clientVars
<1>2. \A c \in Client : c # cur => got'[c] = got[c]
  BY <1>1 DEF IInv, Types, ReplyType
<1>3. \A c \in Client : Unread(c)' => Unread(c)
  BY <1>1 DEF Unread
<1> QED BY <1>1, <1>2, <1>3, NothingPrinted

\* The status line.
LEMMA StatusKeepsLog ==
    ASSUME IInv, LogInv, Send400 \/ Send505 \/ SendStatus
    PROVE  LogInv'
<1>0. /\ pc \in {"send_400", "send_505", "status"} /\ cur \in Client
      /\ got \in [Client -> GotType] /\ got[cur] = Nothing
      /\ pc \notin BufferPCs
  BY DEF Send400, Send505, SendStatus, IInv, Types, LoopType, ReplyType, Idle,
         StatusInv, BeforePCs, BufferPCs
<1>1. ASSUME NEW l, NEW g, NEW s, Sends(l, g), g.status = s
      PROVE  WasSent(cur, s)' /\ log' = log /\ cur' = cur /\ pc' = l
  BY <1>0, <1>1 DEF Sends, WasSent, Nothing, outVars, clientVars
<1>2. CASE Send400
  <2> DEFINE g == [Nothing EXCEPT !.status = "400", !.headers = TRUE]
  <2>1. Sends("close", g) /\ g.status = "400" /\ pc = "send_400"
    BY <1>2 DEF Send400, Nothing
  <2> HIDE DEF g
  <2>2. /\ WasSent(cur, "400")' /\ log' = log /\ cur' = cur
        /\ pc' = "close"
    BY <1>1, <2>1
  <2>3. Reported(log, cur, "400")
    BY <2>1 DEF LogInv, CurInv
  <2>4. CurInv'
    BY <2>2, <2>3 DEF CurInv, OpenPCs, Done, Statuses
  <2> QED BY <1>0, <2>1, <2>4, SendsKeepsLog
<1>3. CASE Send505
  <2> DEFINE g == [Nothing EXCEPT !.status = "505", !.headers = TRUE]
  <2>1. Sends("log_505", g) /\ g.status = "505" /\ pc = "send_505"
    BY <1>3 DEF Send505, Nothing
  <2> HIDE DEF g
  <2>2. /\ WasSent(cur, "505")' /\ log' = log /\ cur' = cur
        /\ pc' = "log_505"
    BY <1>1, <2>1
  <2>3. CurInv'
    BY <2>1, <2>2 DEF LogInv, CurInv, OpenPCs
  <2> QED BY <1>0, <2>1, <2>3, SendsKeepsLog
<1>4. CASE SendStatus
  <2> DEFINE g == [got[cur] EXCEPT !.status = res.status]
  <2>1. Sends("headers", g) /\ g.status = res.status /\ pc = "status"
    BY <1>0, <1>4 DEF SendStatus, Nothing
  <2> HIDE DEF g
  <2>2. /\ \A s : s = res.status => WasSent(cur, s)'
        /\ log' = log /\ cur' = cur /\ pc' = "headers"
    BY <1>1, <2>1
  <2>3. res' = res
    BY <2>1 DEF Sends, replyVars
  <2>4. WasSent(cur, res.status)'
    BY <2>2, <2>3 DEF WasSent
  <2>5. CurInv'
    BY <2>1, <2>2, <2>3, <2>4 DEF LogInv, CurInv, OpenPCs
  <2> QED BY <1>0, <2>1, <2>5, SendsKeepsLog
<1> QED BY <1>2, <1>3, <1>4

\* What follows the status line.
LEMMA BodyKeepsLog ==
    ASSUME IInv, LogInv, NEW l \in {"body", "sending", "log"}, NEW g,
           Sends(l, g), g.status = got[cur].status,
           pc \in {"headers", "body", "sending"}
    PROVE  LogInv'
<1>1. /\ UNCHANGED <<log, buf, cur, gone, res>> /\ pc' = l
      /\ got' = IF cur \in gone THEN got ELSE [got EXCEPT ![cur] = g]
      /\ cur \in Client /\ got \in [Client -> GotType]
  BY DEF Sends, outVars, clientVars, replyVars, IInv, Types, LoopType,
         ReplyType, Idle
<1>2. got'[cur].status = got[cur].status
  BY <1>1
<1>3. WasSent(cur, res.status)'
  BY <1>1, <1>2, SentStays DEF LogInv, CurInv
<1>4. CurInv'
  BY <1>1, <1>3 DEF LogInv, CurInv, OpenPCs
<1>5. pc \notin BufferPCs
  BY DEF BufferPCs
<1> QED BY <1>4, <1>5, SendsKeepsLog

LEMMA RestKeepsLog ==
    ASSUME IInv, LogInv,
           \/ SendHeaders \/ SendBody \/ SigintWakes
           \/ \E c \in Client : Drain(c)
    PROVE  LogInv'
<1>0. /\ got \in [Client -> GotType] /\ res \in ResType
      /\ cur \in IF Idle THEN {NoClient} ELSE Client
  BY DEF IInv, Types, ReplyType, LoopType
<1>1. \A n : cur \in Client =>
        /\ [got[cur] EXCEPT !.body = n].status = got[cur].status
        /\ [got[cur] EXCEPT !.length = n, !.headers = TRUE].status
             = got[cur].status
  BY <1>0 DEF GotType
<1>2. CASE SendHeaders
  <2>1. pc = "headers" /\ cur \in Client
    BY <1>0, <1>2 DEF SendHeaders, Idle
  <2>2. PICK l \in {"body", "log"} :
             \/ Sends(l, got[cur])
             \/ Sends(l, [got[cur] EXCEPT !.length = res.length,
                                          !.headers = TRUE])
    BY <1>2 DEF SendHeaders
  <2> QED BY <1>1, <2>1, <2>2, BodyKeepsLog
<1>3. CASE SendBody
  <2>1. pc = "body" /\ cur \in Client
    BY <1>0, <1>3 DEF SendBody, Idle
  <2>2. PICK l \in {"sending", "log"}, n \in {BodyNow, SocketBuffer} :
             Sends(l, [got[cur] EXCEPT !.body = n])
    BY <1>3 DEF SendBody
  <2> QED BY <1>1, <2>1, <2>2, BodyKeepsLog
<1>4. ASSUME NEW c \in Client, Drain(c)
      PROVE  LogInv'
  <2>1. pc = "sending" /\ cur = c
    BY <1>4 DEF Drain
  <2>2. PICK n : Sends("log", [got[cur] EXCEPT !.body = n])
    BY <1>4, <2>1 DEF Drain
  <2> QED BY <1>1, <2>1, <2>2, BodyKeepsLog
<1>5. CASE SigintWakes
  <2>0. UNCHANGED <<cur, fds, replyVars, outVars, clientVars, fileVars>>
    BY <1>5 DEF SigintWakes
  <2>1. CASE pc = "sending"
    <3>1. pc' = "log" /\ cur \in Client
      BY <1>0, <1>5, <2>1 DEF SigintWakes, Idle
    <3>2. PICK n : got' = [got EXCEPT ![cur].body = n]
      BY <1>5, <2>1 DEF SigintWakes
    <3>3. \A c \in Client : got'[c].status = got[c].status
      BY <1>0, <3>1, <3>2 DEF GotType
    <3>4. WasSent(cur, res.status)'
      BY <2>0, <2>1, <3>1, <3>3, SentStays
      DEF LogInv, CurInv, outVars, clientVars, replyVars
    <3>5. CurInv'
      BY <2>0, <2>1, <3>1, <3>4
      DEF LogInv, CurInv, OpenPCs, outVars, replyVars
    <3>6. buf = <<>> /\ \A c \in Client : Unread(c)' => Unread(c)
      BY <2>0, <2>1, <3>1
      DEF LogInv, BufferedInv, BufferPCs, Unread, clientVars
    <3> QED BY <2>0, <3>3, <3>5, <3>6, NothingPrinted
         DEF outVars, clientVars
  <2>2. CASE pc # "sending"
    <3>1. /\ got' = got
          /\ \/ pc = "accepting" /\ pc' = "while"
             \/ pc = "receiving" /\ pc' = "close"
      BY <1>5, <2>2 DEF SigintWakes
    <3>2. pc = "receiving" => Done(cur)
      <4> SUFFICES ASSUME pc = "receiving" PROVE Done(cur)
        OBVIOUS
      <4>1. cur \in Client /\ got[cur] = Nothing
        BY <1>0 DEF Idle, IInv, StatusInv, BeforePCs
      <4> QED BY <4>1 DEF LogInv, Unread, Done, Nothing
    <3>3. Done(cur) => Done(cur)'
      BY <2>0, <3>1, SentStays DEF outVars, clientVars
    <3>4. CurInv'
      BY <2>0, <3>1, <3>2, <3>3
      DEF LogInv, CurInv, OpenPCs, outVars, replyVars
    <3>5. /\ pc' \in BufferPCs
          /\ \A c \in Client : Unread(c)' => Unread(c)
      BY <2>0, <3>1 DEF BufferPCs, Unread, clientVars
    <3> QED BY <2>0, <3>1, <3>4, <3>5, NothingPrinted
         DEF outVars, clientVars
  <2> QED BY <2>1, <2>2
<1> QED BY <1>2, <1>3, <1>4, <1>5

LEMMA EnvironmentKeepsLog ==
    ASSUME IInv, LogInv,
           \/ Sigint
           \/ \E c \in Client : Send(c) \/ HangUp(c)
           \/ \E c \in Client, r \in Requests : Connect(c, r)
           \/ \E p \in Path, n \in FileNodes :
                WriteFile(p, n) \/ ReplaceFile(p, n)
           \/ UNCHANGED vars
    PROVE  LogInv'
<1>1. /\ UNCHANGED <<pc, log, buf, cur, got, res>>
      /\ gone \subseteq gone'
  BY DEF Sigint, Send, HangUp, Connect, WriteFile, ReplaceFile, Edit, vars,
         outVars, clientVars, replyVars
<1>2. \A c \in Client : Unread(c)' => Unread(c)
  <2>1. CASE UNCHANGED <<asked, queue>>
    BY <1>1, <2>1 DEF Unread
  <2>2. ASSUME NEW c \in Client, NEW r \in Requests, Connect(c, r),
               NEW d \in Client, Unread(d)'
        PROVE  Unread(d)
    <3>1. /\ asked[c] = <<>> /\ asked' = [asked EXCEPT ![c] = r]
          /\ queue' = Append(queue, c) /\ queue \in Seq(Client)
      BY <2>2 DEF Connect, IInv, Types, ClientType
    <3>2. CASE d = c
      BY <3>1, <3>2 DEF Unread
    <3>3. CASE d # c
      <4>1. asked'[d] = asked[d]
        BY <3>1, <3>3 DEF IInv, Types, ClientType
      <4>2. ASSUME NEW i \in DOMAIN queue', queue'[i] = d
            PROVE  i \in DOMAIN queue /\ queue[i] = d
        BY <3>1, <3>3, <4>2
      <4> QED BY <1>1, <2>2, <4>1, <4>2 DEF Unread
    <3> QED BY <3>2, <3>3
  <2> QED BY <2>1, <2>2
      DEF Sigint, Send, HangUp, WriteFile, ReplaceFile, Edit, vars, clientVars
<1>3. \A s : WasSent(cur, s) => WasSent(cur, s)'
  BY <1>1, SentStays
<1>4. Done(cur) => Done(cur)'
  BY <1>1, SentStays
<1>5. CurInv'
  <2>1. WasSent(cur, res.status) => WasSent(cur, res.status)'
    BY <1>1, <1>3 DEF WasSent
  <2> QED BY <1>1, <1>3, <1>4, <2>1 DEF LogInv, CurInv
<1>6. buf # <<>> => pc' \in BufferPCs
  BY <1>1 DEF LogInv, BufferedInv
<1> QED BY <1>1, <1>2, <1>5, <1>6, NothingPrinted

-----------------------------------------------------------------------------
LEMMA LogInvInit == Init => LogInv
<1> SUFFICES ASSUME Init PROVE LogInv
  OBVIOUS
<1>1. log = <<>> /\ buf = <<>> /\ pc = "while" /\ cur = NoClient
  BY DEF Init
<1>2. \A c \in Client : FreshIn(log, c) /\ got[c].status = NoStatus
  BY <1>1 DEF FreshIn, Init, Nothing
<1>3. InOrder(log) /\ log \in Seq(Line) /\ buf \in Seq(Line)
  BY <1>1 DEF InOrder
<1> QED BY <1>1, <1>2, <1>3
    DEF LogInv, BufferedInv, CurInv, OpenPCs, Done

LEMMA LogInvNext == IInv /\ LogInv /\ [Next]_vars => LogInv'
<1> SUFFICES ASSUME IInv, LogInv, [Next]_vars PROVE LogInv'
  OBVIOUS
<1>1. CASE ServerNext
  BY <1>1, OnlyKeepsLog, AcceptKeepsLog, CloseKeepsLog, AcceptFailsKeepsLog,
     PrintKeepsLog, Log505KeepsLog, CrashKeepsLog, CreateKeepsLog,
     StatusKeepsLog, RestKeepsLog, TakesKeepsLog, DestroyKeepsLog
  DEF ServerNext
<1>2. CASE ~ServerNext
  BY <1>2, RestKeepsLog, EnvironmentKeepsLog DEF Next, ClientNext
<1> QED BY <1>1, <1>2

LEMMA LogInvariance == Spec => []LogInv
<1>1. Spec => []IInv
  BY Invariance
<1> QED BY <1>1, LogInvInit, LogInvNext, PTL DEF Spec

-----------------------------------------------------------------------------
(* The theorems.                                                           *)

LEMMA FreshLines ==
    ASSUME NEW s, NEW c
    PROVE  FreshIn(s, c) <=> LinesOf(s, c) = {}
BY DEF FreshIn, LinesOf

\* What is printed about a client agrees with what it was sent, once it is
\* done with: one status, the one sent, after what was read.
THEOREM LogAgrees == Spec => []LoggedOnce
<1>1. ASSUME LogInv PROVE LoggedOnce
  <2>1. \A c \in Client \ {cur} : DoneIn(log \o buf, c)
    BY <1>1, Flushed DEF LogInv
  <2> QED BY <2>1, FreshLines DEF DoneIn, LoggedOnce
<1> QED BY <1>1, LogInvariance, PTL

\* Whenever the server is killed, the log lacks one line at most, that of a
\* 505.
THEOREM OneLineOfLogAtRisk == Spec => []OneLineAtRisk
<1>1. ASSUME LogInv PROVE OneLineAtRisk
  <2> DEFINE missing == {c \in Client \ {cur} :
                 /\ got[c].status # NoStatus
                 /\ \A i \in LinesOf(log, c) : log[i][1] \notin Statuses}
  <2>1. \A c \in missing : Waits(c)
    <3> SUFFICES ASSUME NEW c \in missing PROVE Waits(c)
      OBVIOUS
    <3>1. Done(c) /\ got[c].status # NoStatus
      BY <1>1 DEF LogInv
    <3>2. \A s \in Statuses : ~Reported(log, c, s)
      BY DEF Reported
    <3> QED BY <3>1, <3>2 DEF Done
  <2>2. \A c, d \in missing : c = d
    BY <2>1 DEF Waits
  <2>3. \A c \in missing : got[c].status = "505"
    BY <2>1 DEF Waits, WasSent
  <2>4. \A c \in missing : LinesOf(log, c) # {}
    <3> SUFFICES ASSUME NEW c \in missing PROVE LinesOf(log, c) # {}
      OBVIOUS
    <3>1. Waits(c)
      BY <2>1
    <3>2. PICK d \in Client : Waits(d) /\ OpenIn(log, d)
      BY <1>1, <3>1 DEF LogInv, BufferedInv, Waits
    <3>3. c = d
      BY <3>1, <3>2 DEF Waits
    <3> QED BY <3>2, <3>3 DEF OpenIn, LinesOf
  <2> HIDE DEF missing
  <2>5. /\ \A c, d \in missing : c = d
        /\ \A c \in missing : got[c].status = "505" /\ LinesOf(log, c) # {}
    BY <2>2, <2>3, <2>4
  <2> QED BY <2>5 DEF missing, OneLineAtRisk
<1> QED BY <1>1, LogInvariance, PTL

\* The lines of two clients are not mixed.
THEOREM LogIsInOrder == Spec => []LogInOrder
<1>1. LogInv => LogInOrder
  BY DEF LogInv, InOrder, LogInOrder
<1> QED BY <1>1, LogInvariance, PTL

-----------------------------------------------------------------------------
(* The inductive invariant.                                                *)

\* c has been served by nobody yet.
Unheard(c) ==
    \/ c = cur /\ pc \in {"recv", "receiving"}
    \/ \E i \in DOMAIN queue : queue[i] = c

\* Of a request in one piece, all or nothing has been sent.
PieceInv ==
    \A c \in Client :
        /\ asked[c] \in Requests \cup {<<>>}
        /\ asked[c] = <<>> => todo[c] = <<>> /\ wire[c] = <<>>
        /\ Unheard(c) /\ Len(asked[c]) = 1 =>
             \/ todo[c] = asked[c] /\ wire[c] = <<>>
             \/ todo[c] = <<>> /\ wire[c] = asked[c][1]
        /\ c = cur /\ pc = "parse" /\ Len(asked[c]) = 1 =>
             /\ buffer \in Received
             /\ Heard(asked[c][1]) = Parse(buffer)

\* r passes all tests of the request itself.
Servable(r) ==
    /\ r # NoRequest /\ HostValid(r.header_host)
    /\ r.version = <<"HTTP/1.1">> /\ r.method \in {"GET", "HEAD"}

\* The response to r, once http_response_create has made it.
ResponseDue(r) ==
    [status |-> StatusDue(r), length |-> ReplyDue(r).length, headers |-> TRUE,
     body |-> StatusDue(r) = "200" /\ r.method = "GET"]

\* The file behind body_fd is the one that answers r.
BodyDue(r) == res.body => inode.kind = Served(r).kind
                          /\ inode.size = Served(r).size

\* What the server knows of the request r that cur has sent, at each call.
KnownInv(r) ==
    /\ pc = "check" => req = r /\ r # NoRequest
    /\ pc = "send_400" => StatusDue(r) = "400"
    /\ pc = "send_505" => StatusDue(r) = "505"
    /\ pc \in {"stat_index", "open"} => req = r /\ Servable(r)
                                        /\ Served(r) = NodeAt(path)
    /\ pc = "open" => NodeAt(path) # Absent /\ res.length = Served(r).size
    /\ pc \in AnswerPCs => res = ResponseDue(r) /\ BodyDue(r)

\* What cur has been sent of the reply to r, at each call.
SentInv(r) ==
    /\ pc = "headers" => got[cur] = [Nothing EXCEPT !.status = StatusDue(r)]
    /\ pc = "body" => got[cur] = [ReplyDue(r) EXCEPT !.body = 0]
    /\ pc = "sending" =>
         got[cur] = [ReplyDue(r) EXCEPT !.body = SocketBuffer]
         /\ SocketBuffer <= BodyNow
    /\ pc \in {"log", "destroy", "log_505"} => got[cur] = ReplyDue(r)
    /\ pc = "close" => got[cur] \in {ReplyDue(r), Nothing}

CurrentInv ==
    changes = 0 /\ cur \in Client /\ Len(asked[cur]) = 1 =>
        \A r \in {Heard(asked[cur][1])} :
            KnownInv(r) /\ (actif /\ cur \notin gone => SentInv(r))

\* Nobody is sent a status that is not due: neither a SIGINT nor a client
\* that hangs up changes the status, whatever they do to the body.
StatusAsDue ==
    changes = 0 =>
        \A c \in Client :
            Len(asked[c]) = 1 /\ got[c].status # NoStatus =>
                got[c].status = StatusDue(Heard(asked[c][1]))

ReplyInv == PieceInv /\ CurrentInv /\ RepliedAsDue /\ StatusAsDue

-----------------------------------------------------------------------------
(* What is due.                                                            *)

\* What is due depends on the files alone.
LEMMA DueKept ==
    ASSUME files' = files, NEW r
    PROVE  /\ Served(r)' = Served(r) /\ StatusDue(r)' = StatusDue(r)
           /\ ReplyDue(r)' = ReplyDue(r) /\ ResponseDue(r)' = ResponseDue(r)
BY DEF Served, NodeAt, StatusDue, ReplyDue, ResponseDue

LEMMA ServedType ==
    ASSUME Types, NEW r
    PROVE  Served(r) \in Node /\ (Served(r).size \in Nat)
<1>1. \A p : NodeAt(p) \in Node
  BY DEF Types, ReplyType, NodeAt, Node
<1> QED BY <1>1, NodeType DEF Served

LEMMA StatusOfServable ==
    ASSUME Types, NEW r, Servable(r)
    PROVE  /\ Served(r) = Absent => StatusDue(r) = "404"
           /\ Served(r).kind = "locked" => StatusDue(r) = "403"
           /\ Served(r).kind \in {"file", "dir"} => StatusDue(r) = "200"
<1>1. StatusDue(r) = [absent |-> "404", locked |-> "403", file |-> "200",
                      dir |-> "200"][Served(r).kind]
  BY DEF StatusDue, Servable
<1>2. Absent.kind = "absent"
  BY DEF Absent
<1> QED BY <1>1, <1>2

\* An error has nothing but a status.
LEMMA ErrorDue ==
    ASSUME NEW r, StatusDue(r) # "200"
    PROVE  /\ ResponseDue(r) = ErrorResponse(StatusDue(r))
           /\ ReplyDue(r) =
                [Nothing EXCEPT !.status = StatusDue(r), !.headers = TRUE]
BY DEF ReplyDue, ResponseDue, ErrorResponse, Response, Nothing

\* What is due to a request that can be served.
LEMMA PageDue ==
    ASSUME NEW r, StatusDue(r) = "200"
    PROVE  /\ ResponseDue(r) =
                Response("200", Served(r).size, r.method = "GET")
           /\ ReplyDue(r) =
                [status |-> "200", length |-> Served(r).size, headers |-> TRUE,
                 body |-> IF r.method = "GET" /\ Served(r).kind = "file"
                          THEN Served(r).size ELSE 0]
BY DEF ReplyDue, ResponseDue, Response

LEMMA PageType ==
    ASSUME Types, NEW r, StatusDue(r) = "200"
    PROVE  /\ ReplyDue(r) \in GotType
           /\ ReplyDue(r).status = "200" /\ ReplyDue(r).headers = TRUE
<1>1. PICK n \in Nat, b \in Nat :
        ReplyDue(r) = [status |-> "200", length |-> n, headers |-> TRUE,
                       body |-> b]
  BY PageDue, ServedType
<1> QED BY <1>1 DEF GotType, AnyStatus, Statuses

LEMMA NoBodyYet ==
    ASSUME NEW g \in GotType, NEW d \in GotType, g.status = d.status,
           g.length = d.length, g.headers = d.headers, g.body = 0
    PROVE  g = [d EXCEPT !.body = 0]
<1> DEFINE e == [d EXCEPT !.body = 0]
<1>1. /\ e \in GotType /\ e.status = d.status /\ e.length = d.length
      /\ e.headers = d.headers /\ e.body = 0
  BY DEF GotType
<1> HIDE DEF e
<1>2. g = e
  BY <1>1 DEF GotType
<1> QED BY <1>2 DEF e

\* Without a failure the response is the one meant.
LEMMA SureAnswer ==
    ASSUME NEW x, Answer(x), changes = 0, changes' = 0
    PROVE  pc' = "status" /\ res' = x
BY DEF Answer, Fails

-----------------------------------------------------------------------------
(* A request in one piece.                                                 *)

LEMMA FlattenOne ==
    ASSUME NEW T, NEW t \in T
    PROVE  FlattenSeq(<<t>>) = t
<1> DEFINE F(f) == [i \in 1 .. Len(<<t>>) |->
                      IF i = 1 THEN <<t>>[i] ELSE f[i - 1] \o <<t>>[i]]
           one == [i \in 1 .. 1 |-> t]
<1>1. Len(<<t>>) = 1
  OBVIOUS
<1>2. \A f : F(f) = one
  BY <1>1
<1>3. one = F(one)
  BY <1>2
<1>4. (CHOOSE f : f = F(f)) = one
  <2> HIDE DEF F, one
  <2> QED BY <1>2, <1>3
<1>5. FlattenSeq(<<t>>) = (CHOOSE f : f = F(f))[1]
  BY <1>1 DEF FlattenSeq
<1> QED BY <1>4, <1>5

LEMMA OnePiece ==
    ASSUME NEW S, NEW q \in Seq(S), Len(q) = 1
    PROVE  /\ q[1] \in S /\ q = <<q[1]>>
           /\ Head(q) = q[1] /\ Tail(q) = <<>>
<1>1. q[1] \in S
  OBVIOUS
<1>2. q = <<q[1]>>
  BY <1>1
<1>3. Head(q) = q[1]
  OBVIOUS
<1>4. Tail(<<q[1]>>) = <<>>
  OBVIOUS
<1> QED BY <1>1, <1>2, <1>3, <1>4

\* Of a request in one piece, recv returns what Heard reads.
LEMMA PieceReceived ==
    ASSUME NEW q \in Requests, Len(q) = 1, q[1] # <<>>
    PROVE  /\ q = <<q[1]>> /\ q[1] \in Seq(STRING)
           /\ SubSeq(q[1], 1, Smaller(Len(q[1]), BufferSize)) \in Received
<1>1. q \in Seq(Seq(STRING))
  BY ServerAssumption
<1>2. q = <<q[1]>> /\ q[1] \in Seq(STRING)
  BY <1>1, OnePiece
<1>3. FlattenSeq(q) = q[1]
  BY <1>2, FlattenOne
<1>4. Smaller(Len(q[1]), BufferSize) \in 1 .. Smaller(Len(q[1]), BufferSize)
  <2>1. Len(q[1]) \in Nat \ {0}
    BY <1>2
  <2> QED BY <2>1, ServerAssumption DEF Smaller
<1> QED BY <1>2, <1>3, <1>4 DEF Received

LEMMA PieceKept ==
    ASSUME IInv, PieceInv, [Next]_vars
    PROVE  PieceInv'
<1>0. /\ queue \in Seq(Client) /\ asked \in [Client -> Seq(Seq(STRING))]
      /\ todo \in [Client -> Seq(Seq(STRING))]
      /\ wire \in [Client -> Seq(STRING)]
      /\ cur \in IF Idle THEN {NoClient} ELSE Client
  BY DEF IInv, Types, LoopType, ClientType
<1>1. ASSUME UNCHANGED <<asked, todo, wire>>,
             \A c \in Client : Unheard(c)' => Unheard(c),
             pc' = "parse" => pc = "parse" /\ UNCHANGED <<cur, buffer>>
      PROVE  PieceInv'
  BY <1>1 DEF PieceInv
<1>2. ASSUME UNCHANGED <<asked, todo, wire, queue, cur>>,
             pc' \in {"recv", "receiving"} => pc \in {"recv", "receiving"},
             pc' = "parse" => pc = "parse" /\ UNCHANGED buffer
      PROVE  PieceInv'
  BY <1>1, <1>2 DEF Unheard
<1>3. CASE Accept
  <2>1. queue \in Seq(Client) /\ queue # <<>>
    BY <1>0, <1>3 DEF Accept
  <2>2. /\ 1 \in DOMAIN queue /\ Head(queue) = queue[1]
        /\ \A i \in DOMAIN Tail(queue) :
             i + 1 \in DOMAIN queue /\ Tail(queue)[i] = queue[i + 1]
    BY <2>1
  <2> QED BY <1>1, <1>3, <2>2 DEF Accept, Unheard
<1>4. CASE Recv
  <2> DEFINE n == Smaller(Len(wire[cur]), BufferSize)
  <2>1. /\ pc \in {"recv", "receiving"} /\ wire[cur] # <<>>
        /\ pc' = "parse" /\ buffer' = SubSeq(wire[cur], 1, n)
        /\ UNCHANGED <<queue, asked, todo, cur>> /\ cur \in Client
        /\ \A c \in Client \ {cur} : wire'[c] = wire[c]
    BY <1>0, <1>4 DEF Recv, Receiving, Takes, Idle
  <2>2. \A c \in Client : Unheard(c)' => c # cur /\ Unheard(c)
    BY <2>1 DEF Unheard, IInv, QueueInv
  <2>3. ASSUME Len(asked[cur]) = 1
        PROVE  /\ buffer' \in Received
               /\ Heard(asked[cur][1]) = Parse(buffer')
    <3>1. asked[cur] \in Requests /\ wire[cur] = asked[cur][1]
      BY <2>1, <2>3 DEF PieceInv, Unheard
    <3> QED BY <2>1, <2>3, <3>1, PieceReceived DEF Heard
  <2>4. asked'[cur] # <<>>
    BY <2>1 DEF IInv, QueueInv
  <2> QED BY <2>1, <2>2, <2>3, <2>4 DEF PieceInv
<1>5. ASSUME NEW c \in Client, Send(c)
      PROVE  PieceInv'
  <2>1. /\ todo[c] # <<>>
        /\ wire' = [wire EXCEPT ![c] = wire[c] \o Head(todo[c])]
        /\ todo' = [todo EXCEPT ![c] = Tail(todo[c])]
        /\ UNCHANGED <<pc, cur, buffer, queue, asked>>
    BY <1>5 DEF Send, replyVars
  <2>2. asked[c] # <<>>
    BY <2>1 DEF PieceInv
  <2>3. ASSUME Unheard(c), Len(asked[c]) = 1
        PROVE  todo'[c] = <<>> /\ wire'[c] = asked[c][1]
    <3>1. todo[c] = asked[c] /\ wire[c] = <<>>
      BY <2>1, <2>3 DEF PieceInv
    <3>2. asked[c] \in Seq(Seq(STRING))
      BY <1>0
    <3>3. /\ asked[c][1] \in Seq(STRING)
          /\ Head(asked[c]) = asked[c][1] /\ Tail(asked[c]) = <<>>
      BY <2>3, <3>2, OnePiece
    <3>4. <<>> \o asked[c][1] = asked[c][1]
      BY <3>3
    <3> QED BY <1>0, <2>1, <3>1, <3>3, <3>4
  <2>4. \A d \in Client \ {c} : todo'[d] = todo[d] /\ wire'[d] = wire[d]
    BY <1>0, <2>1
  <2>5. \A d \in Client : Unheard(d)' <=> Unheard(d)
    BY <2>1 DEF Unheard
  <2> QED BY <2>1, <2>2, <2>3, <2>4, <2>5 DEF PieceInv
<1>6. ASSUME NEW c \in Client, NEW r \in Requests, Connect(c, r)
      PROVE  PieceInv'
  <2>1. /\ asked[c] = <<>> /\ asked' = [asked EXCEPT ![c] = r]
        /\ queue' = Append(queue, c) /\ todo' = [todo EXCEPT ![c] = r]
        /\ UNCHANGED <<pc, cur, buffer, wire>>
    BY <1>6 DEF Connect, replyVars
  <2>2. r # <<>> /\ wire[c] = <<>> /\ c # cur
    BY <2>1, ServerAssumption DEF PieceInv, IInv, QueueInv
  <2>3. \A d \in Client \ {c} : Unheard(d)' => Unheard(d)
    <3>1. queue \in Seq(Client) /\ queue' = Append(queue, c)
      BY <1>0, <2>1
    <3>2. \A i \in DOMAIN queue' :
            \/ i \in DOMAIN queue /\ queue'[i] = queue[i]
            \/ i = Len(queue) + 1 /\ queue'[i] = c
      BY <3>1
    <3> QED BY <2>1, <3>2 DEF Unheard
  <2>4. /\ asked'[c] = r /\ todo'[c] = r
        /\ \A d \in Client \ {c} : asked'[d] = asked[d] /\ todo'[d] = todo[d]
    BY <1>0, <2>1
  <2> QED BY <2>1, <2>2, <2>3, <2>4 DEF PieceInv
<1>7. CASE Exit \/ Crash
  <2>1. /\ queue' = <<>> /\ asked' = asked /\ pc' \in {"stopped", "crashed"}
        /\ \A c \in Client : todo'[c] = <<>> /\ wire'[c] = <<>>
    BY <1>7 DEF Exit, Crash
  <2>2. \A c \in Client : ~Unheard(c)'
    BY <2>1 DEF Unheard
  <2> QED BY <2>1, <2>2 DEF PieceInv
<1>8. CASE Close
  <2>1. /\ pc' = "while" /\ UNCHANGED <<queue, asked>> /\ cur \in Client
        /\ todo' = [todo EXCEPT ![cur] = <<>>]
        /\ wire' = [wire EXCEPT ![cur] = <<>>]
    BY <1>0, <1>8 DEF Close, Idle
  <2>2. /\ todo'[cur] = <<>> /\ wire'[cur] = <<>>
        /\ \A d \in Client \ {cur} : todo'[d] = todo[d] /\ wire'[d] = wire[d]
    BY <1>0, <2>1
  <2>3. \A c \in Client : Unheard(c)' => c # cur /\ Unheard(c)
    BY <2>1 DEF Unheard, IInv, QueueInv
  <2> QED BY <2>1, <2>2, <2>3 DEF PieceInv
<1>9. CASE \/ TestActif \/ AcceptBlocks \/ AcceptFails \/ RecvBlocks
           \/ RecvEnd \/ ParseRequest \/ RefuseHost \/ RefuseVersion
           \/ Log505 \/ LogResponse \/ SendFails \/ Destroy
  BY <1>2, <1>9
  DEF TestActif, AcceptBlocks, AcceptFails, AcceptFailing, RecvBlocks,
      RecvEnd, ParseRequest, RefuseHost, RefuseVersion, Log505, LogResponse,
      SendFails, Destroy, Destroys, Only, Prints, clientVars, replyVars
<1>10. CASE \/ RefuseMethod \/ StatTarget \/ StatIndex \/ Open \/ OpenFails
  BY <1>2, <1>10
  DEF RefuseMethod, StatTarget, StatIndex, Stat, Open, OpenFails, Answer,
      clientVars
<1>11. ASSUME NEW l, NEW g, Sends(l, g),
              l \notin {"recv", "receiving", "parse"}
       PROVE  PieceInv'
  BY <1>2, <1>11 DEF Sends, clientVars
<1>12. CASE Send400 \/ Send505 \/ SendStatus \/ SendHeaders \/ SendBody
  BY <1>11, <1>12 DEF Send400, Send505, SendStatus, SendHeaders, SendBody
<1>13. ASSUME NEW c \in Client, HangUp(c) \/ Drain(c)
       PROVE  PieceInv'
  BY <1>2, <1>11, <1>13 DEF HangUp, Drain, replyVars
<1>14. CASE \/ Sigint \/ SigintWakes \/ UNCHANGED vars
            \/ \E p \in Path, n \in FileNodes :
                 WriteFile(p, n) \/ ReplaceFile(p, n)
  BY <1>2, <1>14
  DEF Sigint, SigintWakes, WriteFile, ReplaceFile, Edit, vars, clientVars,
      replyVars
<1> QED
  BY <1>3, <1>4, <1>5, <1>6, <1>7, <1>8, <1>9, <1>10, <1>12, <1>13, <1>14
  DEF Next, ServerNext, ClientNext

-----------------------------------------------------------------------------
(* The reply to the client being served.                                   *)

\* As long as nothing has failed or been edited, nothing had.
LEMMA Untouched ==
    ASSUME Types, [Next]_vars, changes' = 0
    PROVE  changes = 0 /\ files' = files
<1>0. changes \in Nat
  BY DEF Types, LoopType
<1>1. ASSUME UNCHANGED fileVars
      PROVE  changes = 0 /\ files' = files
  BY <1>1 DEF fileVars
<1>2. ASSUME NEW b, Fails(b)
      PROVE  changes = 0 /\ files' = files
  BY <1>0, <1>2 DEF Fails
<1>3. CASE TestActif \/ AcceptBlocks \/ RecvBlocks \/ RecvEnd \/ RefuseHost
           \/ RefuseVersion \/ Log505 \/ SendFails \/ LogResponse
           \/ Exit \/ Recv \/ Close \/ Destroy
  BY <1>1, <1>3
  DEF TestActif, AcceptBlocks, RecvBlocks, RecvEnd, RefuseHost, RefuseVersion,
      Log505, SendFails, LogResponse, Exit, Recv, Takes, Close, Destroy,
      Destroys, Only, Prints
<1>4. CASE Accept \/ AcceptFails \/ ParseRequest \/ Crash
  BY <1>1, <1>2, <1>4
  DEF Accept, AcceptFails, AcceptFailing, ParseRequest, Crash
<1>5. CASE \/ RefuseMethod \/ StatTarget \/ StatIndex \/ Open \/ OpenFails
  BY <1>1, <1>2, <1>5
  DEF RefuseMethod, StatTarget, StatIndex, Stat, Open, OpenFails, Answer
<1>6. CASE Send400 \/ Send505 \/ SendStatus \/ SendHeaders \/ SendBody
  BY <1>1, <1>6
  DEF Send400, Send505, SendStatus, SendHeaders, SendBody, Sends
<1>7. ASSUME NEW c \in Client, ClientNext(c)
      PROVE  changes = 0 /\ files' = files
  BY <1>1, <1>7 DEF ClientNext, Send, HangUp, Drain, Sends, Connect
<1>8. CASE Sigint \/ SigintWakes \/ UNCHANGED vars
  BY <1>1, <1>8 DEF Sigint, SigintWakes, vars
<1>9. ASSUME NEW p \in Path, NEW n \in FileNodes,
             WriteFile(p, n) \/ ReplaceFile(p, n)
      PROVE  FALSE
  BY <1>0, <1>9 DEF WriteFile, ReplaceFile, Edit
<1> QED
  BY <1>3, <1>4, <1>5, <1>6, <1>7, <1>8, <1>9 DEF Next, ServerNext

\* And as long as no SIGINT has come, none had.
LEMMA Uninterrupted ==
    ASSUME [Next]_vars, actif'
    PROVE  actif
<1>1. ASSUME actif' = actif
      PROVE  actif
  BY <1>1
<1>2. CASE TestActif \/ AcceptBlocks \/ RecvBlocks \/ RecvEnd \/ RefuseHost
           \/ RefuseVersion \/ Log505 \/ SendFails \/ LogResponse
           \/ Exit \/ Recv \/ Close \/ Destroy \/ Accept \/ AcceptFails
           \/ ParseRequest \/ Crash \/ RefuseMethod \/ StatTarget
           \/ StatIndex \/ Open \/ OpenFails \/ UNCHANGED vars
  BY <1>1, <1>2
  DEF TestActif, AcceptBlocks, RecvBlocks, RecvEnd, RefuseHost, RefuseVersion,
      Log505, SendFails, LogResponse, Exit, Recv, Takes, Close, Destroy,
      Destroys, Only, Prints, Accept, AcceptFails, AcceptFailing,
      ParseRequest, Crash, RefuseMethod, StatTarget, StatIndex, Stat, Open,
      OpenFails, loopVars, vars
<1>3. CASE Send400 \/ Send505 \/ SendStatus \/ SendHeaders \/ SendBody
  BY <1>1, <1>3
  DEF Send400, Send505, SendStatus, SendHeaders, SendBody, Sends, loopVars
<1>4. ASSUME NEW c \in Client, ClientNext(c)
      PROVE  actif
  BY <1>1, <1>4
  DEF ClientNext, Send, HangUp, Drain, Sends, Connect, loopVars
<1>5. CASE Sigint \/ SigintWakes
  BY <1>5 DEF Sigint, SigintWakes
<1>6. ASSUME NEW p \in Path, NEW n \in FileNodes,
             WriteFile(p, n) \/ ReplaceFile(p, n)
      PROVE  actif
  BY <1>1, <1>6 DEF WriteFile, ReplaceFile, Edit, loopVars
<1> QED
  BY <1>2, <1>3, <1>4, <1>5, <1>6 DEF Next, ServerNext

\* stat finds what is served: the target, the default file, or nothing.
LEMMA StatDue ==
    ASSUME Types, NEW r, Servable(r), NEW p \in Path \cup {NoPath}, NEW next,
           changes = 0, changes' = 0, files' = files, Stat(p, next),
           \/ next = "stat_index" /\ p = PathOf(r.target)
           \/ next = "open" /\ Served(r) = NodeAt(p)
    PROVE  /\ pc' \in {"stat_index", "open", "status"}
           /\ pc' # "status" => Served(r) = NodeAt(path')
           /\ pc' = "open" => NodeAt(path') # Absent
                              /\ res'.length = Served(r).size
           /\ pc' = "status" => res' = ResponseDue(r) /\ ~res'.body
<1>0. Absent.kind # "dir"
  BY DEF Absent
<1>1. CASE NodeAt(p) = Absent
  <2>1. Served(r) = Absent
    BY <1>0, <1>1 DEF Served
  <2>2. StatusDue(r) = "404"
    BY <2>1, StatusOfServable
  <2>3. pc' = "status" /\ res' = ErrorResponse("404")
    BY <1>1, SureAnswer DEF Stat
  <2>4. ErrorResponse("404").body = FALSE
    BY DEF ErrorResponse, Response
  <2> QED BY <2>2, <2>3, <2>4, ErrorDue
<1>2. CASE NodeAt(p) # Absent
  <2>1. /\ pc' = IF NodeAt(p).kind = "dir" THEN next ELSE "open"
        /\ path' = IF NodeAt(p).kind = "dir" /\ next = "stat_index"
                   THEN Index[p] ELSE p
        /\ res' = [NoResponse EXCEPT !.length = NodeAt(p).size]
    BY <1>2 DEF Stat
  <2>2. res'.length = NodeAt(p).size
    BY <2>1 DEF NoResponse, Response
  <2>3. Served(r) = NodeAt(path')
    BY <2>1 DEF Served
  <2> QED BY <1>2, <2>1, <2>2, <2>3
<1> QED BY <1>1, <1>2

LEMMA KnownKept ==
    ASSUME IInv, [Next]_vars, NEW r, KnownInv(r),
           changes = 0, changes' = 0, files' = files,
           pc = "parse" => buffer \in Received /\ r = Parse(buffer)
    PROVE  KnownInv(r)'
<1>0. Types
  BY DEF IInv
<1>1. ASSUME pc' \notin AnswerPCs \cup
                {"check", "send_400", "send_505", "stat_index", "open"}
      PROVE  KnownInv(r)'
  BY <1>1 DEF KnownInv, AnswerPCs
<1>2. ASSUME UNCHANGED <<req, path, res, inode>>,
             pc' = pc \/ (pc \in AnswerPCs /\ pc' \in AnswerPCs)
      PROVE  KnownInv(r)'
  BY <1>2, DueKept DEF KnownInv, BodyDue, NodeAt, AnswerPCs
<1>3. ASSUME pc' = "status", res' = ResponseDue(r), BodyDue(r)'
      PROVE  KnownInv(r)'
  BY <1>3, DueKept DEF KnownInv, AnswerPCs
<1>4. CASE ParseRequest
  <2>1. PICK x \in {Parsed[buffer]} \cup Starved(Parsed[buffer]) :
          /\ req' = x /\ Fails(x # Parsed[buffer])
          /\ pc' = IF x = NoRequest THEN "send_400" ELSE "check"
    BY <1>4 DEF ParseRequest
  <2>2. x = r
    BY <1>4, <2>1 DEF ParseRequest, Fails, Parsed
  <2>3. r = NoRequest => StatusDue(r) = "400"
    BY DEF StatusDue
  <2> QED BY <2>1, <2>2, <2>3, DueKept DEF KnownInv, AnswerPCs
<1>5. CASE RefuseHost
  <2>1. pc' = "send_400" /\ StatusDue(r) = "400"
    BY <1>5 DEF RefuseHost, Prints, KnownInv, StatusDue
  <2> QED BY <2>1, DueKept DEF KnownInv, AnswerPCs
<1>6. CASE RefuseVersion
  <2>1. pc' = "send_505" /\ StatusDue(r) = "505"
    BY <1>6 DEF RefuseVersion, Only, KnownInv, StatusDue
  <2> QED BY <2>1, DueKept DEF KnownInv, AnswerPCs
<1>7. CASE RefuseMethod
  <2>1. StatusDue(r) = "405"
    BY <1>7 DEF RefuseMethod, Serve, KnownInv, StatusDue
  <2>2. pc' = "status" /\ res' = ErrorResponse("405")
    BY <1>7, SureAnswer DEF RefuseMethod
  <2>3. ErrorResponse("405").body = FALSE
    BY DEF ErrorResponse, Response
  <2> QED BY <1>3, <2>1, <2>2, <2>3, ErrorDue DEF BodyDue
<1>8. ASSUME NEW p \in Path \cup {NoPath}, NEW next, Stat(p, next),
             req = r, Servable(r),
             \/ next = "stat_index" /\ p = PathOf(r.target)
             \/ next = "open" /\ Served(r) = NodeAt(p)
      PROVE  KnownInv(r)'
  <2>1. req' = req
    BY <1>8 DEF Stat
  <2>2. /\ pc' \in {"stat_index", "open", "status"}
        /\ pc' # "status" => Served(r) = NodeAt(path')
        /\ pc' = "open" => NodeAt(path') # Absent
                           /\ res'.length = Served(r).size
        /\ pc' = "status" => res' = ResponseDue(r) /\ ~res'.body
    BY <1>0, <1>8, StatDue
  <2>3. NodeAt(path)' = NodeAt(path')
    BY DEF NodeAt
  <2>4. CASE pc' = "status"
    BY <1>3, <2>2, <2>4 DEF BodyDue
  <2>5. CASE pc' # "status"
    BY <1>8, <2>1, <2>2, <2>3, <2>5, DueKept
    DEF KnownInv, AnswerPCs, Servable
  <2> QED BY <2>4, <2>5
<1>9. CASE StatTarget
  <2>1. req = r /\ Servable(r)
    BY <1>9 DEF StatTarget, Serve, KnownInv, Servable
  <2>2. PathOf(r.target) \in Path \cup {NoPath}
    BY DEF PathOf
  <2> QED BY <1>8, <1>9, <2>1, <2>2 DEF StatTarget
<1>10. CASE StatIndex
  <2>1. req = r /\ Servable(r) /\ Served(r) = NodeAt(path)
    BY <1>10 DEF StatIndex, KnownInv
  <2>2. path \in Path \cup {NoPath}
    BY <1>0 DEF Types, ReplyType
  <2> QED BY <1>8, <1>10, <2>1, <2>2 DEF StatIndex
<1>11. CASE OpenFails
  <2>1. /\ req = r /\ Servable(r) /\ Served(r) = NodeAt(path)
        /\ NodeAt(path) # Absent
    BY <1>11 DEF OpenFails, KnownInv
  <2>2. NodeAt(path).kind = "locked"
    BY <1>0, <1>11, <2>1, ServedType, NodeType DEF OpenFails
  <2>3. StatusDue(r) = "403"
    BY <1>0, <2>1, <2>2, StatusOfServable
  <2>4. pc' = "status" /\ res' = ErrorResponse("403")
    BY <1>11, SureAnswer DEF OpenFails
  <2>5. ErrorResponse("403").body = FALSE
    BY DEF ErrorResponse, Response
  <2> QED BY <1>3, <2>3, <2>4, <2>5, ErrorDue DEF BodyDue
<1>12. CASE Open
  <2>1. /\ req = r /\ Servable(r) /\ Served(r) = NodeAt(path)
        /\ res.length = Served(r).size
    BY <1>12 DEF Open, KnownInv
  <2>2. StatusDue(r) = "200"
    BY <1>0, <1>12, <2>1, StatusOfServable DEF Open
  <2>3. /\ pc' = "status"
        /\ res' = Response("200", Served(r).size, r.method = "GET")
    BY <1>12, <2>1, SureAnswer DEF Open
  <2>4. res'.body => inode'.kind = Served(r).kind
                     /\ inode'.size = Served(r).size
    <3>1. res'.body => req.method = "GET"
      BY <2>1, <2>3 DEF Response
    <3>2. req.method = "GET" =>
            inode' = [path |-> path, kind |-> NodeAt(path).kind,
                      size |-> NodeAt(path).size]
      BY <1>12 DEF Open
    <3> QED BY <2>1, <3>1, <3>2
  <2> QED BY <1>3, <2>2, <2>3, <2>4, PageDue, DueKept DEF BodyDue
<1>13. CASE \/ SendStatus \/ SendHeaders \/ SendBody \/ SendFails
            \/ LogResponse
  BY <1>2, <1>13
  DEF SendStatus, SendHeaders, SendBody, SendFails, LogResponse, Sends, Only,
      Prints, replyVars, AnswerPCs
<1>14. CASE \/ TestActif \/ Accept \/ AcceptBlocks \/ AcceptFails \/ Exit
            \/ Recv \/ RecvBlocks \/ RecvEnd \/ Send400 \/ Send505
            \/ Log505 \/ Destroy \/ Close \/ Crash
  BY <1>1, <1>14
  DEF TestActif, Accept, AcceptBlocks, AcceptFails, AcceptFailing, Exit, Recv,
      Takes, RecvBlocks, RecvEnd, Send400, Send505, Sends, Log505, Destroy,
      Destroys, Close, Crash, Only, AnswerPCs
<1>15. ASSUME NEW c \in Client, ClientNext(c)
       PROVE  KnownInv(r)'
  BY <1>2, <1>15
  DEF ClientNext, Send, HangUp, Drain, Connect, Sends, replyVars, AnswerPCs
<1>16. CASE Sigint \/ UNCHANGED vars
  BY <1>2, <1>16 DEF Sigint, vars, replyVars
<1>17. CASE SigintWakes
  BY <1>1, <1>2, <1>17 DEF SigintWakes, replyVars, AnswerPCs
<1>18. ASSUME NEW p \in Path, NEW n \in FileNodes,
              WriteFile(p, n) \/ ReplaceFile(p, n)
       PROVE  FALSE
  BY <1>18 DEF WriteFile, ReplaceFile, Edit
<1> QED
  BY <1>4, <1>5, <1>6, <1>7, <1>9, <1>10, <1>11, <1>12, <1>13, <1>14, <1>15,
     <1>16, <1>17, <1>18 DEF Next, ServerNext

\* What has been sent to cur.
LEMMA SentKept ==
    ASSUME IInv, [Next]_vars, NEW r, KnownInv(r), SentInv(r),
           actif, changes = 0, actif', changes' = 0, files' = files,
           cur \in Client, cur \notin gone, cur' = cur, cur \notin gone'
    PROVE  SentInv(r)'
<1>0. /\ got \in [Client -> GotType] /\ res \in ResType
      /\ Types /\ StatusInv
  BY DEF IInv, Types, ReplyType
<1>1. ASSUME pc' \notin {"headers", "body", "sending", "log", "destroy",
                        "log_505", "close"}
      PROVE  SentInv(r)'
  BY <1>1 DEF SentInv
<1>2. ASSUME UNCHANGED <<pc, got, res, inode>>
      PROVE  SentInv(r)'
  BY <1>2, DueKept DEF SentInv, BodyNow
<1>3. ASSUME pc' \in {"log", "destroy", "log_505", "close"},
             got'[cur] = ReplyDue(r)
      PROVE  SentInv(r)'
  BY <1>3, DueKept DEF SentInv
<1>4. ASSUME NEW l, NEW g, Sends(l, g)
      PROVE  pc' = l /\ got'[cur] = g
  BY <1>0, <1>4 DEF Sends
<1>5. CASE RecvEnd
  BY <1>5 DEF RecvEnd
<1>6. CASE Send400 \/ Send505
  <2>1. StatusDue(r) # "200" /\ pc' \in {"close", "log_505"}
        /\ got'[cur] = [Nothing EXCEPT !.status = StatusDue(r),
                                       !.headers = TRUE]
    BY <1>4, <1>6 DEF Send400, Send505, KnownInv
  <2> QED BY <1>3, <2>1, ErrorDue
<1>7. CASE SendStatus
  <2>1. got[cur] = Nothing
    BY <1>0, <1>7 DEF SendStatus, StatusInv, BeforePCs
  <2>2. res = ResponseDue(r)
    BY <1>7 DEF SendStatus, KnownInv, AnswerPCs
  <2>3. /\ pc' = "headers"
        /\ got'[cur] = [Nothing EXCEPT !.status = StatusDue(r)]
    BY <1>4, <1>7, <2>1, <2>2 DEF SendStatus, ResponseDue
  <2> QED BY <2>3, DueKept DEF SentInv
<1>8. CASE SendHeaders
  <2>1. /\ res = ResponseDue(r)
        /\ got[cur] = [Nothing EXCEPT !.status = StatusDue(r)]
    BY <1>8 DEF SendHeaders, KnownInv, AnswerPCs, SentInv
  <2>2. /\ pc' = IF res.body THEN "body" ELSE "log"
        /\ got'[cur] = [[Nothing EXCEPT !.status = StatusDue(r)] EXCEPT
                          !.length = ReplyDue(r).length, !.headers = TRUE]
    BY <1>4, <1>8, <2>1 DEF SendHeaders, ResponseDue
  <2>3. got'[cur] = [status |-> StatusDue(r), length |-> ReplyDue(r).length,
                     body |-> 0, headers |-> TRUE]
    BY <2>2 DEF Nothing
  <2>4. PICK n, b :
          ReplyDue(r) = [status |-> StatusDue(r), length |-> n, body |-> b,
                         headers |-> TRUE]
    BY DEF ReplyDue, Nothing
  <2>5. CASE res.body
    <3>1. got'[cur] = [ReplyDue(r) EXCEPT !.body = 0]
      <4>1. StatusDue(r) = "200"
        BY <2>1, <2>5 DEF ResponseDue
      <4>2. /\ ReplyDue(r) \in GotType
            /\ ReplyDue(r).status = "200" /\ ReplyDue(r).headers = TRUE
        BY <1>0, <4>1, PageType
      <4>3. ReplyDue(r).length \in Nat
        BY <4>2 DEF GotType
      <4>4. /\ got'[cur] \in GotType
            /\ got'[cur].status = "200" /\ got'[cur].headers = TRUE
            /\ got'[cur].body = 0 /\ got'[cur].length = ReplyDue(r).length
        BY <2>3, <4>1, <4>3 DEF GotType, AnyStatus, Statuses
      <4> QED BY <4>2, <4>4, NoBodyYet
    <3> QED BY <2>2, <2>5, <3>1, DueKept DEF SentInv
  <2>6. CASE ~res.body
    <3>1. ReplyDue(r).body = 0
      BY <2>1, <2>6 DEF ResponseDue, ReplyDue, Nothing
    <3> QED BY <1>3, <2>2, <2>3, <2>4, <2>6, <3>1
  <2> QED BY <2>5, <2>6
<1>9. ASSUME pc \in {"body", "sending"}
      PROVE  /\ BodyNow = ReplyDue(r).body /\ BodyNow \in Nat
             /\ ReplyDue(r) =
                  [status |-> StatusDue(r), length |-> ReplyDue(r).length,
                   body |-> BodyNow, headers |-> TRUE]
  <2>1. res.body /\ res = ResponseDue(r) /\ BodyDue(r)
    BY <1>0, <1>9 DEF KnownInv, AnswerPCs, StatusInv
  <2>2. /\ StatusDue(r) = "200" /\ r.method = "GET"
        /\ res.length = ReplyDue(r).length
        /\ inode.kind = Served(r).kind /\ inode.size = Served(r).size
    BY <2>1 DEF ResponseDue, BodyDue
  <2>3. res.length = Served(r).size /\ Served(r).size \in Nat
    BY <1>0, <2>2, PageDue, ServedType
  <2>4. BodyNow = IF Served(r).kind = "dir" THEN 0 ELSE Served(r).size
    BY <2>2, <2>3 DEF BodyNow, Smaller
  <2>5. Served(r).kind \in {"file", "dir"}
    BY <1>0, <2>2, ServedType, NodeType DEF StatusDue
  <2> QED BY <2>2, <2>3, <2>4, <2>5, PageDue
<1>10. CASE SendBody
  <2>1. got[cur] = [ReplyDue(r) EXCEPT !.body = 0]
    BY <1>10 DEF SendBody, SentInv
  <2>2. CASE BodyNow <= SocketBuffer
    <3>1. pc' = "log" /\ got'[cur] = [got[cur] EXCEPT !.body = BodyNow]
      BY <1>4, <1>10, <2>2 DEF SendBody
    <3>2. got'[cur] = ReplyDue(r)
      BY <1>9, <1>10, <2>1, <3>1 DEF SendBody
    <3> QED BY <1>3, <3>1, <3>2
  <2>3. CASE ~(BodyNow <= SocketBuffer)
    <3>1. /\ pc' = "sending"
          /\ got'[cur] = [got[cur] EXCEPT !.body = SocketBuffer]
          /\ UNCHANGED <<res, inode>>
      BY <1>4, <1>10, <2>3 DEF SendBody, Sends, replyVars
    <3>2. got'[cur] = [ReplyDue(r) EXCEPT !.body = SocketBuffer]
      BY <1>9, <1>10, <2>1, <3>1 DEF SendBody
    <3>3. SocketBuffer <= BodyNow /\ BodyNow' = BodyNow
      BY <1>9, <1>10, <2>3, <3>1, ServerAssumption DEF SendBody, BodyNow
    <3> QED BY <3>1, <3>2, <3>3, DueKept DEF SentInv
  <2> QED BY <2>2, <2>3
<1>11. ASSUME NEW c \in Client, Drain(c)
       PROVE  SentInv(r)'
  <2>1. /\ got[cur] = [ReplyDue(r) EXCEPT !.body = SocketBuffer]
        /\ SocketBuffer <= BodyNow /\ c = cur
    BY <1>11 DEF Drain, SentInv
  <2>2. Larger(SocketBuffer, BodyNow) = BodyNow
    BY <1>9, <1>11, <2>1, ServerAssumption DEF Larger, Drain
  <2>3. pc' = "log" /\ got'[cur] = [got[cur] EXCEPT !.body = BodyNow]
    BY <1>4, <1>11, <2>1, <2>2 DEF Drain
  <2>4. got'[cur] = ReplyDue(r)
    BY <1>9, <1>11, <2>1, <2>3 DEF Drain
  <2> QED BY <1>3, <2>3, <2>4
<1>12. CASE LogResponse \/ Log505 \/ Destroy
  BY <1>3, <1>12
  DEF LogResponse, Log505, Destroy, Destroys, Prints, SentInv
<1>13. CASE \/ TestActif \/ Accept \/ AcceptBlocks \/ AcceptFails \/ Exit
            \/ Recv \/ RecvBlocks \/ ParseRequest \/ RefuseHost
            \/ RefuseVersion \/ RefuseMethod \/ StatTarget \/ StatIndex
            \/ Open \/ OpenFails \/ Crash \/ Close
  BY <1>1, <1>13
  DEF TestActif, Accept, AcceptBlocks, AcceptFails, AcceptFailing, Exit, Recv,
      Takes, RecvBlocks, ParseRequest, RefuseHost, RefuseVersion,
      RefuseMethod, StatTarget, StatIndex, Stat, Open, OpenFails, Answer,
      Crash, Close, Only, Prints
<1>14. CASE SendFails \/ SigintWakes
  BY <1>14 DEF SendFails, SigintWakes
<1>15. ASSUME NEW c \in Client,
              Send(c) \/ HangUp(c) \/ \E q \in Requests : Connect(c, q)
       PROVE  SentInv(r)'
  BY <1>2, <1>15 DEF Send, HangUp, Connect, replyVars
<1>16. CASE Sigint \/ UNCHANGED vars
  BY <1>2, <1>16 DEF Sigint, vars, replyVars
<1>17. ASSUME NEW p \in Path, NEW n \in FileNodes,
              WriteFile(p, n) \/ ReplaceFile(p, n)
       PROVE  FALSE
  BY <1>17 DEF WriteFile, ReplaceFile, Edit
<1> QED
  BY <1>5, <1>6, <1>7, <1>8, <1>10, <1>11, <1>12, <1>13, <1>14, <1>15, <1>16,
     <1>17 DEF Next, ServerNext, ClientNext

\* A step takes or lets go a client, or leaves cur; what the others have
\* been sent, it leaves.
CurStep ==
    /\ Accept \/ Close \/ cur' = cur
    /\ gone \subseteq gone'
    /\ \A c \in Client : asked'[c] = asked[c]
                         \/ (asked[c] = <<>> /\ got'[c] = got[c])
    /\ \A c \in Client \ {cur} : got'[c] = got[c]

LEMMA CurKept ==
    ASSUME IInv, [Next]_vars
    PROVE  CurStep
<1> USE DEF CurStep
<1>0. /\ asked \in [Client -> Seq(Seq(STRING))]
      /\ got \in [Client -> GotType]
  BY DEF IInv, Types, ReplyType, ClientType
<1>1. ASSUME NEW c \in Client, NEW q \in Requests, Connect(c, q)
      PROVE  CurStep
  BY <1>0, <1>1 DEF Connect
<1>2. CASE \/ TestActif \/ Accept \/ AcceptBlocks \/ AcceptFails \/ Exit
           \/ Recv \/ RecvBlocks \/ RecvEnd \/ ParseRequest \/ RefuseHost
           \/ RefuseVersion \/ RefuseMethod \/ StatTarget \/ StatIndex
           \/ Open \/ OpenFails \/ Crash \/ Log505 \/ SendFails
           \/ LogResponse \/ Destroy \/ Close \/ Sigint \/ UNCHANGED vars
  <2>1. /\ Accept \/ Close \/ cur' = cur
        /\ UNCHANGED <<gone, asked, got>>
    BY <1>2
    DEF TestActif, Accept, AcceptBlocks, AcceptFails, AcceptFailing, Exit,
        Recv, Takes, RecvBlocks, RecvEnd, ParseRequest, RefuseHost,
        RefuseVersion, RefuseMethod, StatTarget, StatIndex, Stat, Open,
        OpenFails, Crash, Log505, SendFails, LogResponse, Destroy, Destroys,
        Close, Sigint, Only, Prints, clientVars, vars
  <2> QED BY <2>1
<1>3. ASSUME NEW l, NEW g, Sends(l, g)
      PROVE  CurStep
  BY <1>0, <1>3 DEF Sends, clientVars
<1>4. CASE Send400 \/ Send505 \/ SendStatus \/ SendHeaders \/ SendBody
  BY <1>3, <1>4 DEF Send400, Send505, SendStatus, SendHeaders, SendBody
<1>5. ASSUME NEW c \in Client, Send(c) \/ HangUp(c) \/ Drain(c)
      PROVE  CurStep
  BY <1>3, <1>5 DEF Send, HangUp, Drain
<1>6. CASE SigintWakes
  BY <1>0, <1>6 DEF SigintWakes, clientVars
<1>7. ASSUME NEW p \in Path, NEW n \in FileNodes,
             WriteFile(p, n) \/ ReplaceFile(p, n)
      PROVE  CurStep
  BY <1>7 DEF WriteFile, ReplaceFile, Edit, clientVars
<1> HIDE DEF CurStep
<1>8. ASSUME NEW c \in Client, ClientNext(c)
      PROVE  CurStep
  BY <1>1, <1>5, <1>8 DEF ClientNext
<1>9. CASE ServerNext
  BY <1>2, <1>4, <1>9 DEF ServerNext
<1> QED
  BY <1>2, <1>6, <1>7, <1>8, <1>9 DEF Next

LEMMA CurrentKept ==
    ASSUME IInv, PieceInv, CurrentInv, [Next]_vars
    PROVE  CurrentInv'
<1> SUFFICES ASSUME changes' = 0, cur' \in Client,
                    Len(asked'[cur']) = 1,
                    NEW r, r = Heard(asked'[cur'][1])
             PROVE  /\ KnownInv(r)'
                    /\ actif' /\ cur' \notin gone' => SentInv(r)'
  BY DEF CurrentInv
<1>1. (actif' => actif) /\ changes = 0 /\ files' = files
  BY Untouched, Uninterrupted DEF IInv
<1>2. CASE Accept
  BY <1>2 DEF Accept, KnownInv, SentInv, AnswerPCs
<1>3. CASE ~Accept
  <2>1. ~Close
    BY ServerAssumption DEF Close
  <2>2. cur' = cur /\ gone \subseteq gone'
    BY <1>3, <2>1, CurKept DEF CurStep
  <2>3. asked'[cur] = asked[cur]
    BY <2>2, CurKept DEF CurStep, IInv, QueueInv
  <2>4. KnownInv(r) /\ (actif /\ cur \notin gone => SentInv(r))
    BY <1>1, <2>2, <2>3 DEF CurrentInv
  <2>5. pc = "parse" => buffer \in Received /\ r = Parse(buffer)
    BY <2>2, <2>3 DEF PieceInv
  <2> QED BY <1>1, <2>2, <2>4, <2>5, KnownKept, SentKept
<1> QED BY <1>2, <1>3

\* When cur is served to the end, it has been sent what is due.
LEMMA RepliedKept ==
    ASSUME IInv, PieceInv, CurrentInv, RepliedAsDue, [Next]_vars
    PROVE  RepliedAsDue'
<1> SUFFICES ASSUME actif', changes' = 0,
                    NEW c \in Client, c \notin gone', c # cur',
                    Len(asked'[c]) = 1, got'[c].status # NoStatus,
                    NEW r, r = Heard(asked'[c][1])
             PROVE  got'[c] = ReplyDue(r)'
  BY DEF RepliedAsDue
<1>1. actif /\ changes = 0 /\ files' = files
  BY Untouched, Uninterrupted DEF IInv
<1>2. ReplyDue(r)' = ReplyDue(r)
  BY <1>1, DueKept
<1>3. Nothing.status = NoStatus
  BY DEF Nothing
<1>4. asked'[c] = asked[c] /\ c \notin gone
  BY <1>3, CurKept DEF CurStep, IInv, QueueInv
<1>5. CASE c # cur
  BY <1>1, <1>2, <1>4, <1>5, CurKept DEF CurStep, RepliedAsDue
<1>6. CASE c = cur
  <2>1. Accept \/ Close
    BY <1>6, CurKept DEF CurStep
  <2>2. Close
    BY <1>6, <2>1, ServerAssumption DEF Accept, IInv, Types, LoopType, Idle
  <2>3. pc = "close" /\ got' = got
    BY <2>2 DEF Close
  <2>4. got[c] \in {ReplyDue(r), Nothing}
    BY <1>1, <1>4, <1>6, <2>3 DEF CurrentInv, SentInv
  <2> QED BY <1>2, <1>3, <2>3, <2>4
<1> QED BY <1>5, <1>6

\* The status that cur has been sent is due, by whichever call it was sent.
LEMMA StatusSent ==
    ASSUME IInv, [Next]_vars, NEW r, KnownInv(r), cur \in Client,
           got'[cur].status # got[cur].status
    PROVE  got'[cur].status = StatusDue(r)
<1>0. got \in [Client -> GotType]
  BY DEF IInv, Types, ReplyType
<1>1. ASSUME got' = got
      PROVE  FALSE
  BY <1>1
<1>2. ASSUME NEW l, NEW g, Sends(l, g)
      PROVE  got'[cur].status = g.status
  BY <1>0, <1>2 DEF Sends
<1>3. ASSUME NEW c \in Client, ClientNext(c)
      PROVE  FALSE
  <2>1. CASE Drain(c)
    BY <1>0, <1>2, <2>1 DEF Drain, GotType
  <2>2. CASE ~Drain(c)
    BY <1>1, <1>3, <2>2 DEF ClientNext, Send, HangUp, Connect
  <2> QED BY <2>1, <2>2
<1>4. CASE Send400 \/ Send505
  <2>1. \A s : [Nothing EXCEPT !.status = s, !.headers = TRUE].status = s
    BY DEF Nothing
  <2>2. CASE Send400
    BY <1>2, <2>1, <2>2 DEF Send400, KnownInv
  <2>3. CASE Send505
    BY <1>2, <2>1, <2>3 DEF Send505, KnownInv
  <2> QED BY <1>4, <2>2, <2>3
<1>5. CASE SendStatus
  <2>1. res.status = StatusDue(r)
    BY <1>5 DEF SendStatus, KnownInv, AnswerPCs, ResponseDue
  <2> QED BY <1>0, <1>2, <1>5, <2>1 DEF SendStatus, GotType
<1>6. CASE SendHeaders \/ SendBody
  <2>1. \A n, h : /\ [got[cur] EXCEPT !.body = n].status = got[cur].status
                  /\ [got[cur] EXCEPT !.length = n, !.headers = h].status
                     = got[cur].status
    BY <1>0 DEF GotType
  <2>2. ASSUME NEW l, NEW g, Sends(l, g), g.status = got[cur].status
        PROVE  FALSE
    BY <1>2, <2>2
  <2>3. CASE SendHeaders
    <3>1. CASE res.headers
      BY <2>1, <2>2, <2>3, <3>1 DEF SendHeaders
    <3>2. CASE ~res.headers
      BY <2>2, <2>3, <3>2 DEF SendHeaders
    <3> QED BY <3>1, <3>2
  <2>4. CASE SendBody
    BY <2>1, <2>2, <2>4 DEF SendBody
  <2> QED BY <1>6, <2>3, <2>4
<1>7. CASE SigintWakes
  BY <1>0, <1>1, <1>7 DEF SigintWakes, GotType
<1>8. CASE \/ TestActif \/ Accept \/ AcceptBlocks \/ AcceptFails \/ Exit
           \/ Recv \/ RecvBlocks \/ RecvEnd \/ ParseRequest \/ RefuseHost
           \/ RefuseVersion \/ RefuseMethod \/ StatTarget \/ StatIndex
           \/ Open \/ OpenFails \/ Crash \/ Log505 \/ SendFails
           \/ LogResponse \/ Destroy \/ Close \/ Sigint \/ UNCHANGED vars
  BY <1>1, <1>8
  DEF TestActif, Accept, AcceptBlocks, AcceptFails, AcceptFailing, Exit,
      Recv, Takes, RecvBlocks, RecvEnd, ParseRequest, RefuseHost,
      RefuseVersion, RefuseMethod, StatTarget, StatIndex, Stat, Open,
      OpenFails, Crash, Log505, SendFails, LogResponse, Destroy, Destroys,
      Close, Sigint, Only, Prints, vars
<1>9. ASSUME NEW p \in Path, NEW n \in FileNodes,
             WriteFile(p, n) \/ ReplaceFile(p, n)
      PROVE  FALSE
  BY <1>1, <1>9 DEF WriteFile, ReplaceFile, Edit
<1> QED
  BY <1>3, <1>4, <1>5, <1>6, <1>7, <1>8, <1>9 DEF Next, ServerNext

LEMMA DueStatusKept ==
    ASSUME IInv, CurrentInv, StatusAsDue, [Next]_vars
    PROVE  StatusAsDue'
<1> SUFFICES ASSUME changes' = 0, NEW c \in Client,
                    Len(asked'[c]) = 1, got'[c].status # NoStatus,
                    NEW r, r = Heard(asked'[c][1])
             PROVE  got'[c].status = StatusDue(r)'
  BY DEF StatusAsDue
<1>1. changes = 0 /\ StatusDue(r)' = StatusDue(r)
  BY Untouched, DueKept DEF IInv
<1>2. Nothing.status = NoStatus
  BY DEF Nothing
<1>3. asked'[c] = asked[c]
  BY <1>2, CurKept DEF CurStep, IInv, QueueInv
<1>4. CASE got'[c].status = got[c].status
  BY <1>1, <1>3, <1>4 DEF StatusAsDue
<1>5. CASE got'[c].status # got[c].status
  <2>1. c = cur
    BY <1>5, CurKept DEF CurStep
  <2>2. KnownInv(r)
    BY <1>1, <1>3, <2>1 DEF CurrentInv
  <2> QED BY <1>1, <1>5, <2>1, <2>2, StatusSent
<1> QED BY <1>4, <1>5

LEMMA ReplyInvInit == Init => ReplyInv
BY ServerAssumption
DEF Init, ReplyInv, PieceInv, CurrentInv, RepliedAsDue, StatusAsDue, Unheard,
    Nothing

LEMMA ReplyInvNext == IInv /\ ReplyInv /\ [Next]_vars => ReplyInv'
BY PieceKept, CurrentKept, RepliedKept, DueStatusKept DEF ReplyInv

LEMMA ReplyInvariance == Spec => []ReplyInv
BY Invariance, ReplyInvInit, ReplyInvNext, PTL DEF Spec

\* Whoever sends its request in one piece and stays is sent exactly the reply
\* that the request and the files call for, unless something fails, is edited
\* or interrupted: gerer_client and http_response_* go the right way for every
\* request, file system, buffer and order of events.
THEOREM RepliesAsDue == Spec => []RepliedAsDue
<1>1. ReplyInv => RepliedAsDue
  BY DEF ReplyInv
<1> QED BY <1>1, ReplyInvariance, PTL

\* Even when a SIGINT cuts the reply short, or the client hangs up before its
\* end, the status sent is the one that the request and the files call for.
THEOREM StatusesAsDue == Spec => []StatusAsDue
<1>1. ReplyInv => StatusAsDue
  BY DEF ReplyInv
<1> QED BY <1>1, ReplyInvariance, PTL
=============================================================================
