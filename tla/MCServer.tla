------------------------------ MODULE MCServer ------------------------------
(***************************************************************************)
(* Instances of Server for TLC: requests, files and what is to be replied. *)
(***************************************************************************)
EXTENDS ServerProcess

CONSTANTS c1, c2

OneClient == {c1}
TwoClients == {c1, c2}

\* /f is a file, /d a directory with a default file, /e one without, /s one
\* whose default file is a directory, /l may not be read.
Paths == {"/f", "/d", "/d/index", "/e", "/s", "/s/index", "/l"}
Indexes == [p \in Paths |-> CASE p = "/d" -> "/d/index"
                              [] p = "/s" -> "/s/index"
                              [] OTHER -> NoPath]

File(n) == [kind |-> "file", size |-> n]
Dir == [kind |-> "dir", size |-> 1]
Locked == [kind |-> "locked", size |-> 1]

Tree == [p \in Paths |-> CASE p \in {"/d", "/e", "/s", "/s/index"} -> Dir
                           [] p = "/l" -> Locked
                           [] OTHER -> File(2)]
Trees == {Tree}

NoEdits == {}
Edits == {Absent, File(1), File(3), Dir}

-----------------------------------------------------------------------------
(* Requests.                                                               *)

HostLine(h) == <<"Host", Colon, SP>> \o h \o <<LF, LF>>
Ask(m, t, v, h) == <<m, SP, t, SP, v, LF>> \o HostLine(h)
Get(t) == Ask("GET", t, "HTTP/1.1", <<"localhost">>)

\* What the integration tests send, and what they expect.
Test(text, status) == [request |-> <<text>>, status |-> status]
Tests ==
    { Test(Get("/f"), "200"),
      Test(Ask("HEAD", "/f", "HTTP/1.1", <<"ip", Colon, "port">>), "200"),
      Test(Get("/d"), "200"),
      Test(Get("/e"), "404"),
      Test(Get("/none"), "404"),
      Test(Get("/l"), "403"),
      Test(Ask("POST", "/f", "HTTP/1.1", <<"ip">>), "405"),
      Test(Ask("GET", "/f", "HTTP/1.0", <<"localhost">>), "505"),
      Test(Ask("GET", "/f", "HTTP/1.1", <<"evil.com">>), "400"),
      Test(<<"GET", SP, "/f", SP, "HTTP/1.1", LF, LF>>, "400"),
      Test(Ask("GET", "/f", "HTTP/1.0", <<"evil.com">>), "400"),
      Test(<<"GET", SP, "/f", LF, LF>>, "400"),
      Test(<<LF, LF>>, "400") }

WholeRequests == {t.request : t \in Tests}

\* The same GET in two segments, cut within the request line or after it.
SplitRequests == { <<SubSeq(Get("/f"), 1, n), SubSeq(Get("/f"), n + 1, 12)>> :
                   n \in {3, 6} }

\* A request whose Host header lies beyond the buffer of recv.
LongRequest ==
    <<"GET", SP, "/f", SP, "HTTP/1.1", LF, "x", Colon, SP, "x", LF>>
    \o HostLine(<<"localhost">>)

AllRequests == WholeRequests \cup SplitRequests \cup {<<LongRequest>>}

\* A GET, whole and in two segments, and a request that leaves a line in the
\* buffer of stdout; failed allocations lead to the other ways through
\* gerer_client.
SomeRequests ==
    { <<Get("/f")>>, <<SubSeq(Get("/f"), 1, 3), SubSeq(Get("/f"), 4, 12)>>,
      <<Ask("GET", "/f", "HTTP/1.0", <<"localhost">>)>> }
GetDefault == { <<Get("/s")>> }

OnlyLF == {LF}

-----------------------------------------------------------------------------
\* Every request of the integration tests gets the status they expect, when
\* it arrives in one piece and nobody has edited the files.
RepliesAsTested ==
    \A t \in Tests, c \in Client :
        /\ asked[c] = t.request /\ got[c].status # NoStatus
        /\ changes = 0
        => got[c].status = t.status

\* test_valid_get: a complete GET of a file is answered 200.
SplitGetAnswered ==
    \A c \in Client : got[c].status # NoStatus => got[c].status = "200"
=============================================================================
