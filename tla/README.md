# TLA+ models of httpd

`httpd` is a small HTTP/1.1 server in C with one thread, a daemon mode
(`--daemon start|stop|restart`, a pid file, SIGINT) and static files. This
directory models it: the daemon commands and the processes they leave behind,
the accept loop with all it does for a connection, the request parser, the
command line and the string type. Safety and liveness are checked with TLC on
small instances; the invariants that matter most are proved with TLAPS for all
values of the constants.

The repository has the program twice: `src/httpd/src` and, with comments and
English names, `src/httpd-provided_files/httpd/src`. The two agree call by call
except that the second cuts request lines at CR or LF and the first at LF only
(constant `LineDelims`; `MCRequest` runs both). `Server`, `Request` and the
commands in `Daemon` are mapped to the first; `Config`, `StringBuf` and the
server that `Daemon` contains to the second.

## Inventory

| component | state | operations | interacts with |
|---|---|---|---|
| daemon commands (`daemon/daemon.c`) | pid file, processes, exit codes | start, stop, restart, the foreground server | pid file, SIGINT, fork, server loop |
| server loop (`server/server.c`) | `actif`, listening socket, current client | bind, listen, accept, recv, refuse, close, `handle_sigint` | clients, parser, response, logger |
| request parser (`http/request.c`) | none | `http_request_parse` | server loop |
| response builder (`http/response.c`) | response, `body_fd` | create, send, destroy | file system, client |
| logger (`logger/logger.c`) | buffer of stdout | request, response, bad request | server loop |
| configuration (`config/config.c`) | heap | `parse_configuration`, `config_destroy` | main, everybody reads it |
| string (`utils/string/string.c`) | size and bytes | create, compare, concat, destroy | configuration |
| main | none | parse, dispatch, destroy | all |
| `tests/config_reader.sh` | none | a file becomes a command line | configuration |
| the browser game, SQL exercises, build scripts | - | - | not modelled, see below |

What is hard here is not concurrency inside the server, which has one thread,
but around it:

* commands and daemons run at the same time and share a file without a lock;
  each reads, tests and acts in separate system calls;
* SIGINT arrives between any two instructions of the loop, and only interrupts
  calls that block already;
* clients send in pieces, fall silent, read slowly or hang up; there is no
  timeout;
* files change between `stat`, `open` and `sendfile`;
* one line of the log is buffered, the others are flushed;
* any allocation may fail, of the configuration half-way through the options,
  of a request or a response without anybody testing it; `accept` may fail too.

`PROJECT.json` lists each of these hazards at its line with the properties that
cover it. What makes each component correct:

* daemon: the pid file names daemons and nothing else, SIGINT goes to daemons
  only, at rest the file is right, a stopped daemon ends, no daemon is lost; to
  its user, who waits for one command before typing the next, it is
  `DaemonService`;
* server: one reply at most, in order of arrival, no descriptor leaks, the body
  is within Content-Length, the log tells what happened, nobody starves; to its
  clients it is `OneReply`;
* parser: the fields are those of the lines, whatever the line ends;
* configuration: accepted when it should be, the last option wins, memory;
* string: holds its bytes, compares as promised.

## Modules

| module | models |
|---|---|
| `Daemon` | all processes of one configuration, one step for each system call that another process can observe |
| `DaemonService` | abstract: what the commands promise a user who types one at a time |
| `MCDaemon` | process sets, fault sets and symmetry for TLC |
| `DaemonProofs` | inductive invariants and theorems of `Daemon`, first in any interleaving, then of commands typed one after the other, the refinement of `DaemonService` among them |
| `Request` | `http_request_parse` as operators on sequences of tokens |
| `MCRequest` | texts built line by line, read by both copies of the parser, and the reference they are compared with |
| `RequestProofs` | lemmas about the operators of `Request`: fields of a text that grows, words, keys, values |
| `MCRequestProofs` | the theorems of `MCRequest`, for any number of lines |
| `OneReply` | abstract: what the server promises its clients |
| `Server` | the loop, `gerer_client`, `http_response_*`, the logger, clients, SIGINT, edits of files, failing calls; extends `Request` |
| `ServerProcess` | `Server` seen as the one process of an instance of `Daemon` |
| `MCServer` | requests, files and the replies the integration tests expect |
| `ServerProofs` | the inductive invariant of `Server`, its theorems, the refinement of `OneReply` |
| `ServerClientProofs` | the log agrees with what was sent, is in order, and what a SIGKILL takes of it; the reply is the one that the request and the files call for: proved |
| `MCServerProofs` | the refinement of `Daemon` by `ServerProcess`, and the statuses that the integration tests expect, proved |
| `Config` | one step for each option; every block counted |
| `ConfigReader` | `config_reader.sh`: which options a line of a file is turned into |
| `MCConfig` | command lines for TLC, typed or made by `ConfigReader`; shapes of lines and what each says |
| `ConfigProofs` | ownership of memory, acceptance, that the last option wins and that files are obeyed, proved |
| `StringBuf`, `StringBufProofs` | the string type, its content and its comparison proved |

### Daemon

A process is a control state `pc[p]`, named after the call it is about to make
(`s_` in `arret_demon`, `l_` in the parent of `lancement_demon`, `c_` in the
child). Calls that block have control states of their own, `accepting`,
`receiving` and `sending`, because SIGINT makes only those return; anywhere else
it only clears `actif` (`Interrupted`, `Signal`). Before `sigaction` the default
action applies and SIGINT kills.

* `file` is the content at the path of the pid file: none, empty, or a pid.
  `linked` are the processes whose open `FILE*` is still that file: a daemon
  whose file was unlinked between `fopen` and `fclose` writes into an inode no
  path reaches.
* `target[p]` is the local variable `pid` of the commands, which may be stale
  when it is used.
* `listener` is who listens on the port. With SO_REUSEADDR two processes can
  both bind before one listens, so `bind` and `listen` fail separately.
* `late[p]` counts the connections accepted after the flag was cleared.
* Faults are a constant: `fork`, `fopen`, `log`, `bind`, `accept` fail, `ctrlc`,
  `sigkill`, `recycle` (pids are reused). Ctrl-C reaches a child of `fork` only
  until it has called `setsid`, which is before `ecrire_pid`; the fork and the
  parent's `return 0` are one step, so that a parent killed in between is left
  out (it would return no 0, although its child is there).
* `Serial` makes commands wait until nothing moves, which is how the tests use
  them, and clients do nothing while a stop or a restart has not sent its SIGINT
  yet (`AimPCs`, `ClientsAct`); at any other moment, and with a daemon that is
  blocked for one of them, they do what they like. `SleepSettles` lets the
  second of `restart` outlast the others' work.

A request is here three calls: `recv`, which may block until the client sends or
hangs up (`receiving`), the reply, which may block until it reads or hangs up
(`sending`, the `sendfile` of a body longer than the socket's buffer), and the
rest of `gerer_client` (`Finish`). Its content is the matter of `Server`.
`ServerProcess` shows that this is enough: with `ProcessPC` as refinement mapping
every step of `Server` is a step of `Daemon` or changes nothing that `Daemon`
sees. That is about safety; what must happen in the end is checked of each
module on its own.

`DaemonService` knows neither pid files nor signals: at most one daemon exists,
`Launch` makes one when there is none, `Tell` asks it to end, and only then it
gives the port back. Its `reports` are the exit codes: a stop that returned 0 has
told every daemon, a start or a restart that returned 0 has launched one, and a
stop does not fail. `Daemon!Service` is the mapping; it holds under `Serial`
and `SleepSettles`, and neither the crash of a daemon nor two commands at once
keep it.

### Server

`pc` is the next call of the one thread. A connection goes `accept`, `recv`,
`parse`, `check` and then one of three ways: a 400, a 505, or
`http_response_create` (`Stat`, `Open`, ...) followed by status line, headers,
body and log. `inode` is the file behind the open descriptor, which an edit in
place changes (`WriteFile`) and a rename or unlink does not (`ReplaceFile`).
`buf` and `log` separate what stdio holds from what was written. A client sends
its request in the segments of `todo[c]` and may hang up at any time; after
that nothing reaches it. Calls that block have control states of their own
(`accepting`, `receiving`, `sending`): SIGINT makes them return
(`SigintWakes`), a `sendfile` with what it has sent so far. `sendfile` blocks
when the body is longer than `SocketBuffer` until the client reads (`Drain`) or
hangs up (`SendFails`).

Every allocation may fail: the parser returns NULL or a request that lacks any
of its strings (`Starved`), a response lacks its status line (the client is sent
"(null)", the log says 000), its headers or both (`Maimed`), or a NULL is
dereferenced and the process ends (`Crash`). `MaxChanges` bounds the steps in
which something fails or is edited, not what fails in one of them. `accept` may fail
(`AcceptFails`), which is logged by `perror` at once.

### Request

A text is a sequence of tokens: a word without blanks, or one of the bytes the
parser looks for (space, CR, LF, colon, NUL). Two words next to each other make
another word, so the version `HTTP/1.1` followed by a CR is not `HTTP/1.1`.
Successive calls of `strtok_r` return the fields that begin at `Starts`. All
lines after the first count as headers, including those of a body, because
`strtok_r` merges the blank line: `HeaderLines` are those of one name, and the
last of them is the header (`LastHeader`).

`MCRequest` lets a text grow by one line at a time, parses it as a whole each
time with both copies, and compares the result with what the lines say, looked
up in a table of the lines (`WordsOf`, `HostOf`, `LengthOf`).

### Config, ConfigReader and StringBuf

`val[s]` is what a pointer of `struct config` points to, `live[s]` the number
of blocks allocated for it and not freed: a leak makes it too large, a double
free too small. `server_name` and its bytes are separate blocks.
`ConfigReader` turns a line, a sequence of words, spaces and equal signs, into
the option that the regular expression of the script and then `getopt_long`
make of it: of all matches the leftmost and longest. Its command lines are
among those that `Config` is run with (`Calls`), so that `FileObeyed` relates a
file to the configuration that comes of it. `StringBuf`
keeps next to each struct the bytes that its owner has put into it.

## Runs

Passing:

| run | asks | distinct states |
|---|---|---|
| `daemon_serial` | commands one after the other: is the pid file right at rest, is it ever taken from a daemon, can exit codes be believed? refinement of `DaemonService` | 49 k |
| `daemon_concurrent` | three commands at once, with failing calls: what survives every interleaving? | 198 k |
| `daemon_crash` | SIGKILL, recycled pids, failing log: is a daemon ever unreachable? | 159 k |
| `daemon_live` | does a signalled daemon end when clients keep coming, does every started child serve or exit? | 100 k |
| `request_lf` | are the fields those of the lines, in both copies of the parser and with LF or CR LF? | 83 k |
| `server_clients` | one reply, no leak, the log, what a SIGKILL can take of it, everybody served; refinement of `OneReply` and of `Daemon` | 325 k |
| `server_files` | body within Content-Length under edits and failing allocations; the statuses of the integration tests; the whole reply that a request calls for | 412 k |
| `config_lines` | accepted when right, last option wins, what the file says, memory, with failing allocations | 518 k |
| `string_bytes` | content and comparison | 122 |

Refuted, each a disagreement between the code and what a comment or a test of
the repository says (quoted in `PROJECT.json`, `findings`):

| run | what happens |
|---|---|
| `lost_wakeup` | SIGINT between `while (actif)` and `accept` is lost; the daemon stays, without pid file |
| `split_get` | a GET in two segments is a 400 |
| `dir_default` | a default file that is a directory: Content-Length announces a body that does not come |

Behaviours that the models contain, that no property forbids and that a reader
should know of; they follow from single lines:

* the cleanup of a start (daemon.c:76) may remove the pid file that the daemon
  of another start has just written;
* the one second of `restart` (daemon.c:142) may be too short, when the old
  daemon is blocked for a client: the new daemon cannot bind and exits after
  the restart has returned 0. With `SleepSettles` the second is long enough;
* after a SIGKILL the pid in the file may belong to another process, and start
  refuses although no daemon runs;
* a file removed between `stat` and `open` is answered 403; one that shrinks
  before `sendfile`, or a SIGINT during it, gives a body shorter than announced;
* the line of a 505 waits in the buffer of stdout for somebody else's flush, and
  the message of a failed `accept` may overtake it; it is the only line that a
  SIGKILL can take (`OneLineAtRisk`). A reply to a client that hung up is logged
  like any other;
* a stop whose `kill` fails, because the daemon died after the test, returns 1
  and leaves the pid file (daemon.c:57-60); the comments of the other copy
  (daemon.c:78 and 81) say that it is deleted and that stop returns 0.
  `ServesUser` shows that commands typed one after the other never get there;
* a failed allocation in a response ends the server, or sends "(null)" for a
  status line, or a body without headers;
* in a configuration file "# ip = x" sets ip, "#ip = x" is an unknown option
  that ends httpd, "ip  = x" with two spaces is passed over, a value is cut at
  its first blank, and a `daemon` line wins over the `--daemon` of the script;
* a failed `strdup` of `--default_file` or `--daemon`, and an empty
  `--server_name`, give a configuration that is accepted with a NULL in it;
* `string_compare_n_str` goes on after a NUL inside the struct string, where
  `strncmp` would stop.

### Bounds, and why they are enough

* Three commands (`MaxCommands`), with a process for each and for the children
  they fork: enough for a command to meet a daemon, a second command and the
  leftovers of a third. Two are enough for each race of two. Pids are symmetric
  in safety runs.
* `MaxBacklog` 1: one connection waiting is enough for the loop to accept with a
  cleared flag.
* `ClientsAct`, in the two serial runs: no client connects, sends, reads or hangs
  up between the beginning of a stop or restart and its SIGINT. Without it the
  lost wakeup (`lost_wakeup`) leaves a signalled daemon alive without its file,
  and `NoOrphan` fails whichever of the three actions is freed of the condition:
  a daemon that waits for a client is at rest, and each of them can move it to
  the place between the test of `actif` and `accept`.
* Two clients: one served, one waiting; the server keeps nothing between two
  connections but the buffer of stdout, which the second client sees. They ask
  a GET, whole or in two segments, or with version 1.0 (`SomeRequests`); failed
  allocations lead them through the other ways of `gerer_client`. All the
  requests of the integration tests are asked by the one client of
  `server_files`.
* `BufferSize` 11 or 12 tokens, the length of a plain GET or one less: a longer
  request is cut, shorter ones arrive whole or in two segments.
* `SocketBuffer` 1 and files of size 1 to 3: a body that fits and one that makes
  `sendfile` block.
* `MaxChanges` 2 with files, 1 with two clients: one edit between `stat` and
  `open` and one before `sendfile`, or one of them and a failing call.
* `MaxLines` 4: a request line, two headers that compete and a line around them.
* Two options besides the mandatory ones: a repetition and its successor; one
  when a mandatory option is missing. Any number of allocations may fail. The
  files are `config.txt` of the tests, shortened, changed or lengthened by one
  line of each of the shapes that the regular expression treats differently
  (`LinesOf`), or by another value, action or unknown option.
* Bytes 0, 1, 2 and sizes up to 4 for strings: NUL, equal, smaller and greater
  bytes at every place.

Deadlock is not checked: a machine with no command left, or a server that has
stopped, has nothing to do.

### Fairness

* `Daemon!FairSpec`: every process that is not blocked runs (weak fairness of
  each process), as the kernel schedules. Nothing is assumed of commands,
  signals or failures.
* `Daemon!FairClientsSpec`, for `daemon_live`: clients keep connecting, a
  connected one sends or hangs up, and one that is sent a long body reads or
  hangs up. The code justifies none of the three: it sets no timeout, and they
  are what it asks of its clients. `StopTerminates` fails without any one of
  them: without the first `lost_wakeup` applies, without the second the server
  waits in `recv`, without the third in `sendfile`, which a signalled daemon
  enters for the client it was answering or has accepted late. The run shows
  that the three are enough.
* `Server!FairSpec`: the server runs, and each client goes on sending and
  reading or hangs up. Without timeouts a silent client (`recv`) or one that
  does not read (`sendfile`) starves the others, so `EveryClientServed` cannot
  hold without it.

## Proofs

| theorem | states | assumes |
|---|---|---|
| `TypeCorrect` (`DaemonProofs`) | `[]TypeOK` | the assumptions of `Daemon` |
| `OneLateClient` | `[]AtMostOneLateClient` | nothing more |
| `PidFileOfDaemons` | `[]PidFileNamesDaemon` | no recycled pids |
| `SignalsOfDaemons` | `[]StopSignalsOnlyDaemons` | no recycled pids |
| `EmptyFileIsTransient` | `[]EmptyOnlyTransient` | no recycled pids, no SIGKILL |
| `StaleFileIsTransient` | `[]StaleOnlyTransient` | only orderly deaths |
| `NoDaemonIsLost` | `[]NoOrphan` | `SerialUse`; any call may fail and any process be killed |
| `PidFileIsKept` | `PidFileKept` | `SerialUse`, no recycled pids |
| `PidFileIsFaithful` | `[]PidFileFaithful` | `SerialUse`, no SIGKILL, recycled pid or failed log |
| `CommandsServeUser` | `ServesUser` | `SerialUse`, no SIGKILL, no recycled pids |
| `TypeCorrect` (`ServerProofs`) | `[]TypeOK` | the assumptions of `Server` |
| `NothingLeaks` | `[]NoLeak` | the same |
| `BodyBounded` | `[]BodyWithinLength` | the same |
| `ImplementsOneReply` | `OneReplyEach` | the same |
| `LogAgrees` (`ServerClientProofs`) | `[]LoggedOnce` | the same |
| `OneLineOfLogAtRisk` | `[]OneLineAtRisk` | the same |
| `LogIsInOrder` | `[]LogInOrder` | the same |
| `RepliesAsDue` | `[]RepliedAsDue` | the same |
| `StatusesAsDue` | `[]StatusAsDue` | the same |
| `ImplementsProcess` (`MCServerProofs`) | `ServesAsDaemon` | the same, and finitely many clients |
| `TestsPass` | `[]RepliesAsTested` | `Instance`: the assumptions of `Server`, lines cut at LF, the files of `MCServer`, a buffer that holds the requests of the tests |
| `RequestLineIsRead` (`MCRequestProofs`) | `[]RequestLineRead` | the assumption of `Request` |
| `HostIsRead` | `[]HostRead` | the same |
| `LengthIsRead` | `[]LengthRead` | the same |
| `CrStays` | `[]CrStaysInVersion` | the same |
| `RequestLineStays` | `RequestLineStable` | the same |
| `NoLeakNoDoubleFree` (`ConfigProofs`) | `[]BlocksOwned` | nothing |
| `AcceptsExactly` | `[]AcceptedIff` | command lines are sequences of options |
| `LastOptionWins` | `[]LastWins` | the same |
| `AnyFileIsObeyed` | `[]FilesObeyed` | the same |
| `FileIsObeyed` | `[]FileObeyed` | the same |
| `BytesKept` (`StringBufProofs`) | `[]HoldsBytes` | the assumptions of `StringBuf` |
| `ComparesLikeStrNCmp` | `[]ComparesAsStrNCmp` | the same |

`SerialUse` is how the tests of the daemon use it: a command is typed when
nothing moves any more and no client acts between the beginning of a stop or
restart and its SIGINT (`Serial`), and the second of `restart` is long enough
(`SleepSettles`). The number of clients and of those that wait is arbitrary, and
a daemon may be blocked for one of them when a command is typed. Each part is
needed: without the first and the last the behaviours listed above lose a daemon
or its file, and a client at the wrong moment loses the signal (`lost_wakeup`).
It is an assumption about the clients that nothing in the code enforces.

None of the invariants is inductive alone, and each strengthening was checked
with TLC on the instances of the runs before it was proved.

`DaemonProofs`, of any interleaving:

* `LateInv`: a server with a cleared flag that has accepted a late connection is
  past the test of the flag, so it will not accept another.
* `PidFileInv`: the file, the variables `target` that are still to be used and
  the processes that hold the file open are all daemons; a daemon that is in the
  file is past its `fclose`. The file alone says nothing of the stale copies
  that `stop` signals.
* `EmptyInv`: the file is empty exactly while some process that holds it open is
  before its `fclose`.
* `StaleInv`: relates the `target` of a stop that has signalled to the file, and
  says that a daemon in the file that is not signalled is not dead.

The second half of it, of `SerialUse`, has `SerialInv`, which no failure breaks:

* `RoleInv`: who is in which part of the code. The port belongs to the one
  process in the loop.
* `TurnInv`: one command and one living daemon at most. `LifeInv` follows the
  daemon, which is in the file from its `fclose` to the end of its loop unless
  it was told to stop, and is told only when it blocks, in `accept`, `recv` or
  `sendfile`, where the signal is not lost. `CommandInv` is what a command knows
  of it at each call: until it signals, it has found it settled (`Settled`) and
  read its pid; it has told it; or it is about to find it in the file and refuse,
  while clients keep the daemon moving; and it never forks while one lives. This carries a fact of the moment the command was typed through all
  of its system calls.
* `ActInv` and `KillInv`, for the refinement of `DaemonService`: the part of the
  code agrees with the option, and the daemon that a stop has found is there
  when it is signalled, so that the `kill` does not fail.

`ServerProofs` has one inductive invariant, `IInv`, in parts that are proved one
by one, each for every action:

* `Types`: the variables keep their types, which needs more than `TypeOK`, for
  instance that `got` and `res` are records with lengths in Nat.
* `FdInv`: which descriptors are open at each control state. `NoLeak` speaks of
  the idle ones only; whether `destroy` closes the body depends on `res.body`,
  which must agree with `fds` from `Open` on, through every failed allocation.
* `LateInv`: the flag is cleared when the loop has ended; needed for "turned
  away by a SIGINT only".
* `QueueInv`: a client that waits has been sent nothing, waits once, and is not
  the one being served.
* `StatusInv` and `LengthInv`: nothing has been sent before the status line,
  and what has been sent agrees with `res` afterwards; `BodyWithinLength` is
  inductive only together with them.

`ImplementsOneReply` follows with the refinement mapping `Promise`: `PromiseInit`
for the initial state, `PromiseTurns`, `PromiseArrive`, `PromiseTell` and
`PromiseSends` for the steps that OneReply sees, `PromiseStutters` for the rest.

`ServerClientProofs` adds `LogInv`. For each client the log is fresh (says nothing
of it), open (its request is there, its status is not, and no other client has
written since) or has reported it; `CurInv` says which, at each call. What
makes it hard is the one line that waits in the buffer of stdout: `BufferedInv`
says that this is a 505 whose client is still open in the log, and when a flush
may find it there, so that the next line of anybody puts it where it belongs.
The three properties of the log are read off it.

It adds `ReplyInv` too, for a client that sends its request in one
piece. `PieceInv`: the request is with the client, on the wire or in `buffer`,
whole. `CurrentInv`: as long as nothing fails or is edited, the server knows at
each call what the reference `ReplyDue` says of that request (`KnownInv`: the
request, the path, the response, the open file), and unless a SIGINT comes or
the client hangs up it has sent the part of it that is due by then (`SentInv`).
`ReplyDue` is defined by the request and the files, without any of the steps of
the server. For a directory whose default file is a directory it takes the
length that the code announces and the empty body that it sends for due; that
this is wrong is the matter of `LengthTruthful`. The status needs less than the whole reply: `StatusAsDue` rests on
`KnownInv` alone, which neither a SIGINT nor a client that hangs up disturbs.

`TestsPass` in `MCServerProofs` draws from it that the integration tests get the
statuses that they expect, among any other clients. What is left to prove is a
statement about the parser and the files, `TestDue`: for each request of
`Tests`, what `recv` leaves of it in a buffer of at least 12 tokens is parsed
into the method, target, version and host of the test (`AskHeard`,
`ShortHeard`, token by token with the lemmas of `RequestProofs`), and
`StatusDue` of those is the expected status in the files of `MCServer`
(`AskDue`).

`ImplementsProcess` uses `IInv` again. `ProcessLoop`, `ProcessAccepts`,
`ProcessEnds`, `ProcessSignal` and `ProcessConnect` name the action of `Daemon`
for each step it sees, `ProcessElse` and `ProcessEdits` show that it sees no
other. A client of `Server` connects once while the backlog of `Daemon` is
bounded: `RoomInBacklog` derives the bound from `QueueInv`, by which those who
wait are different clients, and from the pigeonhole principle.

`MCRequestProofs` proves what the run `request_lf` checks for texts of up to four
lines for texts of any number of them; the kinds of lines are those of
`AnyLine`. The parser reads the whole text each time, so the induction is over
the lines and never over the text: `StartsOfConcat` and `FieldsOfConcat`
(`RequestProofs`) say that the fields of a text that ends with a line end stay
the fields when another text follows, and the rest comes from there.
`RequestLineStays` needs no more.

The other four compare a text with the lines it was made of. `LineIsSeen` does so
for one line: the words, the key and the value that the parser cuts out of it
are those of the tables, with a CR left at its end or without. `ReadInv` does
so for all: `FirstInv` follows the first line that is not empty, `NulInv` the NUL
at which the text ends for the parser, `HeaderInv` the last header of each name
and `SameHost` that both copies have the same one. `HeaderInv` is inductive only
with `FirstInv`, because a line is a header when a request line came before it,
and with `NulInv`, because a line after a NUL is none.

`ConfigProofs` has two invariants. `OwnInv` adds to `BlocksOwned` that nothing
is set before the defaults and that the maps keep their domains. `ResultInv`
says what the first options of the command line have made of the configuration:
for each of them that is a string, a number or a flag, the last one before the
current place is the value (`MadeOf`), and the rest of the line is still to
come. The place is the induction variable, so that the theorems hold of command
lines of any length.

`AnyFileIsObeyed` goes on from there to configuration files of any number of
lines, each empty or of one of the shapes of `LinesOf` with any words for the
key, the value and the word beside them; `FileObeyed` is the same of the files
of `MCConfig`. There are three steps. For each shape there is a lemma
(`SpacedRead` to `OneWordRead`): `Match`, chosen among all matches of the
regular expression, is the one named there, because every other is worse
(`BestIs`), and the option made of it is the one the line is listed with
(`LineRead`). The options of the lines are joined by `FlattenSeq`, a fold; by
induction over the lines (`CommandLineTells`) the command line tells of each
name what the file and the script's `--daemon` tell, and the last line that
says something of a name is its last option (`SaidIsLast`). `ResultInv` then
says what the configuration holds, and `Accepted` that a refusal has one of the
three reasons (`AcceptedFile`, `RefusedFile`). One shape is taken with a
condition: a line of `server_name` must not give it an empty value, because the
name has no data then (see the hazards). It excludes no file, since words are
not empty in a file. The words of the theorem may be any strings, but the
model takes an abbreviated option, which `getopt_long` would complete, for an
unknown one: of the code the theorem speaks only where no key is abbreviated.

`StringBufProofs` adds to `HoldsBytes` that the bytes are a sequence. The
comparison is a loop: `CompareN` and `strncmp` are both given by the least place
where they stop. The library's induction theorems cannot be used (they take an
operator as a parameter), but the least element of a set of numbers does as
well, and lemma `Least` derives it from the well-foundedness of the naturals.

Model-checked only:

* all liveness (`StopTerminates`, `StartServes`, `EveryClientServed`), which is
  out of the prover's reach;
* requests and lines of configuration files of other shapes than the two
  modules list (`AnyLine` in `MCRequestProofs` and in `ConfigProofs`). A theorem
  about every line would have to say what `strtok_r` or the regular expression
  does in other words than `Starts` and `Matches`.

## What is abstracted or left out

* Reading the pid file is one step; the window between `fopen` and `fclose` of
  the writer is kept. `sigaction` cannot fail; children are reaped by init. What
  the commands print is left out, and with it that "Starting daemon..." may be
  in the buffer of stdout at fork and be printed twice.
* All commands of an instance use one configuration. A configuration that
  `parse_configuration` refuses starts no process.
* Headers other than Content-Length, dates, addresses and the wording of the
  log are left out. Numbers are tokens: `LengthRead` says which line counts, not
  what `strtoul` makes of a number that is negative or too large, and no other
  code uses the value. Header names are compared as tokens; `strcasecmp` is taken
  as equality. `write` of the status line and headers is never short.
* Closing a socket with unread data may reset the connection; the model lets
  what was sent arrive.
* The files below `root_dir` are regular files, directories or unreadable; a
  FIFO, on which `open` blocks until somebody writes, is left out.
* The leaks of a failed `realloc` and of a crash are left to the end of the
  process. A `close` cannot fail.
* `config_reader.sh`: what it does when its own arguments are wrong is left out
  (it prints its usage), except that a file that does not exist is read as
  empty: the `exit 1` of that test leaves a subshell only. Abbreviated options,
  which `getopt_long` accepts, are not among the words.
* Not modelled: the browser game (a page served as a test fixture: DOM
  callbacks, two timers and one key of localStorage), the SQL exercises (queries
  without state), build and format scripts (text output).

## Plan

Done, in this order: `Daemon` and its proofs, `Request`, `Server` with
`OneReply`, `Config`, `StringBuf`; then failing calls and blocked ones in
`Server`, `ServerProofs`, `DaemonService`, `ServerProcess` and its proof,
`ConfigReader`, both copies of the parser; then the proofs of serial commands,
of the log, of the replies, of the configuration, of the comparison and of the
parser; last the statuses of the integration tests and the lines of
configuration files. Every safety property that a passing run checks is proved.

Next:

1. A liveness property of `restart` that says when the second is long enough.
2. The hazards without a property: unread data at `close`, a FIFO below
   `root_dir`, the output of both processes after `fork`.
