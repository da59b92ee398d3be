---------------------------- MODULE ConfigProofs ----------------------------
(***************************************************************************)
(* parse_configuration neither leaks nor frees twice, accepts what it      *)
(* should and lets the last option of a name win, whatever the command     *)
(* line and whichever allocations fail; and through config_reader.sh it    *)
(* obeys every file made of the lines that MCConfig lists, with any words. *)
(***************************************************************************)
EXTENDS MCConfig, SequenceTheorems, WellFoundedInduction, TLAPS

\* Before the defaults nothing is allocated; then every pointer owns one
\* block, until the configuration is destroyed.
OwnInv ==
    /\ DOMAIN val = Slots /\ DOMAIN live = Slots
    /\ pc \in {"create", "parse", "returned", "failed", "destroyed"}
    /\ pc = "create" => val = [s \in Slots |-> Null]
    /\ BlocksOwned

LEMMA CountNull == Count(Null) = 0
BY DEF Count

LEMMA CountInt == ASSUME NEW v PROVE Count(v) \in Int
BY DEF Count

LEMMA SlotNames ==
    /\ StringOptions \subseteq Slots
    /\ \A s \in {"daemon_action", "server_name", "server_name_data", "config",
                 "vhost"} : s \in Slots
BY DEF Slots

\* Destroying what owns its blocks leaves none.
LEMMA DestroyFreesAll ==
    ASSUME NEW v, NEW l, \A s \in Slots : l[s] = Count(v[s])
    PROVE  /\ DOMAIN AfterDestroy(v, l) = Slots
           /\ \A s \in Slots : AfterDestroy(v, l)[s] = 0
BY CountInt DEF AfterDestroy

\* Replacing one string keeps every pointer the owner of its block.
LEMMA ReplaceKeeps ==
    ASSUME OwnInv, pc = "parse", pc' = pc,
           NEW s \in Slots, NEW w, ReplaceString(s, w)
    PROVE  OwnInv'
<1>1. \A t \in Slots : live[t] = Count(val[t])
  BY DEF OwnInv, BlocksOwned
<1>2. \A t \in Slots : live'[t] = Count(val'[t])
  BY <1>1, CountInt DEF OwnInv, ReplaceString
<1>3. DOMAIN val' = Slots /\ DOMAIN live' = Slots
  BY DEF OwnInv, ReplaceString
<1> QED
  BY <1>2, <1>3 DEF OwnInv, BlocksOwned

LEMMA OwnInit == Init => OwnInv
BY CountNull DEF Init, OwnInv, BlocksOwned

LEMMA OwnCreate == OwnInv /\ Create => OwnInv'
<1> SUFFICES ASSUME OwnInv, Create PROVE OwnInv'
  OBVIOUS
<1> DEFINE counted == [s \in Slots |-> Count(val'[s])]
<1>2. DOMAIN val' = Slots
  BY DEF OwnInv, Create
<1>1. \/ pc' = "failed" /\ live' = AfterDestroy(val', counted)
      \/ pc' = "parse" /\ live' = counted
  BY DEF Create
<1>3. \A s \in Slots : counted[s] = Count(val'[s])
  OBVIOUS
<1>4. CASE pc' = "failed" /\ live' = AfterDestroy(val', counted)
  <2> HIDE DEF counted
  <2>1. DOMAIN live' = Slots /\ \A s \in Slots : live'[s] = 0
    BY <1>3, <1>4, DestroyFreesAll
  <2> QED
    BY <1>2, <1>4, <2>1 DEF OwnInv, BlocksOwned
<1>5. CASE pc' = "parse" /\ live' = counted
  BY <1>2, <1>3, <1>5 DEF OwnInv, BlocksOwned
<1> QED
  BY <1>1, <1>4, <1>5

\* The steps that end with config_destroy.
LEMMA OwnDestroyed ==
    ASSUME OwnInv, pc \in {"parse", "returned"}, val' = val,
           pc' \in {"failed", "destroyed"}, live' = AfterDestroy(val, live)
    PROVE  OwnInv'
<1>1. \A s \in Slots : live[s] = Count(val[s])
  BY DEF OwnInv, BlocksOwned
<1>2. DOMAIN live' = Slots /\ \A s \in Slots : live'[s] = 0
  BY <1>1, DestroyFreesAll
<1> QED
  BY <1>2 DEF OwnInv, BlocksOwned

LEMMA OwnServerName == OwnInv /\ SetServerName => OwnInv'
<1> SUFFICES ASSUME OwnInv, SetServerName PROVE OwnInv'
  OBVIOUS
<1>1. pc = "parse" /\ pc' = "parse"
  BY DEF SetServerName, Given
<1>2. \A t \in Slots : live[t] = Count(val[t])
  BY <1>1 DEF OwnInv, BlocksOwned
<1> DEFINE Whole(n, d) == n # Null /\ (Value = "" \/ d # Null)
           Struct(n, d) == IF Whole(n, d) THEN n ELSE Null
           Data(n, d) == IF Whole(n, d) /\ Value # "" THEN d ELSE Null
<1>0. PICK n \in Alloc("set"), d \in Alloc(Value) :
        /\ val' = [val EXCEPT !["server_name"] = Struct(n, d),
                              !["server_name_data"] = Data(n, d)]
        /\ live' = [live EXCEPT
             !["server_name"] = @ - Count(val["server_name"])
                                  + Count(Struct(n, d)),
             !["server_name_data"] = @ - Count(val["server_name_data"])
                                       + Count(Data(n, d))]
  BY DEF SetServerName
<1>3. PICK x, y :
        /\ val' = [val EXCEPT !["server_name"] = x, !["server_name_data"] = y]
        /\ live' = [live EXCEPT
             !["server_name"] = @ - Count(val["server_name"]) + Count(x),
             !["server_name_data"] =
                 @ - Count(val["server_name_data"]) + Count(y)]
  <2> HIDE DEF Struct, Data
  <2> QED
    BY <1>0
<1>4. DOMAIN val' = Slots /\ DOMAIN live' = Slots
  BY <1>3 DEF OwnInv
<1>5. \A t \in Slots : live'[t] = Count(val'[t])
  BY <1>2, <1>3, <1>4, CountInt, SlotNames DEF OwnInv
<1> QED
  BY <1>1, <1>4, <1>5 DEF OwnInv, BlocksOwned

LEMMA OwnNext == OwnInv /\ [Next]_vars => OwnInv'
<1> SUFFICES ASSUME OwnInv, [Next]_vars PROVE OwnInv'
  OBVIOUS
<1>1. CASE Create
  BY <1>1, OwnCreate
<1>2. CASE SetString
  BY <1>2, ReplaceKeeps, SlotNames DEF SetString, Given
<1>3. CASE SetLog
  BY <1>3 DEF SetLog, Given, OwnInv, BlocksOwned
<1>4. CASE SetDaemon
  BY <1>4, ReplaceKeeps, SlotNames DEF SetDaemon, Given
<1>5. CASE SetServerName
  BY <1>5, OwnServerName
<1>6. CASE Refuse
  BY <1>6, OwnDestroyed DEF Refuse, Given
<1>7. CASE Finish
  <2>1. CASE CheckMandatory
    BY <1>7, <2>1 DEF Finish, OwnInv, BlocksOwned
  <2>2. CASE ~CheckMandatory
    BY <1>7, <2>2, OwnDestroyed DEF Finish
  <2> QED
    BY <2>1, <2>2
<1>8. CASE Destroy
  BY <1>8, OwnDestroyed DEF Destroy
<1>9. CASE UNCHANGED vars
  BY <1>9 DEF vars, OwnInv, BlocksOwned
<1> QED
  BY <1>1, <1>2, <1>3, <1>4, <1>5, <1>6, <1>7, <1>8, <1>9 DEF Next

\* Every pointer of the configuration owns its one block, and none is left
\* when NULL was returned or the configuration destroyed, for every command
\* line and every pattern of failed allocations (config.c).
THEOREM NoLeakNoDoubleFree == Spec => []BlocksOwned
<1>1. OwnInv => BlocksOwned
  BY DEF OwnInv
<1> QED
  BY OwnInit, OwnNext, <1>1, PTL DEF Spec

-----------------------------------------------------------------------------
(* What was read of the command line is what the configuration says.       *)

Option == [name : STRING, value : STRING]

\* How many options getopt_long has returned.
Read == Len(argv) - Len(rest)

\* v is the value of the last option called name among the first n, or the
\* default if there is none.
Tells(n, name, default, v) ==
    \/ v = default /\ \A i \in 1 .. n : argv[i].name # name
    \/ \E i \in 1 .. n :
         /\ argv[i].name = name /\ argv[i].value = v
         /\ \A j \in i + 1 .. n : argv[j].name # name

\* What the first n options set.
Values(n) == {argv[i].value : i \in 1 .. n}
Named(n, name) == \E i \in 1 .. n : argv[i].name = name
Default(s) == IF s = "default_file" THEN "index.html" ELSE Null

Holds(n, s, v) ==
    Tells(n, s, Default(s), v) /\ (Named(n, s) => v # Null)

Strings(n, w) == \A s \in StringOptions : Holds(n, s, w[s])
Daemons(n, w) == Tells(n, "daemon", "NO_OPTION", w["daemon_action"])
Logs(n, l) ==
    \E v \in {"true"} \cup Values(n) :
        Tells(n, "log", "true", v) /\ l = (v = "true")
Names(n, w) ==
    /\ w["server_name"] # Null <=> Named(n, "server_name")
    /\ \E v \in {Null} \cup Values(n) :
         /\ Tells(n, "server_name", Null, v)
         /\ Named(n, "server_name") =>
              v # Null /\ w["server_name_data"] = NameData(v)
Known(n) ==
    \A i \in 1 .. n : /\ argv[i].name # "?"
                      /\ argv[i].name = "daemon" => argv[i].value \in Actions

\* The strings w and the flag l are made of the first n options.
MadeOf(n, w, l) ==
    Strings(n, w) /\ Daemons(n, w) /\ Logs(n, l) /\ Names(n, w) /\ Known(n)

RestInv ==
    /\ argv \in Seq(Option) /\ rest \in Seq(Option)
    /\ Len(rest) <= Len(argv)
    /\ \A i \in 1 .. Len(rest) : rest[i] = argv[Read + i]

ResultInv ==
    /\ RestInv
    /\ DOMAIN val = Slots
    /\ pc \in {"create", "parse", "returned", "failed", "destroyed"}
    /\ pc = "create" => rest = argv /\ val = [s \in Slots |-> Null]
    /\ pc \in {"parse", "returned"} /\ ~short => MadeOf(Read, val, log)
    /\ pc = "returned" => rest = <<>> /\ CheckMandatory
    /\ pc = "failed" /\ ~short => ~Accepted

-----------------------------------------------------------------------------
\* One more option.
LEMMA TellsNext ==
    ASSUME argv \in Seq(Option), NEW n \in Nat, n < Len(argv),
           NEW name, NEW d
    PROVE  /\ argv[n + 1].name = name =>
                Tells(n + 1, name, d, argv[n + 1].value)
           /\ argv[n + 1].name # name =>
                \A v : Tells(n, name, d, v) => Tells(n + 1, name, d, v)
<1>1. n + 1 \in 1 .. n + 1 /\ \A j \in n + 1 + 1 .. n + 1 : FALSE
  OBVIOUS
<1>2. \A i \in 1 .. n + 1 : i \in 1 .. n \/ i = n + 1
  OBVIOUS
<1>3. \A i \in 1 .. n : i \in 1 .. n + 1
  OBVIOUS
<1>4. ASSUME argv[n + 1].name # name, NEW v, Tells(n, name, d, v)
      PROVE  Tells(n + 1, name, d, v)
  <2>1. CASE v = d /\ \A i \in 1 .. n : argv[i].name # name
    BY <1>2, <1>4, <2>1 DEF Tells
  <2>2. ASSUME NEW i \in 1 .. n,
               argv[i].name = name, argv[i].value = v,
               \A j \in i + 1 .. n : argv[j].name # name
        PROVE  Tells(n + 1, name, d, v)
    <3>1. \A j \in i + 1 .. n + 1 : j \in i + 1 .. n \/ j = n + 1
      OBVIOUS
    <3> QED BY <1>3, <1>4, <2>2, <3>1 DEF Tells
  <2> QED BY <1>4, <2>1, <2>2 DEF Tells
<1> QED BY <1>1, <1>4 DEF Tells

\* What getopt_long does.
LEMMA ReadOne ==
    ASSUME RestInv, rest # <<>>, rest' = Tail(rest), argv' = argv
    PROVE  /\ RestInv'
           /\ Read \in Nat /\ Read < Len(argv) /\ Read' = Read + 1
           /\ Head(rest) = argv[Read + 1] /\ argv[Read + 1] \in Option
           /\ argv \in Seq(Option)
<1>1. /\ argv \in Seq(Option) /\ rest \in Seq(Option)
      /\ Len(rest) \in Nat \ {0} /\ Len(argv) \in Nat
      /\ Len(rest) <= Len(argv)
      /\ \A i \in 1 .. Len(rest) : rest[i] = argv[Len(argv) - Len(rest) + i]
  BY DEF RestInv, Read
<1>2. /\ rest' \in Seq(Option) /\ Len(rest') = Len(rest) - 1
      /\ \A i \in 1 .. Len(rest') : rest'[i] = rest[i + 1]
      /\ Head(rest) = rest[1]
  BY <1>1
<1>3. \A i \in 1 .. Len(rest') : rest'[i] = argv[Len(argv) - Len(rest') + i]
  <2> SUFFICES ASSUME NEW i \in 1 .. Len(rest')
               PROVE  rest'[i] = argv[Len(argv) - Len(rest') + i]
    OBVIOUS
  <2>1. i + 1 \in 1 .. Len(rest) /\ rest'[i] = rest[i + 1]
    BY <1>1, <1>2
  <2>2. Len(argv) - Len(rest) + (i + 1) = Len(argv) - Len(rest') + i
    BY <1>1, <1>2
  <2> QED BY <1>1, <2>1, <2>2
<1>4. RestInv'
  BY <1>1, <1>2, <1>3 DEF RestInv, Read
<1>5. Read \in Nat /\ Read < Len(argv) /\ Read' = Read + 1
  BY <1>1, <1>2 DEF Read
<1>6. Head(rest) = argv[Read + 1]
  BY <1>1, <1>2 DEF Read
<1> QED BY <1>1, <1>4, <1>5, <1>6

\* What an option of another name leaves as it was.
LEMMA OthersKept ==
    ASSUME argv \in Seq(Option), NEW n \in Nat, n < Len(argv), NEW w, NEW x,
           NEW l
    PROVE  /\ \A s : argv[n + 1].name # s /\ x[s] = w[s]
                     /\ Holds(n, s, w[s])
                       => Holds(n + 1, s, x[s])
           /\ Daemons(n, w) /\ argv[n + 1].name # "daemon"
              /\ x["daemon_action"] = w["daemon_action"]
                => Daemons(n + 1, x)
           /\ Logs(n, l) /\ argv[n + 1].name # "log" => Logs(n + 1, l)
           /\ Names(n, w) /\ argv[n + 1].name # "server_name"
              /\ x["server_name"] = w["server_name"]
              /\ x["server_name_data"] = w["server_name_data"]
                => Names(n + 1, x)
           /\ Known(n) /\ argv[n + 1].name # "?"
              /\ (argv[n + 1].name = "daemon" =>
                    argv[n + 1].value \in Actions)
                => Known(n + 1)
<1>1. \A i \in 1 .. n + 1 : i \in 1 .. n \/ i = n + 1
  OBVIOUS
<1>2. \A i \in 1 .. n : i \in 1 .. n + 1
  OBVIOUS
<1>3. Values(n) \subseteq Values(n + 1)
  BY <1>2 DEF Values
<1>4. ASSUME NEW name, NEW d, NEW v, Tells(n, name, d, v),
             argv[n + 1].name # name
      PROVE  Tells(n + 1, name, d, v)
  BY <1>4, TellsNext
<1>5. \A name : argv[n + 1].name # name =>
        (Named(n + 1, name) <=> Named(n, name))
  BY <1>1, <1>2 DEF Named
<1>6. \A s : argv[n + 1].name # s /\ x[s] = w[s]
             /\ Holds(n, s, w[s])
               => Holds(n + 1, s, x[s])
  BY <1>4, <1>5 DEF Holds
<1>7. Daemons(n, w) /\ argv[n + 1].name # "daemon"
      /\ x["daemon_action"] = w["daemon_action"]
        => Daemons(n + 1, x)
  BY <1>4 DEF Daemons
<1>8. Logs(n, l) /\ argv[n + 1].name # "log" => Logs(n + 1, l)
  BY <1>3, <1>4 DEF Logs
<1>9. Names(n, w) /\ argv[n + 1].name # "server_name"
      /\ x["server_name"] = w["server_name"]
      /\ x["server_name_data"] = w["server_name_data"]
        => Names(n + 1, x)
  BY <1>3, <1>4, <1>5 DEF Names
<1>10. Known(n) /\ argv[n + 1].name # "?"
       /\ (argv[n + 1].name = "daemon" => argv[n + 1].value \in Actions)
         => Known(n + 1)
  BY <1>1 DEF Known
<1> QED BY <1>6, <1>7, <1>8, <1>9, <1>10

\* The command line does not change.
LEMMA MadeOfNext ==
    ASSUME argv' = argv, NEW n, NEW w, NEW l, n = Read', w = val', l = log',
           MadeOf(n, w, l)
    PROVE  MadeOf(Read, val, log)'
<1>1. /\ \A name, d, v : Tells(n, name, d, v) => Tells(Read, name, d, v)'
      /\ \A name : Named(n, name) <=> Named(Read, name)'
      /\ Values(n) = Values(Read)'
      /\ Known(n) => Known(Read)'
  BY DEF Tells, Named, Values, Known
<1>2. \A s, v : Holds(n, s, v) => Holds(Read, s, v)'
  BY <1>1 DEF Holds
<1>3. \A s \in StringOptions : Holds(Read, s, val[s])'
  <2>1. ASSUME NEW s \in StringOptions, NEW v, v = val'[s], Holds(n, s, v)
        PROVE  Holds(Read, s, val[s])'
    BY <2>1 DEF Holds, Tells, Named
  <2> QED BY <2>1 DEF MadeOf, Strings
<1>4. Tells(Read, "daemon", "NO_OPTION", val["daemon_action"])'
  BY DEF MadeOf, Daemons, Tells
<1>5. Logs(Read, log)'
  <2>1. PICK v \in {"true"} \cup Values(n) :
          Tells(n, "log", "true", v) /\ l = (v = "true")
    BY DEF MadeOf, Logs
  <2>2. log' = (v = "true")
    BY <2>1, Zenon
  <2>3. v \in {"true"} \cup Values(Read)' /\ Tells(Read, "log", "true", v)'
    BY <1>1, <2>1
  <2> QED BY <2>2, <2>3, Zenon DEF Logs
<1>6. Names(Read, val)'
  BY <1>1 DEF MadeOf, Names
<1> QED BY <1>1, <1>3, <1>4, <1>5, <1>6 DEF MadeOf, Strings, Daemons

\* A step that reads an option and makes the configuration of one more.
LEMMA OptionRead ==
    ASSUME ResultInv, pc = "parse", pc' = "parse", rest # <<>>,
           rest' = Tail(rest), argv' = argv, DOMAIN val' = Slots,
           short => short',
           ~short' => MadeOf(Read + 1, val', log')
    PROVE  ResultInv'
<1>1. RestInv' /\ Read' = Read + 1
  BY ReadOne DEF ResultInv
<1>2. ~short' => MadeOf(Read, val, log)'
  BY <1>1, MadeOfNext
<1>3. pc' # "create" /\ pc' # "returned" /\ pc' # "failed"
  OBVIOUS
<1> QED BY <1>1, <1>2, <1>3 DEF ResultInv

LEMMA StringRead ==
    ASSUME ResultInv, SetString
    PROVE  ResultInv'
<1> DEFINE n == Read
<1>1. PICK s \in StringOptions :
        /\ Given(s)
        /\ \E w \in Alloc(Value) : ReplaceString(s, w) /\ Shortage({w})
  BY DEF SetString
<1>2. PICK w \in Alloc(Value) : ReplaceString(s, w) /\ Shortage({w})
  BY <1>1
<1>3. /\ pc = "parse" /\ pc' = "parse" /\ rest # <<>>
      /\ rest' = Tail(rest) /\ argv' = argv /\ log' = log
      /\ Head(rest).name = s
  BY <1>1 DEF SetString, Given
<1>4. /\ n \in Nat /\ n < Len(argv) /\ argv \in Seq(Option)
      /\ Head(rest) = argv[n + 1]
  BY <1>3, ReadOne DEF ResultInv
<1>5. /\ DOMAIN val = Slots /\ val' = [val EXCEPT ![s] = w]
      /\ short' = (short \/ Null = w)
  BY <1>2 DEF ResultInv, ReplaceString, Shortage
<1>6. ASSUME ~short' PROVE MadeOf(n + 1, val', log)
  <2>1. w = argv[n + 1].value /\ MadeOf(n, val, log)
    BY <1>2, <1>3, <1>4, <1>5, <1>6 DEF Alloc, Value, ResultInv
  <2>2. s \in Slots /\ val'[s] = w /\ \A t \in Slots \ {s} : val'[t] = val[t]
    BY <1>5, SlotNames
  <2>3. /\ s \notin {"daemon", "log", "server_name", "?"}
        /\ s \notin {"daemon_action", "server_name", "server_name_data"}
    BY DEF StringOptions
  <2>4. Holds(n + 1, s, w)
    BY <1>3, <1>4, <1>5, <1>6, <2>1, TellsNext DEF Holds
  <2>5. Strings(n + 1, val')
    BY <1>3, <1>4, <2>1, <2>2, <2>4, OthersKept, SlotNames
    DEF MadeOf, Strings
  <2>6. Daemons(n + 1, val') /\ Logs(n + 1, log) /\ Names(n + 1, val')
    BY <1>3, <1>4, <2>1, <2>2, <2>3, OthersKept, SlotNames DEF MadeOf
  <2>7. Known(n + 1)
    BY <1>3, <1>4, <2>1, <2>3, OthersKept DEF MadeOf
  <2> QED BY <2>5, <2>6, <2>7 DEF MadeOf
<1> QED BY <1>3, <1>5, <1>6, OptionRead

LEMMA DaemonRead ==
    ASSUME ResultInv, SetDaemon
    PROVE  ResultInv'
<1> DEFINE n == Read
<1>1. /\ pc = "parse" /\ pc' = "parse" /\ rest # <<>>
      /\ rest' = Tail(rest) /\ argv' = argv /\ log' = log
      /\ Head(rest).name = "daemon" /\ Head(rest).value \in Actions
  BY DEF SetDaemon, Given, Value
<1>2. PICK w \in Alloc(Value) :
        ReplaceString("daemon_action", w) /\ Shortage({w})
  BY DEF SetDaemon
<1>3. /\ n \in Nat /\ n < Len(argv) /\ argv \in Seq(Option)
      /\ Head(rest) = argv[n + 1]
  BY <1>1, ReadOne DEF ResultInv
<1>4. /\ DOMAIN val = Slots /\ val' = [val EXCEPT !["daemon_action"] = w]
      /\ short' = (short \/ Null = w)
  BY <1>2 DEF ResultInv, ReplaceString, Shortage
<1>5. ASSUME ~short' PROVE MadeOf(n + 1, val', log)
  <2>1. w = argv[n + 1].value /\ MadeOf(n, val, log)
    BY <1>1, <1>2, <1>3, <1>4, <1>5 DEF Alloc, Value, ResultInv
  <2>2. /\ val'["daemon_action"] = w
        /\ \A t \in Slots \ {"daemon_action"} : val'[t] = val[t]
    BY <1>4, SlotNames
  <2>3. "daemon" \notin StringOptions /\ "daemon_action" \notin StringOptions
    BY DEF StringOptions
  <2>4. Daemons(n + 1, val')
    BY <1>1, <1>3, <2>1, <2>2, TellsNext DEF Daemons
  <2>5. Strings(n + 1, val')
    BY <1>1, <1>3, <2>1, <2>2, <2>3, OthersKept, SlotNames
    DEF MadeOf, Strings
  <2>6. Logs(n + 1, log) /\ Names(n + 1, val') /\ Known(n + 1)
    BY <1>1, <1>3, <2>1, <2>2, OthersKept, SlotNames DEF MadeOf
  <2> QED BY <2>4, <2>5, <2>6 DEF MadeOf
<1> QED BY <1>1, <1>4, <1>5, OptionRead

LEMMA LogRead ==
    ASSUME ResultInv, SetLog
    PROVE  ResultInv'
<1> DEFINE n == Read
<1>1. /\ pc = "parse" /\ pc' = "parse" /\ rest # <<>>
      /\ rest' = Tail(rest) /\ UNCHANGED <<argv, val, short>>
      /\ Head(rest).name = "log"
  BY DEF SetLog, Given
<1>2. log' = (Head(rest).value = "true")
  BY DEF SetLog, Value
<1>3. /\ n \in Nat /\ n < Len(argv) /\ argv \in Seq(Option)
      /\ Head(rest) = argv[n + 1]
  BY <1>1, ReadOne DEF ResultInv
<1>4. ASSUME ~short' PROVE MadeOf(n + 1, val, log')
  <2>1. MadeOf(n, val, log)
    BY <1>1, <1>4 DEF ResultInv
  <2>2. "log" \notin StringOptions
    BY DEF StringOptions
  <2>3. Logs(n + 1, log')
    <3> DEFINE v == argv[n + 1].value
    <3>1. Tells(n + 1, "log", "true", v)
      BY <1>1, <1>3, TellsNext
    <3>2. v \in Values(n + 1)
      BY <1>3 DEF Values
    <3>3. log' = (v = "true")
      BY <1>2, <1>3, Zenon
    <3> HIDE DEF v
    <3> QED BY <3>1, <3>2, <3>3, Zenon DEF Logs
  <2>4. Strings(n + 1, val)
    BY <1>1, <1>3, <2>1, <2>2, OthersKept DEF MadeOf, Strings
  <2>5. Daemons(n + 1, val) /\ Names(n + 1, val) /\ Known(n + 1)
    BY <1>1, <1>3, <2>1, OthersKept DEF MadeOf
  <2> QED BY <2>3, <2>4, <2>5 DEF MadeOf
<1>5. DOMAIN val' = Slots
  BY <1>1 DEF ResultInv
<1>6. ~short' => MadeOf(n + 1, val', log')
  BY <1>1, <1>4
<1> QED BY <1>1, <1>5, <1>6, OptionRead

LEMMA NameRead ==
    ASSUME ResultInv, SetServerName
    PROVE  ResultInv'
<1> DEFINE n == Read
<1>1. /\ pc = "parse" /\ pc' = "parse" /\ rest # <<>>
      /\ rest' = Tail(rest) /\ argv' = argv /\ log' = log
      /\ Head(rest).name = "server_name"
  BY DEF SetServerName, Given
<1>2. /\ n \in Nat /\ n < Len(argv) /\ argv \in Seq(Option)
      /\ Head(rest) = argv[n + 1]
  BY <1>1, ReadOne DEF ResultInv
<1>3. PICK x, y :
        /\ val' = [val EXCEPT !["server_name"] = x, !["server_name_data"] = y]
        /\ short => short'
        /\ ~short' => x # Null /\ Value # Null /\ y = NameData(Value)
  <2>1. PICK m \in Alloc("set"), d \in Alloc(Value) :
          LET whole == m # Null /\ (Value = "" \/ d # Null)
              new == IF ~whole THEN <<Null, Null>>
                     ELSE <<m, IF Value = "" THEN Null ELSE d>>
          IN  /\ val' = [val EXCEPT !["server_name"] = new[1],
                                    !["server_name_data"] = new[2]]
              /\ Shortage(IF whole THEN {} ELSE {Null})
    BY DEF SetServerName
  <2> DEFINE whole == m # Null /\ (Value = "" \/ d # Null)
  <2>2. CASE whole
    <3>1. /\ val' = [val EXCEPT !["server_name"] = m,
                       !["server_name_data"] = IF Value = "" THEN Null ELSE d]
          /\ short => short'
      BY <2>1, <2>2 DEF Shortage
    <3>2. m # Null /\ (IF Value = "" THEN Null ELSE d) = NameData(Value)
      BY <2>1, <2>2, Zenon DEF Alloc, NameData
    <3>3. "" # Null
      BY Zenon DEF Null
    <3>4. Value # Null
      BY <2>1, <2>2, <3>3, Zenon DEF Alloc
    <3> QED BY <3>1, <3>2, <3>4, Zenon
  <2>3. CASE ~whole
    <3>1. /\ val' = [val EXCEPT !["server_name"] = Null,
                                !["server_name_data"] = Null]
          /\ short'
      BY <2>1, <2>3 DEF Shortage
    <3> QED BY <3>1
  <2> QED BY <2>2, <2>3
<1>4. DOMAIN val = Slots
  BY DEF ResultInv
<1>5. ASSUME ~short' PROVE MadeOf(n + 1, val', log)
  <2>1. /\ x # Null /\ Value # Null /\ y = NameData(Value)
        /\ MadeOf(n, val, log)
    BY <1>1, <1>3, <1>5 DEF ResultInv
  <2>2. /\ val'["server_name"] = x /\ val'["server_name_data"] = y
        /\ \A t \in Slots \ {"server_name", "server_name_data"} :
             val'[t] = val[t]
    BY <1>3, <1>4, SlotNames
  <2>3. /\ "server_name" \notin StringOptions
        /\ "server_name_data" \notin StringOptions
    BY DEF StringOptions
  <2>4. Names(n + 1, val')
    <3> DEFINE v == argv[n + 1].value
    <3>1. Tells(n + 1, "server_name", Null, v) /\ Value = v
      BY <1>1, <1>2, TellsNext DEF Value
    <3>2. v \in Values(n + 1) /\ Named(n + 1, "server_name")
      BY <1>1, <1>2 DEF Values, Named
    <3> HIDE DEF v
    <3> QED BY <2>1, <2>2, <3>1, <3>2 DEF Names
  <2>5. Strings(n + 1, val')
    BY <1>1, <1>2, <2>1, <2>2, <2>3, OthersKept, SlotNames
    DEF MadeOf, Strings
  <2>6. Daemons(n + 1, val') /\ Logs(n + 1, log) /\ Known(n + 1)
    BY <1>1, <1>2, <2>1, <2>2, OthersKept, SlotNames DEF MadeOf
  <2> QED BY <2>4, <2>5, <2>6 DEF MadeOf
<1>6. DOMAIN val' = Slots
  BY <1>3, <1>4
<1> QED BY <1>1, <1>3, <1>5, <1>6, OptionRead

-----------------------------------------------------------------------------
(* The end of the command line, and NULL.                                  *)

LEMMA CountNone == \A v : Count(v) # 0 => v # Null
BY DEF Count

LEMMA ResultInit == Init => ResultInv
<1> SUFFICES ASSUME Init PROVE ResultInv
  OBVIOUS
<1>1. argv \in Seq(Option) /\ rest = argv
  BY ArgvsAssumption DEF Init, Option
<1>2. RestInv
  BY <1>1 DEF RestInv, Read
<1> QED BY <1>1, <1>2 DEF Init, ResultInv

\* Of no option at all the configuration has its defaults.
LEMMA ResultCreate ==
    ASSUME ResultInv, Create
    PROVE  ResultInv'
<1>1. PICK c \in Alloc("set") :
      \E h \in IF c = Null THEN {Null} ELSE Alloc("set") :
      \E a \in IF h = Null THEN {Null} ELSE Alloc("NO_OPTION"),
         d \in IF h = Null THEN {Null} ELSE Alloc("index.html") :
        /\ val' = [val EXCEPT !["config"] = c, !["vhost"] = h,
                              !["daemon_action"] = a, !["default_file"] = d]
        /\ IF Null \in {c, h, a, d} THEN pc' = "failed" ELSE pc' = "parse"
        /\ Shortage({c, h, a, d})
  BY DEF Create
<1>2. PICK h, a, d :
        /\ a \in Alloc("NO_OPTION") /\ d \in Alloc("index.html")
        /\ val' = [val EXCEPT !["config"] = c, !["vhost"] = h,
                              !["daemon_action"] = a, !["default_file"] = d]
        /\ IF Null \in {c, h, a, d} THEN pc' = "failed" ELSE pc' = "parse"
        /\ Shortage({c, h, a, d})
  BY <1>1 DEF Alloc
<1>3. /\ pc = "create" /\ log' = TRUE /\ UNCHANGED <<argv, rest>>
      /\ rest = argv /\ val = [s \in Slots |-> Null]
      /\ argv \in Seq(Option)
  BY DEF Create, ResultInv, RestInv
<1>4. RestInv' /\ Read' = 0 /\ Len(argv) \in Nat
  BY <1>3 DEF ResultInv, RestInv, Read
<1>5. CASE Null \in {c, h, a, d}
  BY <1>2, <1>3, <1>4, <1>5 DEF ResultInv, Shortage
<1>6. CASE Null \notin {c, h, a, d}
  <2>1. pc' = "parse" /\ a = "NO_OPTION" /\ d = "index.html"
    BY <1>2, <1>6 DEF Alloc
  <2>2. /\ val'["daemon_action"] = "NO_OPTION"
        /\ val'["default_file"] = "index.html"
        /\ \A s \in StringOptions \ {"default_file"} : val'[s] = Null
        /\ val'["server_name"] = Null /\ val'["server_name_data"] = Null
    BY <1>2, <1>3, <2>1, SlotNames DEF StringOptions
  <2>3. \A name, v : Tells(0, name, v, v)'
    BY DEF Tells
  <2>4. /\ \A s \in StringOptions : Tells(0, s, Default(s), val[s])'
        /\ Tells(0, "daemon", "NO_OPTION", val["daemon_action"])'
        /\ \A name : ~Named(0, name)'
    BY <2>2 DEF Tells, Default, Named
  <2>5. Strings(0, val)' /\ Daemons(0, val)'
    BY <2>4 DEF Strings, Holds, Daemons
  <2>6. Logs(0, log)'
    BY <1>3, <2>3 DEF Logs
  <2>7. Names(0, val)'
    <3>1. Tells(0, "server_name", Null, Null)'
      BY <2>3
    <3> QED BY <2>2, <2>4, <3>1 DEF Names
  <2>8. Known(0)'
    BY DEF Known
  <2>9. MadeOf(Read, val, log)'
    BY <1>4, <2>5, <2>6, <2>7, <2>8
    DEF MadeOf, Strings, Holds, Daemons, Logs, Names, Known
  <2> QED BY <1>2, <1>3, <1>4, <2>1, <2>9 DEF ResultInv
<1> QED BY <1>5, <1>6

\* An option that is refused stands somewhere on the command line.
LEMMA ResultRefuse ==
    ASSUME ResultInv, Refuse
    PROVE  ResultInv'
<1>1. /\ pc = "parse" /\ pc' = "failed" /\ rest # <<>>
      /\ rest' = Tail(rest) /\ UNCHANGED <<argv, val, log, short>>
      /\ \/ Head(rest).name = "?"
         \/ Head(rest).name = "daemon" /\ Head(rest).value \notin Actions
  BY DEF Refuse, Given, Value
<1>2. /\ RestInv' /\ Read \in Nat /\ Read < Len(argv)
      /\ Head(rest) = argv[Read + 1] /\ argv \in Seq(Option)
  BY <1>1, ReadOne DEF ResultInv
<1>3. Read + 1 \in DOMAIN argv
  BY <1>2
<1>4. ~Accepted
  BY <1>1, <1>2, <1>3 DEF Accepted, At
<1>5. Accepted' <=> Accepted
  BY <1>1 DEF Accepted, At
<1> QED BY <1>1, <1>2, <1>4, <1>5 DEF ResultInv

\* All has been read: what is known of the first options holds of all.
LEMMA AllRead ==
    ASSUME ResultInv, pc = "parse" \/ pc = "returned", rest = <<>>, ~short
    PROVE  Read = Len(argv) /\ MadeOf(Len(argv), val, log)
           /\ argv \in Seq(Option) /\ DOMAIN argv = 1 .. Len(argv)
           /\ Len(argv) \in Nat
<1>1. argv \in Seq(Option)
  BY DEF ResultInv, RestInv
<1>2. Read = Len(argv)
  BY <1>1 DEF Read
<1>3. MadeOf(Read, val, log)
  BY DEF ResultInv
<1> QED BY <1>1, <1>2, <1>3

LEMMA MandatoryGiven ==
    ASSUME ResultInv, pc = "parse" \/ pc = "returned", rest = <<>>, ~short
    PROVE  CheckMandatory <=> Accepted
<1>1. /\ MadeOf(Len(argv), val, log) /\ DOMAIN argv = 1 .. Len(argv)
  BY AllRead
<1>2. ASSUME NEW o \in Mandatory
      PROVE  val[o] # Null <=> At(o) # {}
  <2>1. Named(Len(argv), o) <=> At(o) # {}
    BY <1>1 DEF Named, At
  <2>2. CASE o = "server_name"
    BY <1>1, <2>1, <2>2 DEF MadeOf, Names
  <2>3. CASE o # "server_name"
    <3>1. o \in StringOptions /\ Default(o) = Null
      BY <1>2, <2>3 DEF Mandatory, StringOptions, Default
    <3> QED BY <1>1, <2>1, <3>1 DEF MadeOf, Strings, Holds, Tells, Named
  <2> QED BY <2>2, <2>3
<1>3. At("?") = {} /\ \A i \in At("daemon") : argv[i].value \in Actions
  BY <1>1 DEF MadeOf, Known, At
<1> QED BY <1>2, <1>3 DEF CheckMandatory, Accepted

LEMMA ResultFinish ==
    ASSUME ResultInv, Finish
    PROVE  ResultInv'
<1>1. /\ pc = "parse" /\ rest = <<>>
      /\ UNCHANGED <<argv, rest, val, log, short>>
      /\ \/ CheckMandatory /\ pc' = "returned"
         \/ ~CheckMandatory /\ pc' = "failed"
  BY DEF Finish
<1>2. ~short => (CheckMandatory <=> Accepted)
  BY <1>1, MandatoryGiven
<1>3. Accepted' <=> Accepted
  BY <1>1 DEF Accepted, At
<1>4. CheckMandatory' <=> CheckMandatory
  BY <1>1 DEF CheckMandatory
<1>5. RestInv'
  BY <1>1 DEF ResultInv, RestInv, Read
<1>6. ~short => MadeOf(Read, val, log)'
  <2>1. Read' = Read
    BY <1>1 DEF Read
  <2> QED BY <1>1, <2>1, MadeOfNext DEF ResultInv
<1> QED BY <1>1, <1>2, <1>3, <1>4, <1>5, <1>6 DEF ResultInv

LEMMA ResultNext == ResultInv /\ [Next]_vars => ResultInv'
<1> SUFFICES ASSUME ResultInv, [Next]_vars PROVE ResultInv'
  OBVIOUS
<1>1. CASE Destroy
  <2>1. /\ pc' = "destroyed" /\ UNCHANGED <<argv, rest, val, log, short>>
    BY <1>1 DEF Destroy
  <2> QED BY <2>1 DEF ResultInv, RestInv, Read
<1>2. CASE UNCHANGED vars
  <2>1. UNCHANGED <<pc, argv, rest, val, log, short>> /\ Read' = Read
    BY <1>2 DEF vars, Read
  <2>2. MadeOf(Read, val, log) => MadeOf(Read, val, log)'
    BY <2>1, MadeOfNext
  <2>3. RestInv' /\ (CheckMandatory' <=> CheckMandatory)
        /\ (Accepted' <=> Accepted)
    BY <2>1 DEF ResultInv, RestInv, CheckMandatory, Accepted, At
  <2> QED BY <2>1, <2>2, <2>3 DEF ResultInv
<1> QED
  BY <1>1, <1>2, ResultCreate, StringRead, LogRead, DaemonRead, NameRead,
     ResultRefuse, ResultFinish DEF Next

LEMMA ResultInvariance == Spec => []ResultInv
BY ResultInit, ResultNext, PTL DEF Spec

\* Unless an allocation fails, a command line is accepted exactly when it is
\* as it should be, whatever its length and order.
THEOREM AcceptsExactly == Spec => []AcceptedIff
<1>1. ASSUME ResultInv PROVE AcceptedIff
  <2>1. pc = "returned" /\ ~short => Accepted
    BY <1>1, MandatoryGiven DEF ResultInv
  <2> QED BY <1>1, <2>1 DEF ResultInv, AcceptedIff
<1> QED BY <1>1, ResultInvariance, PTL

LEMMA TellsLast ==
    ASSUME argv \in Seq(Option), NEW name, NEW d, NEW v,
           Tells(Len(argv), name, d, v)
    PROVE  v = LastOr(name, d) /\ (At(name) # {} => v = LastGiven(name))
<1>1. DOMAIN argv = 1 .. Len(argv) /\ Len(argv) \in Nat
  OBVIOUS
<1>2. CASE v = d /\ \A i \in 1 .. Len(argv) : argv[i].name # name
  BY <1>1, <1>2 DEF LastOr, At
<1>3. ASSUME NEW i \in 1 .. Len(argv),
             argv[i].name = name, argv[i].value = v,
             \A j \in i + 1 .. Len(argv) : argv[j].name # name
      PROVE  v = LastOr(name, d) /\ v = LastGiven(name)
  <2>1. i \in At(name) /\ \A j \in At(name) : j <= i
    BY <1>1, <1>3 DEF At
  <2>2. At(name) \subseteq Nat
    BY <1>1 DEF At
  <2> DEFINE k == CHOOSE k \in At(name) : \A j \in At(name) : j <= k
  <2>3. k \in At(name) /\ \A j \in At(name) : j <= k
    BY <2>1
  <2> HIDE DEF k
  <2>4. k = i
    BY <2>1, <2>2, <2>3
  <2>5. LastGiven(name) = v
    BY <1>3, <2>4 DEF LastGiven, k
  <2> QED BY <2>1, <2>5 DEF LastOr
<1> QED BY <1>2, <1>3 DEF Tells

\* Unless an allocation fails, the last option of a name wins, and what was
\* not given has its default.
THEOREM LastOptionWins == Spec => []LastWins
<1>1. ASSUME ResultInv PROVE LastWins
  <2> SUFFICES ASSUME pc = "returned", ~short
               PROVE  /\ \A s \in StringOptions :
                           val[s] = LastOr(s, Default(s))
                      /\ val["daemon_action"] = LastOr("daemon", "NO_OPTION")
                      /\ val["server_name_data"]
                           = NameData(LastGiven("server_name"))
                      /\ log = (LastOr("log", "true") = "true")
    BY DEF LastWins, Default, StringOptions
  <2>1. MadeOf(Len(argv), val, log) /\ argv \in Seq(Option)
    BY <1>1, AllRead DEF ResultInv
  <2>2. \A s \in StringOptions : val[s] = LastOr(s, Default(s))
    BY <2>1, TellsLast DEF MadeOf, Strings, Holds
  <2>3. val["daemon_action"] = LastOr("daemon", "NO_OPTION")
    BY <2>1, TellsLast DEF MadeOf, Daemons
  <2>4. At("server_name") # {}
    BY <1>1, MandatoryGiven DEF ResultInv, Accepted, Mandatory
  <2>5. val["server_name_data"] = NameData(LastGiven("server_name"))
    <3>1. Named(Len(argv), "server_name")
      BY <2>1, <2>4 DEF At, Named
    <3>2. PICK v : /\ Tells(Len(argv), "server_name", Null, v)
                   /\ val["server_name_data"] = NameData(v)
      BY <2>1, <3>1 DEF MadeOf, Names
    <3>3. v = LastGiven("server_name")
      BY <2>1, <2>4, <3>2, TellsLast
    <3> QED BY <3>2, <3>3
  <2>6. log = (LastOr("log", "true") = "true")
    <3>1. PICK v : Tells(Len(argv), "log", "true", v) /\ log = (v = "true")
      BY <2>1 DEF MadeOf, Logs
    <3>2. v = LastOr("log", "true")
      BY <2>1, <3>1, TellsLast
    <3> QED BY <3>1, <3>2, Zenon
  <2> QED BY <2>2, <2>3, <2>5, <2>6
<1> QED BY <1>1, ResultInvariance, PTL

-----------------------------------------------------------------------------
(* What config_reader.sh makes of a line.                                  *)

LEMMA SubOne ==
    ASSUME NEW S, NEW s \in Seq(S), NEW i \in 1 .. Len(s)
    PROVE  SubSeq(s, i, i) = <<s[i]>>
<1> DEFINE t == SubSeq(s, i, i)
           u == <<s[i]>>
<1>1. t \in Seq(S) /\ Len(t) = 1 /\ t[1] = s[i]
  OBVIOUS
<1>2. u \in Seq(S) /\ Len(u) = 1 /\ u[1] = s[i]
  OBVIOUS
<1> HIDE DEF t, u
<1>3. t = u
  BY <1>1, <1>2, SeqEqual
<1> QED BY <1>3 DEF t, u

LEMMA SubTwo ==
    ASSUME NEW S, NEW s \in Seq(S), NEW i \in 1 .. Len(s), i + 1 <= Len(s)
    PROVE  SubSeq(s, i, i + 1) = <<s[i], s[i + 1]>>
<1> DEFINE t == SubSeq(s, i, i + 1)
           u == <<s[i], s[i + 1]>>
<1>0. s[i] \in S /\ s[i + 1] \in S
  OBVIOUS
<1>1. t \in Seq(S) /\ Len(t) = 2 /\ t[1] = s[i] /\ t[2] = s[i + 1]
  OBVIOUS
<1>2. u \in Seq(S) /\ Len(u) = 2 /\ u[1] = s[i] /\ u[2] = s[i + 1]
  BY <1>0
<1> HIDE DEF t, u
<1>4. \A q \in 1 .. 2 : q = 1 \/ q = 2
  OBVIOUS
<1>3. t = u
  BY <1>1, <1>2, <1>4, SeqEqual
<1> QED BY <1>3 DEF t, u

LEMMA SubThree ==
    ASSUME NEW S, NEW s \in Seq(S), NEW i \in 1 .. Len(s), i + 2 <= Len(s)
    PROVE  SubSeq(s, i, i + 2) = <<s[i], s[i + 1], s[i + 2]>>
<1> DEFINE t == SubSeq(s, i, i + 2)
           u == <<s[i], s[i + 1], s[i + 2]>>
<1>0. s[i] \in S /\ s[i + 1] \in S /\ s[i + 2] \in S
  OBVIOUS
<1>1. /\ t \in Seq(S) /\ Len(t) = 3
      /\ t[1] = s[i] /\ t[2] = s[i + 1] /\ t[3] = s[i + 2]
  OBVIOUS
<1>2. /\ u \in Seq(S) /\ Len(u) = 3
      /\ u[1] = s[i] /\ u[2] = s[i + 1] /\ u[3] = s[i + 2]
  BY <1>0
<1> HIDE DEF t, u
<1>4. \A q \in 1 .. 3 : q = 1 \/ q = 2 \/ q = 3
  OBVIOUS
<1>3. t = u
  BY <1>1, <1>2, <1>4, SeqEqual
<1> QED BY <1>3 DEF t, u

\* A match that is better than all others is the one.
LEMMA BestIs ==
    ASSUME NEW line, DOMAIN line \subseteq Nat,
           NEW m \in Reader!Matches(line),
           \A n \in Reader!Matches(line) : Reader!Better(m, n)
    PROVE  Reader!Matches(line) # {} /\ Reader!Match(line) = m
<1> DEFINE M == Reader!Match(line)
<1>1. /\ M \in Reader!Matches(line)
      /\ \A n \in Reader!Matches(line) : Reader!Better(M, n)
  BY DEF Reader!Match
<1> HIDE DEF M
<1>2. Reader!Better(m, M) /\ Reader!Better(M, m)
  BY <1>1
<1>3. /\ m \in (DOMAIN line) \X (DOMAIN line) \X (DOMAIN line)
      /\ M \in (DOMAIN line) \X (DOMAIN line) \X (DOMAIN line)
  BY <1>1 DEF Reader!Matches
<1>4. m[1] = M[1] /\ m[2] = M[2] /\ m[3] = M[3]
  BY <1>2, <1>3 DEF Reader!Better
<1>5. M = m
  BY <1>3, <1>4
<1> QED BY <1>5 DEF M

\* What a line with that match adds.
Taken(line, i, k, v, j) ==
    <<Reader!Option(SubSeq(line, i, k), SubSeq(line, v, j))>>

\* One equal sign, and how far key and value may reach around it.
OneEqual(line, e) ==
    line[e] = Reader!Equal
    /\ \A n \in DOMAIN line : line[n] = Reader!Equal => n = e
Around(line, e, k, v) ==
    Reader!KeyEnd(line, e) = k /\ Reader!ValueStart(line, e) = v

\* The key is the whole word before the equal sign, the value the whole one
\* behind it.
LEMMA OneMatch ==
    ASSUME NEW line, NEW L \in Nat, DOMAIN line = 1 .. L, L > 1,
           NEW i \in 1 .. L, NEW e \in 1 .. L, NEW j \in 1 .. L,
           NEW k \in Int, NEW v \in Int, Around(line, e, k, v),
           OneEqual(line, e),
           Reader!Group(line, i, k), i = 1 \/ line[i - 1] = Reader!Blank,
           Reader!Group(line, v, j), j = L \/ line[j + 1] = Reader!Blank
    PROVE  Reader!OptionsOf(line) = Taken(line, i, k, v, j)
<1> DEFINE m == <<i, e, j>>
           Triples == (1 .. L) \X (1 .. L) \X (1 .. L)
<1>0. Reader!KeyEnd(line, e) = k /\ Reader!ValueStart(line, e) = v
  BY DEF Around
<1>1. m \in Reader!Matches(line)
  BY <1>0 DEF Reader!Matches, OneEqual
<1>2. i <= k /\ v <= j
  BY DEF Reader!Group
<1>3. ASSUME NEW n \in Reader!Matches(line)
      PROVE  Reader!Better(m, n)
  <2>1. /\ n \in Triples /\ n[2] = e
        /\ Reader!Group(line, n[1], k) /\ Reader!Group(line, v, n[3])
    BY <1>0 DEF Reader!Matches, OneEqual
  <2>2. PICK x \in 1 .. L, y \in 1 .. L : n = <<x, e, y>>
    BY <2>1
  <2>3. \A q \in x .. k : line[q] # Reader!Blank
    BY <2>1, <2>2 DEF Reader!Group
  <2>4. \A q \in v .. y : line[q] # Reader!Blank
    BY <2>1, <2>2 DEF Reader!Group
  <2>5. x >= i
    <3>1. CASE i = 1
      BY <3>1
    <3>2. CASE line[i - 1] = Reader!Blank
      <4>1. ~(i - 1 \in x .. k)
        BY <2>3, <3>2
      <4> QED BY <1>2, <4>1
    <3> QED BY <3>1, <3>2
  <2>6. y <= j
    <3>1. CASE j = L
      BY <3>1
    <3>2. CASE line[j + 1] = Reader!Blank
      <4>1. ~(j + 1 \in v .. y)
        BY <2>4, <3>2
      <4> QED BY <1>2, <4>1
    <3> QED BY <3>1, <3>2
  <2>7. /\ n[1] = x /\ n[2] = e /\ n[3] = y
        /\ m[1] = i /\ m[2] = e /\ m[3] = j
    BY <2>2
  <2> HIDE DEF m
  <2> QED BY <2>5, <2>6, <2>7 DEF Reader!Better
<1>4. m[1] = i /\ m[2] = e /\ m[3] = j
  OBVIOUS
<1> HIDE DEF m
<1>5. DOMAIN line \subseteq Nat
  OBVIOUS
<1>6. \A n \in Reader!Matches(line) : Reader!Better(m, n)
  BY <1>3
<1>7. Reader!Matches(line) # {} /\ Reader!Match(line) = m
  BY <1>1, <1>5, <1>6, BestIs
<1>8. line \notin Reader!Headings
  <2>1. \A w : DOMAIN <<w>> = 1 .. 1
    OBVIOUS
  <2>2. 2 \in 1 .. L /\ 2 \notin 1 .. 1
    OBVIOUS
  <2> QED BY <2>1, <2>2 DEF Reader!Headings
<1> QED BY <1>0, <1>4, <1>7, <1>8 DEF Reader!OptionsOf, Taken

\* No equal sign, or none with a word on either side.
LEMMA NoMatch ==
    ASSUME NEW line, NEW L \in Nat, DOMAIN line = 1 .. L,
           \/ \A n \in 1 .. L : line[n] # Reader!Equal
           \/ \E e \in 1 .. L, k \in Int, v \in Int :
                /\ OneEqual(line, e) /\ Around(line, e, k, v)
                /\ \/ k < 1 \/ v > L
                   \/ k >= 1 /\ line[k] = Reader!Blank
                   \/ v <= L /\ line[v] = Reader!Blank
    PROVE  Reader!OptionsOf(line) = <<>>
<1>1. CASE \A n \in 1 .. L : line[n] # Reader!Equal
  <2>1. Reader!Matches(line) = {}
    BY <1>1 DEF Reader!Matches
  <2> QED BY <2>1 DEF Reader!OptionsOf
<1>2. ASSUME NEW e \in 1 .. L, NEW k \in Int, NEW v \in Int,
             OneEqual(line, e), Around(line, e, k, v),
             \/ k < 1 \/ v > L
             \/ k >= 1 /\ line[k] = Reader!Blank
             \/ v <= L /\ line[v] = Reader!Blank
      PROVE  Reader!OptionsOf(line) = <<>>
  <2>1. SUFFICES ASSUME NEW n \in Reader!Matches(line) PROVE FALSE
    BY DEF Reader!OptionsOf
  <2>2. PICK x \in 1 .. L, y \in 1 .. L :
          Reader!Group(line, x, k) /\ Reader!Group(line, v, y)
    BY <1>2 DEF Reader!Matches, OneEqual, Around
  <2>3. /\ x <= k /\ v <= y
        /\ line[k] # Reader!Blank /\ line[v] # Reader!Blank
    BY <2>2 DEF Reader!Group
  <2> QED BY <1>2, <2>3
<1> QED BY <1>1, <1>2

-----------------------------------------------------------------------------
(* What getopt_long makes of a key and a value.                            *)

LEMMA NatInductionOn ==
    ASSUME NEW D, 0 \in D, \A n \in Nat : n \in D => n + 1 \in D
    PROVE  \A n \in Nat : n \in D
<1> DEFINE R == {p \in Nat \X Nat : p[1] < p[2]}
           B == Nat \ D
<1>1. IsWellFoundedOn(R, Nat)
  <2>1. R = OpToRel(<, Nat)
    BY DEF OpToRel
  <2> QED BY <2>1, NatLessThanWellFounded
<1> HIDE DEF R
<1>2. SUFFICES ASSUME B # {} PROVE FALSE
  OBVIOUS
<1>3. PICK m \in B : \A j \in B : ~(<<j, m>> \in R)
  <2>1. B \subseteq Nat
    OBVIOUS
  <2> HIDE DEF B
  <2> QED BY <1>1, <1>2, <2>1, WFMin
<1>4. m - 1 \in Nat /\ m \notin D
  BY <1>3
<1>5. m - 1 \in D
  <2>1. <<m - 1, m>> \in R
    BY <1>4 DEF R
  <2>2. m - 1 \notin B
    BY <1>3, <2>1
  <2> QED BY <1>4, <2>2
<1> QED BY <1>4, <1>5

\* The recursion of FlattenSeq has a solution.
Flattens(g, s, n) ==
    g = [i \in 1 .. n |-> IF i = 1 THEN s[i] ELSE g[i - 1] \o s[i]]

LEMMA FlattenExists ==
    ASSUME NEW s
    PROVE  \A n \in Nat : \E g : Flattens(g, s, n)
<1> DEFINE D == {n \in Nat : \E g : Flattens(g, s, n)}
<1>1. 0 \in D
  <2>1. Flattens(<<>>, s, 0)
    BY DEF Flattens
  <2> QED BY <2>1
<1>2. ASSUME NEW n \in Nat, n \in D
      PROVE  n + 1 \in D
  <2>1. PICK g : Flattens(g, s, n)
    BY <1>2
  <2> DEFINE last == IF n + 1 = 1 THEN s[n + 1] ELSE g[n] \o s[n + 1]
             h == [i \in 1 .. n + 1 |-> IF i = n + 1 THEN last ELSE g[i]]
  <2>2. \A i \in 1 .. n : g[i] = IF i = 1 THEN s[i] ELSE g[i - 1] \o s[i]
    BY <2>1 DEF Flattens
  <2>3. \A i \in 1 .. n + 1 :
          h[i] = IF i = 1 THEN s[i] ELSE h[i - 1] \o s[i]
    <3> SUFFICES ASSUME NEW i \in 1 .. n + 1
                 PROVE  h[i] = IF i = 1 THEN s[i] ELSE h[i - 1] \o s[i]
      OBVIOUS
    <3>1. CASE i = n + 1
      <4>1. CASE i = 1
        BY <3>1, <4>1
      <4>2. CASE i # 1
        <5>1. n \in 1 .. n + 1 /\ n # n + 1 /\ i - 1 = n
          BY <3>1, <4>2
        <5>2. h[n] = g[n]
          BY <5>1
        <5> QED BY <3>1, <4>2, <5>1, <5>2
      <4> QED BY <4>1, <4>2
    <3>2. CASE i # n + 1
      <4>1. i \in 1 .. n /\ h[i] = g[i]
        BY <3>2
      <4>2. CASE i = 1
        BY <2>2, <4>1, <4>2
      <4>3. CASE i # 1
        <5>1. i - 1 \in 1 .. n + 1 /\ i - 1 # n + 1
          BY <4>1, <4>3
        <5>2. h[i - 1] = g[i - 1]
          BY <5>1
        <5>3. g[i] = g[i - 1] \o s[i]
          BY <2>2, <4>1, <4>3
        <5> HIDE DEF h
        <5> QED BY <4>1, <4>3, <5>2, <5>3
      <4> QED BY <4>2, <4>3
    <3> QED BY <3>1, <3>2
  <2>4. h = [i \in 1 .. n + 1 |-> h[i]]
    OBVIOUS
  <2> HIDE DEF h
  <2>5. Flattens(h, s, n + 1)
    BY <2>3, <2>4 DEF Flattens
  <2> QED BY <2>5
<1> HIDE DEF D
<1>3. \A n \in Nat : n \in D
  BY <1>1, <1>2, NatInductionOn
<1> QED BY <1>3 DEF D

LEMMA FlattenIs ==
    ASSUME NEW s, NEW n \in Nat \ {0}, Len(s) = n
    PROVE  \E g : /\ Reader!FlattenSeq(s) = g[n] /\ g[1] = s[1]
                 /\ \A i \in 2 .. n : g[i] = g[i - 1] \o s[i]
<1> DEFINE g == CHOOSE g : Flattens(g, s, n)
<1>1. Flattens(g, s, n)
  BY FlattenExists
<1>2. Reader!FlattenSeq(s) = g[n]
  BY DEF Reader!FlattenSeq, Flattens
<1> HIDE DEF g
<1>3. \A i \in 1 .. n : g[i] = IF i = 1 THEN s[i] ELSE g[i - 1] \o s[i]
  BY <1>1 DEF Flattens
<1>4. g[1] = s[1]
  BY <1>3
<1>5. \A i \in 2 .. n : i \in 1 .. n /\ i # 1
  OBVIOUS
<1>6. \A i \in 2 .. n : g[i] = g[i - 1] \o s[i]
  BY <1>3, <1>5
<1> QED BY <1>2, <1>4, <1>6

LEMMA TextOfOne == ASSUME NEW v PROVE Reader!Text(<<v>>) = v
<1>1. PICK g : Reader!FlattenSeq(<<v>>) = g[1] /\ g[1] = v
  <2>1. Len(<<v>>) = 1 /\ <<v>>[1] = v /\ 1 \in Nat \ {0}
    OBVIOUS
  <2> QED BY <2>1, FlattenIs
<1>2. <<v>> # <<>>
  OBVIOUS
<1> QED BY <1>1, <1>2 DEF Reader!Text

Joined(u, v, w) == u \o v \o w

LEMMA TextOfThree ==
    ASSUME NEW u, NEW v, NEW w
    PROVE  Reader!Text(<<u, v, w>>) = Joined(u, v, w)
<1> DEFINE s == <<u, v, w>>
<1>1. Len(s) = 3 /\ s[1] = u /\ s[2] = v /\ s[3] = w /\ s # <<>>
  OBVIOUS
<1> HIDE DEF s
<1>2. PICK g : /\ Reader!FlattenSeq(s) = g[3] /\ g[1] = s[1]
               /\ \A i \in 2 .. 3 : g[i] = g[i - 1] \o s[i]
  <2>1. 3 \in Nat \ {0}
    OBVIOUS
  <2> QED BY <1>1, <2>1, FlattenIs
<1>3. g[2] = g[1] \o s[2] /\ g[3] = g[2] \o s[3]
  <2>1. 2 \in 2 .. 3 /\ 3 \in 2 .. 3 /\ 2 - 1 = 1 /\ 3 - 1 = 2
    OBVIOUS
  <2> QED BY <1>2, <2>1
<1> QED BY <1>1, <1>2, <1>3 DEF Reader!Text, Joined, s

\* A word is neither a blank nor an equal sign.
\* (The provers do not know that a literal is a string.)
Literals ==
    {"log", "true", "false", "pid_file", "server_name", "port", "root_dir",
      "ip", "daemon", "stop", "other", "unknown", "a", "b", "#", "[global]",
      "[[vhosts]]"}
Word == (STRING \cup Literals) \ {Reader!Blank, Reader!Equal}

LEMMA TokensDiffer ==
    /\ Reader!Blank # Reader!Equal
    /\ "#" # Reader!Blank /\ "#" # Reader!Equal
    /\ \A w \in Word : w # Reader!Blank /\ w # Reader!Equal
BY DEF Reader!Blank, Reader!Equal, Word

LEMMA NoEqualIn ==
    ASSUME NEW key, \A i \in 1 .. Len(key) : key[i] # Reader!Equal
    PROVE  Reader!SelectInSeq(key, LAMBDA t : t = Reader!Equal) = 0
BY DEF Reader!SelectInSeq

LEMMA EqualAt ==
    ASSUME NEW key, NEW e \in Nat, e \in 1 .. Len(key), Len(key) \in Nat,
           \A i \in 1 .. Len(key) : key[i] = Reader!Equal <=> i = e
    PROVE  Reader!SelectInSeq(key, LAMBDA t : t = Reader!Equal) = e
<1>1. {i \in 1 .. Len(key) : key[i] = Reader!Equal} = {e}
  OBVIOUS
<1>2. Reader!Min({e}) = e
  BY DEF Reader!Min
<1> QED BY <1>1, <1>2 DEF Reader!SelectInSeq

\* A word, with its value or with a text for it.
LEMMA OptionOfWord ==
    ASSUME NEW k, k # Reader!Equal, NEW value
    PROVE  Reader!Option(<<k>>, value) = Long(k, Reader!Text(value))
<1>1. Reader!SelectInSeq(<<k>>, LAMBDA t : t = Reader!Equal) = 0
  <2>1. \A i \in 1 .. Len(<<k>>) : <<k>>[i] # Reader!Equal
    OBVIOUS
  <2> QED BY <2>1, NoEqualIn
<1>2. Len(<<k>>) = 1 /\ <<k>>[1] = k
  OBVIOUS
<1> QED BY <1>1, <1>2 DEF Reader!Option, Long, Opt

\* Two words are no option.
LEMMA OptionOfTwo ==
    ASSUME NEW u, NEW k, u # Reader!Equal, k # Reader!Equal, NEW value
    PROVE  Reader!Option(<<u, k>>, value) = Opt("?", "")
<1>1. Reader!SelectInSeq(<<u, k>>, LAMBDA t : t = Reader!Equal) = 0
  <2>1. \A i \in 1 .. Len(<<u, k>>) : <<u, k>>[i] # Reader!Equal
    <3>1. \A i \in 1 .. 2 : i = 1 \/ i = 2
      OBVIOUS
    <3>2. Len(<<u, k>>) = 2 /\ <<u, k>>[1] = u /\ <<u, k>>[2] = k
      OBVIOUS
    <3> QED BY <3>1, <3>2
  <2> QED BY <2>1, NoEqualIn
<1>2. Len(<<u, k>>) # 1
  OBVIOUS
<1> QED BY <1>1, <1>2 DEF Reader!Option, Opt

\* The value is in the word of the key.
LEMMA OptionWithValue ==
    ASSUME NEW k \in Word, NEW v \in Word, NEW value
    PROVE  Reader!Option(<<k, Reader!Equal, v>>, value) = Long(k, v)
<1> DEFINE key == <<k, Reader!Equal, v>>
           S == {k, Reader!Equal, v}
<1>1. /\ key \in Seq(S) /\ Len(key) = 3
      /\ key[1] = k /\ key[2] = Reader!Equal /\ key[3] = v
  OBVIOUS
<1> HIDE DEF key, S
<1>3. \A i \in 1 .. 3 : i = 1 \/ i = 2 \/ i = 3
  OBVIOUS
<1>4. Reader!SelectInSeq(key, LAMBDA t : t = Reader!Equal) = 2
  <2>1. \A i \in 1 .. Len(key) : key[i] = Reader!Equal <=> i = 2
    BY <1>1, <1>3, TokensDiffer
  <2>2. 2 \in Nat /\ 2 \in 1 .. Len(key) /\ Len(key) \in Nat
    BY <1>1
  <2> QED BY <2>1, <2>2, EqualAt
<1>5. SubSeq(key, 1, 2 - 1) = <<k>> /\ SubSeq(key, 2 + 1, Len(key)) = <<v>>
  <2>1. SubSeq(key, 1, 1) = <<k>> /\ SubSeq(key, 3, 3) = <<v>>
    <3>1. 1 \in 1 .. Len(key) /\ 3 \in 1 .. Len(key)
      BY <1>1
    <3> QED BY <1>1, <3>1, SubOne
  <2>2. 2 - 1 = 1 /\ 2 + 1 = 3
    OBVIOUS
  <2> QED BY <1>1, <2>1, <2>2
<1>6. Len(<<k>>) = 1 /\ <<k>>[1] = k /\ 2 # 0
  OBVIOUS
<1>7. Reader!Option(key, value) = Long(k, Reader!Text(<<v>>))
  BY <1>4, <1>5, <1>6, ZenonT(30) DEF Reader!Option, Long, Opt
<1> QED BY <1>7, TextOfOne DEF key

-----------------------------------------------------------------------------
(* The lines of LinesOf.                                                   *)

\* The key is the word at i and the value the one at j.
LEMMA WordsRead ==
    ASSUME NEW S, NEW line \in Seq(S), Len(line) > 1,
           NEW i \in 1 .. Len(line), NEW e \in 1 .. Len(line),
           NEW j \in 1 .. Len(line),
           OneEqual(line, e), Around(line, e, i, j),
           line[i] \in Word, line[j] \in Word,
           i = 1 \/ line[i - 1] = Reader!Blank,
           j = Len(line) \/ line[j + 1] = Reader!Blank
    PROVE  Reader!OptionsOf(line) = <<Long(line[i], line[j])>>
<1>1. Reader!Group(line, i, i) /\ Reader!Group(line, j, j)
  BY TokensDiffer DEF Reader!Group
<1>2. /\ Len(line) \in Nat /\ DOMAIN line = 1 .. Len(line)
      /\ i \in Int /\ j \in Int
  OBVIOUS
<1>3. Reader!OptionsOf(line) = Taken(line, i, i, j, j)
  BY <1>1, <1>2, OneMatch
<1>4. SubSeq(line, i, i) = <<line[i]>> /\ SubSeq(line, j, j) = <<line[j]>>
  BY SubOne
<1>5. Reader!Option(<<line[i]>>, <<line[j]>>) = Long(line[i], line[j])
  <2>1. line[i] # Reader!Equal
    BY TokensDiffer
  <2> QED BY <2>1, OptionOfWord, TextOfOne
<1> QED BY <1>3, <1>4, <1>5 DEF Taken

LEMMA SpacedRead ==
    ASSUME NEW k \in Word, NEW v \in Word
    PROVE  Reader!OptionsOf(<<k, Blank, Equal, Blank, v>>)
             = <<Long(k, v)>>
<1> DEFINE s == <<k, Blank, Equal, Blank, v>>
           S == {k, Blank, Equal, v}
<1>1. /\ s \in Seq(S) /\ Len(s) = 5 /\ DOMAIN s = 1 .. 5
      /\ s[1] = k /\ s[2] = Blank /\ s[3] = Equal /\ s[4] = Blank
      /\ s[5] = v
  OBVIOUS
<1> HIDE DEF s, S
<1>2. \A n \in 1 .. 5 : n = 1 \/ n = 2 \/ n = 3 \/ n = 4 \/ n = 5
  OBVIOUS
<1>3. Around(s, 3, 1, 5) /\ OneEqual(s, 3)
  BY <1>1, <1>2, TokensDiffer
  DEF Around, OneEqual, Reader!KeyEnd, Reader!ValueStart, Blank, Equal
<1>4. /\ 1 \in 1 .. Len(s) /\ 3 \in 1 .. Len(s) /\ 5 \in 1 .. Len(s)
      /\ Len(s) > 1 /\ s[1] \in Word /\ s[5] \in Word
  BY <1>1
<1>5. 1 = 1
  OBVIOUS
<1>6. 5 = Len(s)
  BY <1>1
<1>7. Reader!OptionsOf(s) = <<Long(s[1], s[5])>>
  BY <1>1, <1>3, <1>4, <1>5, <1>6, WordsRead
<1> QED BY <1>1, <1>7 DEF s

LEMMA TightRead ==
    ASSUME NEW k \in Word, NEW v \in Word
    PROVE  Reader!OptionsOf(<<k, Equal, v>>)
             = <<Long(k, v)>>
<1> DEFINE s == <<k, Equal, v>>
           S == {k, Equal, v}
<1>1. /\ s \in Seq(S) /\ Len(s) = 3 /\ DOMAIN s = 1 .. 3
      /\ s[1] = k /\ s[2] = Equal /\ s[3] = v
  OBVIOUS
<1> HIDE DEF s, S
<1>2. \A n \in 1 .. 3 : n = 1 \/ n = 2 \/ n = 3
  OBVIOUS
<1>3. Around(s, 2, 1, 3) /\ OneEqual(s, 2)
  BY <1>1, <1>2, TokensDiffer
  DEF Around, OneEqual, Reader!KeyEnd, Reader!ValueStart, Blank, Equal
<1>4. /\ 1 \in 1 .. Len(s) /\ 2 \in 1 .. Len(s) /\ 3 \in 1 .. Len(s)
      /\ Len(s) > 1 /\ s[1] \in Word /\ s[3] \in Word
  BY <1>1
<1>5. 1 = 1
  OBVIOUS
<1>6. 3 = Len(s)
  BY <1>1
<1>7. Reader!OptionsOf(s) = <<Long(s[1], s[3])>>
  BY <1>1, <1>3, <1>4, <1>5, <1>6, WordsRead
<1> QED BY <1>1, <1>7 DEF s

LEMMA IndentedRead ==
    ASSUME NEW k \in Word, NEW v \in Word
    PROVE  Reader!OptionsOf(<<Blank, k, Blank, Equal, Blank, v>>)
             = <<Long(k, v)>>
<1> DEFINE s == <<Blank, k, Blank, Equal, Blank, v>>
           S == {Blank, k, Equal, v}
<1>1. /\ s \in Seq(S) /\ Len(s) = 6 /\ DOMAIN s = 1 .. 6
      /\ s[1] = Blank /\ s[2] = k /\ s[3] = Blank /\ s[4] = Equal
      /\ s[5] = Blank /\ s[6] = v
  OBVIOUS
<1> HIDE DEF s, S
<1>2. \A n \in 1 .. 6 : n = 1 \/ n = 2 \/ n = 3 \/ n = 4 \/ n = 5 \/ n = 6
  OBVIOUS
<1>3. Around(s, 4, 2, 6) /\ OneEqual(s, 4)
  BY <1>1, <1>2, TokensDiffer
  DEF Around, OneEqual, Reader!KeyEnd, Reader!ValueStart, Blank, Equal
<1>4. /\ 2 \in 1 .. Len(s) /\ 4 \in 1 .. Len(s) /\ 6 \in 1 .. Len(s)
      /\ Len(s) > 1 /\ s[2] \in Word /\ s[6] \in Word
  BY <1>1
<1>5. s[2 - 1] = Reader!Blank
  BY <1>1 DEF Blank
<1>6. 6 = Len(s)
  BY <1>1
<1>7. Reader!OptionsOf(s) = <<Long(s[2], s[6])>>
  BY <1>1, <1>3, <1>4, <1>5, <1>6, WordsRead
<1> QED BY <1>1, <1>7 DEF s

LEMMA CommentedRead ==
    ASSUME NEW k \in Word, NEW v \in Word, NEW w \in Word
    PROVE  Reader!OptionsOf(<<w, Blank, k, Blank, Equal, Blank, v>>)
             = <<Long(k, v)>>
<1> DEFINE s == <<w, Blank, k, Blank, Equal, Blank, v>>
           S == {w, Blank, k, Equal, v}
<1>1. /\ s \in Seq(S) /\ Len(s) = 7 /\ DOMAIN s = 1 .. 7
      /\ s[1] = w /\ s[2] = Blank /\ s[3] = k /\ s[4] = Blank
      /\ s[5] = Equal /\ s[6] = Blank /\ s[7] = v
  OBVIOUS
<1> HIDE DEF s, S
<1>2. \A n \in 1 .. 7 :
        n = 1 \/ n = 2 \/ n = 3 \/ n = 4 \/ n = 5 \/ n = 6 \/ n = 7
  OBVIOUS
<1>3. Around(s, 5, 3, 7) /\ OneEqual(s, 5)
  BY <1>1, <1>2, TokensDiffer
  DEF Around, OneEqual, Reader!KeyEnd, Reader!ValueStart, Blank, Equal
<1>4. /\ 3 \in 1 .. Len(s) /\ 5 \in 1 .. Len(s) /\ 7 \in 1 .. Len(s)
      /\ Len(s) > 1 /\ s[3] \in Word /\ s[7] \in Word
  BY <1>1
<1>5. s[3 - 1] = Reader!Blank
  BY <1>1 DEF Blank
<1>6. 7 = Len(s)
  BY <1>1
<1>7. Reader!OptionsOf(s) = <<Long(s[3], s[7])>>
  BY <1>1, <1>3, <1>4, <1>5, <1>6, WordsRead
<1> QED BY <1>1, <1>7 DEF s

LEMMA TrailedRead ==
    ASSUME NEW k \in Word, NEW v \in Word, NEW w \in Word
    PROVE  Reader!OptionsOf(<<k, Blank, Equal, Blank, v, Blank, w>>)
             = <<Long(k, v)>>
<1> DEFINE s == <<k, Blank, Equal, Blank, v, Blank, w>>
           S == {k, Blank, Equal, v, w}
<1>1. /\ s \in Seq(S) /\ Len(s) = 7 /\ DOMAIN s = 1 .. 7
      /\ s[1] = k /\ s[2] = Blank /\ s[3] = Equal /\ s[4] = Blank
      /\ s[5] = v /\ s[6] = Blank /\ s[7] = w
  OBVIOUS
<1> HIDE DEF s, S
<1>2. \A n \in 1 .. 7 :
        n = 1 \/ n = 2 \/ n = 3 \/ n = 4 \/ n = 5 \/ n = 6 \/ n = 7
  OBVIOUS
<1>3. Around(s, 3, 1, 5) /\ OneEqual(s, 3)
  BY <1>1, <1>2, TokensDiffer
  DEF Around, OneEqual, Reader!KeyEnd, Reader!ValueStart, Blank, Equal
<1>4. /\ 1 \in 1 .. Len(s) /\ 3 \in 1 .. Len(s) /\ 5 \in 1 .. Len(s)
      /\ Len(s) > 1 /\ s[1] \in Word /\ s[5] \in Word
  BY <1>1
<1>5. 1 = 1
  OBVIOUS
<1>6. s[5 + 1] = Reader!Blank
  BY <1>1 DEF Blank
<1>7. Reader!OptionsOf(s) = <<Long(s[1], s[5])>>
  BY <1>1, <1>3, <1>4, <1>5, <1>6, WordsRead
<1> QED BY <1>1, <1>7 DEF s

LEMMA TwoBlanksBeforeRead ==
    ASSUME NEW k \in Word, NEW v \in Word
    PROVE  Reader!OptionsOf(<<k, Blank, Blank, Equal, Blank, v>>) = <<>>
<1> DEFINE s == <<k, Blank, Blank, Equal, Blank, v>>
           S == {k, Blank, Equal, v}
<1>1. /\ s \in Seq(S) /\ Len(s) = 6 /\ DOMAIN s = 1 .. 6
      /\ s[1] = k /\ s[2] = Blank /\ s[3] = Blank /\ s[4] = Equal
      /\ s[5] = Blank /\ s[6] = v
  OBVIOUS
<1> HIDE DEF s, S
<1>2. \A n \in 1 .. 6 : n = 1 \/ n = 2 \/ n = 3 \/ n = 4 \/ n = 5 \/ n = 6
  OBVIOUS
<1>3. Around(s, 4, 2, 6) /\ OneEqual(s, 4)
  BY <1>1, <1>2, TokensDiffer
  DEF Around, OneEqual, Reader!KeyEnd, Reader!ValueStart, Blank, Equal
<1>4. /\ 6 \in Nat /\ 4 \in 1 .. 6 /\ 2 \in Int /\ 6 \in Int
      /\ 2 >= 1 /\ s[2] = Reader!Blank
  BY <1>1 DEF Blank
<1>5. Reader!OptionsOf(s) = <<>>
  BY <1>1, <1>3, <1>4, NoMatch
<1> QED BY <1>5 DEF s

LEMMA TwoBlanksAfterRead ==
    ASSUME NEW k \in Word, NEW v \in Word
    PROVE  Reader!OptionsOf(<<k, Blank, Equal, Blank, Blank, v>>) = <<>>
<1> DEFINE s == <<k, Blank, Equal, Blank, Blank, v>>
           S == {k, Blank, Equal, v}
<1>1. /\ s \in Seq(S) /\ Len(s) = 6 /\ DOMAIN s = 1 .. 6
      /\ s[1] = k /\ s[2] = Blank /\ s[3] = Equal /\ s[4] = Blank
      /\ s[5] = Blank /\ s[6] = v
  OBVIOUS
<1> HIDE DEF s, S
<1>2. \A n \in 1 .. 6 : n = 1 \/ n = 2 \/ n = 3 \/ n = 4 \/ n = 5 \/ n = 6
  OBVIOUS
<1>3. Around(s, 3, 1, 5) /\ OneEqual(s, 3)
  BY <1>1, <1>2, TokensDiffer
  DEF Around, OneEqual, Reader!KeyEnd, Reader!ValueStart, Blank, Equal
<1>4. /\ 6 \in Nat /\ 3 \in 1 .. 6 /\ 1 \in Int /\ 5 \in Int
      /\ 5 <= 6 /\ s[5] = Reader!Blank
  BY <1>1 DEF Blank
<1>5. Reader!OptionsOf(s) = <<>>
  BY <1>1, <1>3, <1>4, NoMatch
<1> QED BY <1>5 DEF s

LEMMA NoKeyRead ==
    ASSUME NEW v \in Word
    PROVE  Reader!OptionsOf(<<Equal, Blank, v>>) = <<>>
<1> DEFINE s == <<Equal, Blank, v>>
           S == {Equal, Blank, v}
<1>1. /\ s \in Seq(S) /\ Len(s) = 3 /\ DOMAIN s = 1 .. 3
      /\ s[1] = Equal /\ s[2] = Blank /\ s[3] = v
  OBVIOUS
<1> HIDE DEF s, S
<1>2. \A n \in 1 .. 3 : n = 1 \/ n = 2 \/ n = 3
  OBVIOUS
<1>3. Around(s, 1, 0, 3) /\ OneEqual(s, 1)
  BY <1>1, <1>2, TokensDiffer
  DEF Around, OneEqual, Reader!KeyEnd, Reader!ValueStart, Blank, Equal
<1>4. /\ 3 \in Nat /\ 1 \in 1 .. 3 /\ 0 \in Int /\ 3 \in Int
      /\ 0 < 1
  BY <1>1 DEF Blank
<1>5. Reader!OptionsOf(s) = <<>>
  BY <1>1, <1>3, <1>4, NoMatch
<1> QED BY <1>5 DEF s

LEMMA NoValueRead ==
    ASSUME NEW k \in Word
    PROVE  Reader!OptionsOf(<<k, Blank, Equal>>) = <<>>
<1> DEFINE s == <<k, Blank, Equal>>
           S == {k, Blank, Equal}
<1>1. /\ s \in Seq(S) /\ Len(s) = 3 /\ DOMAIN s = 1 .. 3
      /\ s[1] = k /\ s[2] = Blank /\ s[3] = Equal
  OBVIOUS
<1> HIDE DEF s, S
<1>2. \A n \in 1 .. 3 : n = 1 \/ n = 2 \/ n = 3
  OBVIOUS
<1>3. Around(s, 3, 1, 4) /\ OneEqual(s, 3)
  BY <1>1, <1>2, TokensDiffer
  DEF Around, OneEqual, Reader!KeyEnd, Reader!ValueStart, Blank, Equal
<1>4. /\ 3 \in Nat /\ 3 \in 1 .. 3 /\ 1 \in Int /\ 4 \in Int
      /\ 4 > 3
  BY <1>1 DEF Blank
<1>5. Reader!OptionsOf(s) = <<>>
  BY <1>1, <1>3, <1>4, NoMatch
<1> QED BY <1>5 DEF s

LEMMA NoEqualRead ==
    ASSUME NEW k \in Word, NEW v \in Word
    PROVE  Reader!OptionsOf(<<k, Blank, v>>) = <<>>
<1> DEFINE s == <<k, Blank, v>>
           S == {k, Blank, v}
<1>1. /\ s \in Seq(S) /\ Len(s) = 3 /\ DOMAIN s = 1 .. 3
      /\ s[1] = k /\ s[2] = Blank /\ s[3] = v
  OBVIOUS
<1> HIDE DEF s, S
<1>2. \A n \in 1 .. 3 : n = 1 \/ n = 2 \/ n = 3
  OBVIOUS
<1>3. 3 \in Nat /\ \A n \in 1 .. 3 : s[n] # Reader!Equal
  BY <1>1, <1>2, TokensDiffer DEF Blank
<1>4. Reader!OptionsOf(s) = <<>>
  BY <1>1, <1>3, NoMatch
<1> QED BY <1>4 DEF s

LEMMA OneWordRead ==
    ASSUME NEW k \in Word
    PROVE  Reader!OptionsOf(<<k>>) = <<>>
<1> DEFINE s == <<k>>
           S == {k}
<1>1. /\ s \in Seq(S) /\ Len(s) = 1 /\ DOMAIN s = 1 .. 1
      /\ s[1] = k
  OBVIOUS
<1> HIDE DEF s, S
<1>2. \A n \in 1 .. 1 : n = 1
  OBVIOUS
<1>3. 1 \in Nat /\ \A n \in 1 .. 1 : s[n] # Reader!Equal
  BY <1>1, <1>2, TokensDiffer DEF Blank
<1>4. Reader!OptionsOf(s) = <<>>
  BY <1>1, <1>3, NoMatch
<1> QED BY <1>4 DEF s

LEMMA GluedRead ==
    ASSUME NEW k \in Word, NEW v \in Word
    PROVE  Reader!OptionsOf(<<"#", k, Blank, Equal, Blank, v>>)
             = <<Opt("?", "")>>
<1> DEFINE s == <<"#", k, Blank, Equal, Blank, v>>
           S == {"#", k, Blank, Equal, v}
<1>1. /\ s \in Seq(S) /\ Len(s) = 6 /\ DOMAIN s = 1 .. 6
      /\ s[1] = "#" /\ s[2] = k /\ s[3] = Blank /\ s[4] = Equal
      /\ s[5] = Blank /\ s[6] = v
  OBVIOUS
<1> HIDE DEF s, S
<1>2. \A n \in 1 .. 6 : n = 1 \/ n = 2 \/ n = 3 \/ n = 4 \/ n = 5 \/ n = 6
  OBVIOUS
<1>3. Around(s, 4, 2, 6) /\ OneEqual(s, 4)
  BY <1>1, <1>2, TokensDiffer
  DEF Around, OneEqual, Reader!KeyEnd, Reader!ValueStart, Blank, Equal
<1>4. Reader!Group(s, 1, 2) /\ Reader!Group(s, 6, 6)
  <2>1. \A n \in 1 .. 2 : n = 1 \/ n = 2
    OBVIOUS
  <2>2. \A n \in 6 .. 6 : n = 6
    OBVIOUS
  <2> QED BY <1>1, <2>1, <2>2, TokensDiffer DEF Reader!Group
<1>5. /\ 6 \in Nat /\ 6 > 1 /\ 2 \in Int /\ 6 \in Int
      /\ 1 \in 1 .. 6 /\ 4 \in 1 .. 6 /\ 6 \in 1 .. 6
  OBVIOUS
<1>6. Reader!OptionsOf(s) = Taken(s, 1, 2, 6, 6)
  BY <1>1, <1>3, <1>4, <1>5, OneMatch
<1>7. SubSeq(s, 1, 2) = <<"#", k>>
  <2>1. 1 \in 1 .. Len(s) /\ 1 + 1 <= Len(s) /\ 1 + 1 = 2
    BY <1>1
  <2>2. SubSeq(s, 1, 1 + 1) = <<s[1], s[1 + 1]>>
    BY <1>1, <2>1, SubTwo
  <2> QED BY <1>1, <2>1, <2>2
<1>8. Reader!Option(<<"#", k>>, SubSeq(s, 6, 6)) = Opt("?", "")
  BY TokensDiffer, OptionOfTwo
<1> QED BY <1>6, <1>7, <1>8 DEF Taken, s

\* The value has an equal sign.
LEMMA JoinedRead ==
    ASSUME NEW k \in Word, NEW v \in Word, NEW w \in Word
    PROVE  Reader!OptionsOf(<<k, Blank, Equal, Blank, v, Equal, w>>)
             = <<Long(k, v \o Equal \o w)>>
<1> DEFINE s == <<k, Blank, Equal, Blank, v, Equal, w>>
           S == {k, Blank, Equal, v, w}
<1>1. /\ s \in Seq(S) /\ Len(s) = 7 /\ DOMAIN s = 1 .. 7
      /\ s[1] = k /\ s[2] = Blank /\ s[3] = Equal /\ s[4] = Blank
      /\ s[5] = v /\ s[6] = Equal /\ s[7] = w
  OBVIOUS
<1> HIDE DEF s, S
<1>2. \A n \in 1 .. 7 :
        n = 1 \/ n = 2 \/ n = 3 \/ n = 4 \/ n = 5 \/ n = 6 \/ n = 7
  OBVIOUS
<1>3. /\ s[3] = Reader!Equal /\ s[6] = Reader!Equal
      /\ \A n \in 1 .. 7 : s[n] = Reader!Equal => n = 3 \/ n = 6
  BY <1>1, <1>2, TokensDiffer DEF Blank, Equal
<1>4. Around(s, 3, 1, 5) /\ Around(s, 6, 5, 7)
  BY <1>1, TokensDiffer
  DEF Around, Reader!KeyEnd, Reader!ValueStart, Blank, Equal
<1> DEFINE m == <<1, 3, 7>>
<1>5. m[1] = 1 /\ m[2] = 3 /\ m[3] = 7
      /\ m \in (1 .. 7) \X (1 .. 7) \X (1 .. 7)
  OBVIOUS
<1> HIDE DEF m
<1>6. m \in Reader!Matches(s)
  <2>1. \A n \in 1 .. 1 : n = 1
    OBVIOUS
  <2>2. \A n \in 5 .. 7 : n = 5 \/ n = 6 \/ n = 7
    OBVIOUS
  <2>3. Reader!Group(s, 1, 1) /\ Reader!Group(s, 5, 7)
    BY <1>1, <2>1, <2>2, TokensDiffer DEF Reader!Group, Equal
  <2> QED BY <1>1, <1>3, <1>4, <1>5, <2>3 DEF Reader!Matches, Around
<1>7. ASSUME NEW n \in Reader!Matches(s)
      PROVE  Reader!Better(m, n)
  <2>1. /\ n \in (1 .. 7) \X (1 .. 7) \X (1 .. 7)
        /\ s[n[2]] = Reader!Equal
        /\ Reader!Group(s, n[1], Reader!KeyEnd(s, n[2]))
    BY <1>1 DEF Reader!Matches
  <2>2. n[1] \in 1 .. 7 /\ n[3] \in 1 .. 7 /\ (n[2] = 3 \/ n[2] = 6)
    BY <1>3, <2>1
  <2>3. n[2] = 6 => n[1] > 1
    <3>1. SUFFICES ASSUME n[2] = 6, n[1] = 1 PROVE FALSE
      BY <2>2
    <3>2. Reader!Group(s, 1, 5)
      BY <1>4, <2>1, <3>1 DEF Around
    <3>3. 2 \in 1 .. 5 /\ s[2] = Reader!Blank
      BY <1>1 DEF Blank
    <3> QED BY <3>2, <3>3 DEF Reader!Group
  <2> QED BY <1>5, <2>2, <2>3 DEF Reader!Better
<1>8. Reader!Matches(s) # {} /\ Reader!Match(s) = m
  <2>1. DOMAIN s \subseteq Nat
    BY <1>1
  <2>2. \A n \in Reader!Matches(s) : Reader!Better(m, n)
    BY <1>7
  <2> QED BY <1>6, <2>1, <2>2, BestIs
<1>9. s \notin Reader!Headings
  <2>1. \A x : DOMAIN <<x>> = 1 .. 1
    OBVIOUS
  <2>2. 2 \in 1 .. 7 /\ 2 \notin 1 .. 1
    OBVIOUS
  <2> QED BY <1>1, <2>1, <2>2 DEF Reader!Headings
<1>10. Reader!OptionsOf(s) = Taken(s, 1, 1, 5, 7)
  BY <1>4, <1>5, <1>8, <1>9 DEF Reader!OptionsOf, Taken, Around
<1>11. SubSeq(s, 1, 1) = <<k>> /\ SubSeq(s, 5, 7) = <<v, Reader!Equal, w>>
  <2>1. /\ 1 \in 1 .. Len(s) /\ 5 \in 1 .. Len(s) /\ 5 + 2 <= Len(s)
        /\ 5 + 1 = 6 /\ 5 + 2 = 7
    BY <1>1
  <2>2. SubSeq(s, 5, 5 + 2) = <<s[5], s[5 + 1], s[5 + 2]>>
    BY <1>1, <2>1, SubThree
  <2>3. SubSeq(s, 1, 1) = <<s[1]>>
    BY <1>1, <2>1, SubOne
  <2> QED BY <1>1, <2>1, <2>2, <2>3 DEF Equal
<1>12. Reader!Option(<<k>>, <<v, Reader!Equal, w>>)
         = Long(k, v \o Reader!Equal \o w)
  <2>1. k # Reader!Equal
    BY TokensDiffer
  <2> DEFINE value == <<v, Reader!Equal, w>>
  <2>2. Reader!Text(value) = v \o Reader!Equal \o w
    <3>1. Reader!Text(value) = Joined(v, Reader!Equal, w)
      BY TextOfThree
    <3> QED BY <3>1 DEF Joined
  <2> HIDE DEF value
  <2>3. Reader!Option(<<k>>, value) = Long(k, Reader!Text(value))
    BY <2>1, OptionOfWord
  <2>4. Reader!Option(<<k>>, value) = Long(k, v \o Reader!Equal \o w)
    BY <2>2, <2>3, Zenon
  <2> QED BY <2>4 DEF value
<1> QED BY <1>10, <1>11, <1>12 DEF Taken, s, Equal

\* The word before the last equal sign is the key.
LEMMA JoinedTightRead ==
    ASSUME NEW k \in Word, NEW v \in Word, NEW w \in Word
    PROVE  Reader!OptionsOf(<<k, Equal, v, Equal, w>>)
             = <<Long(k, v)>>
<1> DEFINE s == <<k, Equal, v, Equal, w>>
           S == {k, Equal, v, w}
<1>1. /\ s \in Seq(S) /\ Len(s) = 5 /\ DOMAIN s = 1 .. 5
      /\ s[1] = k /\ s[2] = Equal /\ s[3] = v /\ s[4] = Equal
      /\ s[5] = w
  OBVIOUS
<1> HIDE DEF s, S
<1>2. \A n \in 1 .. 5 : n = 1 \/ n = 2 \/ n = 3 \/ n = 4 \/ n = 5
  OBVIOUS
<1>3. /\ s[2] = Reader!Equal /\ s[4] = Reader!Equal
      /\ \A n \in 1 .. 5 : s[n] = Reader!Equal => n = 2 \/ n = 4
  BY <1>1, <1>2, TokensDiffer DEF Blank, Equal
<1>4. Around(s, 2, 1, 3) /\ Around(s, 4, 3, 5)
  BY <1>1, TokensDiffer
  DEF Around, Reader!KeyEnd, Reader!ValueStart, Blank, Equal
<1> DEFINE m == <<1, 4, 5>>
<1>5. m[1] = 1 /\ m[2] = 4 /\ m[3] = 5
      /\ m \in (1 .. 5) \X (1 .. 5) \X (1 .. 5)
  OBVIOUS
<1> HIDE DEF m
<1>6. m \in Reader!Matches(s)
  <2>1. \A n \in 1 .. 3 : n = 1 \/ n = 2 \/ n = 3
    OBVIOUS
  <2>2. \A n \in 5 .. 5 : n = 5
    OBVIOUS
  <2>3. Reader!Group(s, 1, 3) /\ Reader!Group(s, 5, 5)
    BY <1>1, <2>1, <2>2, TokensDiffer DEF Reader!Group, Equal
  <2> QED BY <1>1, <1>3, <1>4, <1>5, <2>3 DEF Reader!Matches, Around
<1>7. ASSUME NEW n \in Reader!Matches(s)
      PROVE  Reader!Better(m, n)
  <2>1. /\ n \in (1 .. 5) \X (1 .. 5) \X (1 .. 5)
        /\ s[n[2]] = Reader!Equal
        /\ Reader!Group(s, n[1], Reader!KeyEnd(s, n[2]))
    BY <1>1 DEF Reader!Matches
  <2>2. n[1] \in 1 .. 5 /\ n[3] \in 1 .. 5 /\ (n[2] = 2 \/ n[2] = 4)
    BY <1>3, <2>1
  <2> QED BY <1>5, <2>2 DEF Reader!Better
<1>8. Reader!Matches(s) # {} /\ Reader!Match(s) = m
  <2>1. DOMAIN s \subseteq Nat
    BY <1>1
  <2>2. \A n \in Reader!Matches(s) : Reader!Better(m, n)
    BY <1>7
  <2> QED BY <1>6, <2>1, <2>2, BestIs
<1>9. s \notin Reader!Headings
  <2>1. \A x : DOMAIN <<x>> = 1 .. 1
    OBVIOUS
  <2>2. 2 \in 1 .. 5 /\ 2 \notin 1 .. 1
    OBVIOUS
  <2> QED BY <1>1, <2>1, <2>2 DEF Reader!Headings
<1>10. Reader!OptionsOf(s) = Taken(s, 1, 3, 5, 5)
  BY <1>4, <1>5, <1>8, <1>9 DEF Reader!OptionsOf, Taken, Around
<1>11. SubSeq(s, 1, 3) = <<k, Reader!Equal, v>>
  <2>1. 1 \in 1 .. Len(s) /\ 1 + 2 <= Len(s) /\ 1 + 1 = 2 /\ 1 + 2 = 3
    BY <1>1
  <2>2. SubSeq(s, 1, 1 + 2) = <<s[1], s[1 + 1], s[1 + 2]>>
    BY <1>1, <2>1, SubThree
  <2> QED BY <1>1, <2>1, <2>2 DEF Equal
<1>12. Reader!Option(<<k, Reader!Equal, v>>, SubSeq(s, 5, 5)) = Long(k, v)
  BY OptionWithValue
<1> QED BY <1>10, <1>11, <1>12 DEF Taken, s

NotEmpty(value) == value # ""

\* Lines with any words.  A server_name is never empty, however it is put
\* together.
AnyLine ==
    { l \in {Silent(<<>>)}
             \cup UNION { LinesOf(k, v, w) :
                             k \in Word, v \in Word, w \in Word } :
        Says(l, "server_name") => NotEmpty(l.says[1].value) }

\* The script takes from a line what its record says, one option or none.
LEMMA LineRead ==
    ASSUME NEW l \in AnyLine
    PROVE  /\ Reader!OptionsOf(l.text) = l.says
           /\ l.says = <<>> \/ \E o : l.says = <<o>>
           /\ Says(l, "?") => l.says[1].value # "none"
<1>1. CASE l = Silent(<<>>)
  <2>1. l.text = <<>> /\ l.says = <<>>
    BY <1>1 DEF Silent
  <2>2. Reader!OptionsOf(<<>>) = <<>>
    <3>1. 0 \in Nat /\ DOMAIN <<>> = 1 .. 0 /\ \A n \in 1 .. 0 : FALSE
      OBVIOUS
    <3> QED BY <3>1, NoMatch
  <2> QED BY <2>1, <2>2 DEF Says
<1>2. ASSUME NEW k \in Word, NEW v \in Word, NEW w \in Word,
             l \in LinesOf(k, v, w)
      PROVE  /\ Reader!OptionsOf(l.text) = l.says
             /\ l.says = <<>> \/ \E o : l.says = <<o>>
             /\ Says(l, "?") => l.says[1].value # "none"
  <2>1. ASSUME NEW t, NEW o, l = Line(t, o), Reader!OptionsOf(t) = <<o>>,
               o.name = "?" => o.value # "none"
        PROVE  /\ Reader!OptionsOf(l.text) = l.says
               /\ l.says = <<>> \/ \E x : l.says = <<x>>
               /\ Says(l, "?") => l.says[1].value # "none"
    <3>1. l.text = t /\ l.says = <<o>> /\ <<o>>[1] = o
      BY <2>1 DEF Line
    <3> QED BY <2>1, <3>1 DEF Says
  <2>2. ASSUME NEW t, l = Silent(t), Reader!OptionsOf(t) = <<>>
        PROVE  /\ Reader!OptionsOf(l.text) = l.says
               /\ l.says = <<>> \/ \E x : l.says = <<x>>
               /\ Says(l, "?") => l.says[1].value # "none"
    <3>1. l.text = t /\ l.says = <<>>
      BY <2>2 DEF Silent
    <3> QED BY <2>2, <3>1 DEF Says
  <2>3. \A a, b : Long(a, b).name = "?" => Long(a, b).value # "none"
    <3>1. "?" \notin Options
      BY DEF Options, StringOptions
    <3>2. \A a, b : Opt(a, b).name = a /\ Opt(a, b).value = b
      BY DEF Opt
    <3>3. "" # "none"
      BY Zenon
    <3> SUFFICES ASSUME NEW a, NEW b
                 PROVE  Long(a, b).name = "?" => Long(a, b).value # "none"
      OBVIOUS
    <3>4. CASE a \in Options
      <4>1. Long(a, b) = Opt(a, b)
        BY <3>4, Zenon DEF Long
      <4>2. Long(a, b).name # "?"
        BY <3>1, <3>2, <3>4, <4>1
      <4> QED BY <4>2
    <3>5. CASE a \notin Options
      <4>1. Long(a, b) = Opt("?", "")
        BY <3>5, Zenon DEF Long
      <4>2. Long(a, b).value = ""
        BY <3>2, <4>1, Zenon
      <4> QED BY <3>3, <4>2, Zenon
    <3> QED BY <3>4, <3>5
  <2>4. Opt("?", "").name = "?" => Opt("?", "").value # "none"
    BY Zenon DEF Opt
  <2>5. CASE l = KeyValue(k, v)
    BY <2>1, <2>3, <2>5, SpacedRead DEF KeyValue
  <2>6. CASE l = Line(<<k, Equal, v>>, Long(k, v))
    BY <2>1, <2>3, <2>6, TightRead
  <2>7. CASE l = Line(<<Blank, k, Blank, Equal, Blank, v>>, Long(k, v))
    BY <2>1, <2>3, <2>7, IndentedRead
  <2>8. CASE l = Silent(<<k, Blank, Blank, Equal, Blank, v>>)
    BY <2>2, <2>8, TwoBlanksBeforeRead
  <2>9. CASE l = Silent(<<k, Blank, Equal, Blank, Blank, v>>)
    BY <2>2, <2>9, TwoBlanksAfterRead
  <2>10. CASE l = Line(<<w, Blank, k, Blank, Equal, Blank, v>>, Long(k, v))
    BY <2>1, <2>3, <2>10, CommentedRead
  <2>11. CASE l = Line(<<"#", k, Blank, Equal, Blank, v>>, Opt("?", ""))
    <3> DEFINE o == Opt("?", "")
               t == <<"#", k, Blank, Equal, Blank, v>>
    <3>1. l = Line(t, o) /\ Reader!OptionsOf(t) = <<o>>
          /\ (o.name = "?" => o.value # "none")
      BY <2>4, <2>11, GluedRead, Zenon
    <3> HIDE DEF o, t
    <3> QED BY <2>1, <3>1
  <2>12. CASE l = Line(<<k, Blank, Equal, Blank, v, Blank, w>>, Long(k, v))
    BY <2>1, <2>3, <2>12, TrailedRead
  <2>13. CASE l = Line(<<k, Blank, Equal, Blank, v, Equal, w>>,
                       Long(k, v \o Equal \o w))
    <3> DEFINE o == Long(k, v \o Equal \o w)
               t == <<k, Blank, Equal, Blank, v, Equal, w>>
    <3>1. l = Line(t, o) /\ Reader!OptionsOf(t) = <<o>>
      BY <2>13, JoinedRead
    <3>2. o.name = "?" => o.value # "none"
      BY <2>3
    <3> HIDE DEF o, t
    <3> QED BY <2>1, <3>1, <3>2
  <2>14. CASE l = Line(<<k, Equal, v, Equal, w>>, Long(k, v))
    <3> DEFINE o == Long(k, v)
               t == <<k, Equal, v, Equal, w>>
    <3>1. Reader!OptionsOf(t) = <<o>>
      BY JoinedTightRead
    <3>2. l = Line(t, o) /\ (o.name = "?" => o.value # "none")
      BY <2>3, <2>14
    <3> HIDE DEF o, t
    <3> QED BY <2>1, <3>1, <3>2
  <2>15. CASE l = Silent(<<Equal, Blank, v>>)
    BY <2>2, <2>15, NoKeyRead
  <2>16. CASE l = Silent(<<k, Blank, Equal>>)
    BY <2>2, <2>16, NoValueRead
  <2>17. CASE l = Silent(<<k, Blank, v>>)
    BY <2>2, <2>17, NoEqualRead
  <2>18. CASE l = Silent(<<k>>)
    BY <2>2, <2>18, OneWordRead
  <2> QED
    BY <1>2, <2>5, <2>6, <2>7, <2>8, <2>9, <2>10, <2>11, <2>12, <2>13,
       <2>14, <2>15, <2>16, <2>17, <2>18, Zenon DEF LinesOf
<1>3. \/ l = Silent(<<>>)
      \/ \E k \in Word, v \in Word, w \in Word : l \in LinesOf(k, v, w)
  BY DEF AnyLine
<1> QED BY <1>1, <1>2, <1>3

-----------------------------------------------------------------------------
(* The last option of a name, in a command line and in a file.             *)

SeqTells(s, name, d, v) ==
    \/ v = d /\ \A i \in 1 .. Len(s) : s[i].name # name
    \/ \E i \in 1 .. Len(s) :
         /\ s[i].name = name /\ s[i].value = v
         /\ \A j \in i + 1 .. Len(s) : s[j].name # name

\* The first n lines of the file.
FileTells(file, n, name, d, v) ==
    \/ v = d /\ \A i \in 1 .. n : ~Says(file[i], name)
    \/ \E i \in 1 .. n :
         /\ Says(file[i], name) /\ file[i].says[1].value = v
         /\ \A j \in i + 1 .. n : ~Says(file[j], name)

LEMMA OneMoreOption ==
    ASSUME NEW S, NEW s \in Seq(S), NEW o \in S, NEW name, NEW d
    PROVE  /\ o.name = name => SeqTells(s \o <<o>>, name, d, o.value)
           /\ o.name # name =>
                \A v : SeqTells(s, name, d, v)
                         => SeqTells(s \o <<o>>, name, d, v)
<1> DEFINE t == s \o <<o>>
<1>1. /\ Len(t) = Len(s) + 1 /\ Len(s) \in Nat /\ t[Len(s) + 1] = o
      /\ \A i \in 1 .. Len(s) : t[i] = s[i]
  OBVIOUS
<1> HIDE DEF t
<1>2. /\ Len(s) + 1 \in 1 .. Len(t)
      /\ \A j \in Len(s) + 1 + 1 .. Len(t) : FALSE
      /\ \A i \in 1 .. Len(t) : i \in 1 .. Len(s) \/ i = Len(s) + 1
      /\ \A i \in 1 .. Len(s) : i \in 1 .. Len(t)
  BY <1>1
<1>3. o.name = name => SeqTells(t, name, d, o.value)
  BY <1>1, <1>2 DEF SeqTells
<1>4. ASSUME o.name # name, NEW v, SeqTells(s, name, d, v)
      PROVE  SeqTells(t, name, d, v)
  <2>1. CASE v = d /\ \A i \in 1 .. Len(s) : s[i].name # name
    <3>1. \A i \in 1 .. Len(t) : t[i].name # name
      BY <1>1, <1>2, <1>4, <2>1
    <3> QED BY <2>1, <3>1 DEF SeqTells
  <2>2. ASSUME NEW i \in 1 .. Len(s), s[i].name = name, s[i].value = v,
               \A j \in i + 1 .. Len(s) : s[j].name # name
        PROVE  SeqTells(t, name, d, v)
    <3>1. \A j \in i + 1 .. Len(t) : j \in i + 1 .. Len(s) \/ j = Len(s) + 1
      BY <1>1
    <3>2. \A j \in i + 1 .. Len(s) : j \in 1 .. Len(s)
      BY <1>1
    <3>3. \A j \in i + 1 .. Len(t) : t[j].name # name
      BY <1>1, <1>4, <2>2, <3>1, <3>2
    <3>4. i \in 1 .. Len(t) /\ t[i].name = name /\ t[i].value = v
      BY <1>1, <1>2, <2>2
    <3> QED BY <3>3, <3>4 DEF SeqTells
  <2> QED BY <1>4, <2>1, <2>2 DEF SeqTells
<1> QED BY <1>3, <1>4 DEF t

LEMMA OneMoreLine ==
    ASSUME NEW file, NEW n \in Nat, NEW name, NEW e, NEW v,
           FileTells(file, n + 1, name, e, v)
    PROVE  /\ Says(file[n + 1], name) => v = file[n + 1].says[1].value
           /\ ~Says(file[n + 1], name) => FileTells(file, n, name, e, v)
<1>1. /\ n + 1 \in 1 .. n + 1
      /\ \A i \in 1 .. n : i \in 1 .. n + 1
      /\ \A i \in 1 .. n + 1 : i \in 1 .. n \/ i = n + 1
  OBVIOUS
<1>2. CASE v = e /\ \A i \in 1 .. n + 1 : ~Says(file[i], name)
  BY <1>1, <1>2 DEF FileTells
<1>3. ASSUME NEW i \in 1 .. n + 1,
             Says(file[i], name), file[i].says[1].value = v,
             \A j \in i + 1 .. n + 1 : ~Says(file[j], name)
      PROVE  /\ Says(file[n + 1], name) => v = file[n + 1].says[1].value
             /\ ~Says(file[n + 1], name) => FileTells(file, n, name, e, v)
  <2>1. CASE i = n + 1
    BY <1>3, <2>1
  <2>2. CASE i \in 1 .. n
    <3>1. n + 1 \in i + 1 .. n + 1
      BY <2>2
    <3>2. \A j \in i + 1 .. n : j \in i + 1 .. n + 1
      BY <2>2
    <3> QED BY <1>3, <2>2, <3>1, <3>2 DEF FileTells
  <2> QED BY <1>1, <2>1, <2>2
<1> QED BY <1>2, <1>3 DEF FileTells

\* What a line adds to the command line changes what it tells as the line
\* changes what the file tells.
LEMMA LineAdded ==
    ASSUME NEW S, NEW s \in Seq(S), NEW file, NEW n \in Nat,
           NEW t, t = file[n + 1].says,
           t = <<>> \/ \E o \in S : t = <<o>>,
           NEW name, NEW d, NEW e,
           \A v : FileTells(file, n, name, e, v) => SeqTells(s, name, d, v),
           NEW w, FileTells(file, n + 1, name, e, w)
    PROVE  SeqTells(s \o t, name, d, w)
<1>1. CASE t = <<>>
  <2>1. s \o t = s
    BY <1>1
  <2>2. ~Says(file[n + 1], name)
    BY <1>1 DEF Says
  <2>3. FileTells(file, n, name, e, w)
    BY <2>2, OneMoreLine
  <2> QED BY <2>1, <2>3
<1>2. ASSUME NEW o \in S, t = <<o>>
      PROVE  SeqTells(s \o t, name, d, w)
  <2>1. t # <<>> /\ t[1] = o
    BY <1>2
  <2>2. CASE o.name = name
    <3>1. Says(file[n + 1], name) /\ file[n + 1].says[1].value = o.value
      BY <2>1, <2>2 DEF Says
    <3>2. w = o.value
      BY <3>1, OneMoreLine
    <3>3. SeqTells(s \o <<o>>, name, d, o.value)
      BY <2>2, OneMoreOption
    <3> QED BY <1>2, <3>2, <3>3
  <2>3. CASE o.name # name
    <3>1. ~Says(file[n + 1], name)
      BY <2>1, <2>3 DEF Says
    <3>2. FileTells(file, n, name, e, w)
      BY <3>1, OneMoreLine
    <3>3. SeqTells(s \o <<o>>, name, d, w)
      BY <2>3, <3>2, OneMoreOption
    <3> QED BY <1>2, <3>3
  <2> QED BY <2>2, <2>3
<1> QED BY <1>1, <1>2

\* The greatest of the numbers up to n in a set.
LEMMA Greatest ==
    ASSUME NEW n \in Nat, NEW I \in SUBSET (1 .. n), I # {}
    PROVE  Max(I) \in I /\ \A i \in I : i <= Max(I)
<1> DEFINE D == {m \in Nat : \A J \in SUBSET (1 .. m) :
                               J # {} => \E j \in J : \A i \in J : i <= j}
<1>1. 0 \in D
  <2>1. 1 .. 0 = {}
    OBVIOUS
  <2> QED BY <2>1
<1>2. ASSUME NEW m \in Nat, m \in D PROVE m + 1 \in D
  <2> SUFFICES ASSUME NEW J \in SUBSET (1 .. m + 1), J # {}
               PROVE  \E j \in J : \A i \in J : i <= j
    OBVIOUS
  <2>1. CASE m + 1 \in J
    <3>1. \A i \in J : i <= m + 1
      OBVIOUS
    <3> QED BY <2>1, <3>1
  <2>2. CASE m + 1 \notin J
    <3>1. J \in SUBSET (1 .. m)
      BY <2>2
    <3> QED BY <1>2, <3>1
  <2> QED BY <2>1, <2>2
<1> HIDE DEF D
<1>3. n \in D
  BY <1>1, <1>2, NatInductionOn
<1>4. \E j \in I : \A i \in I : i <= j
  BY <1>3 DEF D
<1>5. \A i \in I, j \in I : i <= j <=> j >= i
  OBVIOUS
<1> QED BY <1>4, <1>5 DEF Max

LEMMA SaidTells ==
    ASSUME NEW file, Len(file) \in Nat, NEW name, NEW e
    PROVE  FileTells(file, Len(file), name, e, LastSaid(file, name, e))
<1> DEFINE I == {i \in 1 .. Len(file) : Says(file[i], name)}
           k == SelectLastInSeq(file, LAMBDA l : Says(l, name))
<1>1. k = IF I # {} THEN Max(I) ELSE 0
  BY DEF SelectLastInSeq
<1>2. LastSaid(file, name, e) = IF k = 0 THEN e ELSE file[k].says[1].value
  BY DEF LastSaid
<1> HIDE DEF k
<1>3. CASE I = {}
  <2>1. \A i \in 1 .. Len(file) : ~Says(file[i], name)
    BY <1>3
  <2> QED BY <1>1, <1>2, <1>3, <2>1 DEF FileTells
<1>4. CASE I # {}
  <2>1. I \in SUBSET (1 .. Len(file))
    OBVIOUS
  <2> HIDE DEF I
  <2>2. k \in I /\ \A i \in I : i <= k
    BY <1>1, <1>4, <2>1, Greatest
  <2>3. k \in 1 .. Len(file) /\ Says(file[k], name) /\ k # 0
    BY <2>2 DEF I
  <2>4. \A j \in k + 1 .. Len(file) : ~Says(file[j], name)
    <3> SUFFICES ASSUME NEW j \in k + 1 .. Len(file), Says(file[j], name)
                 PROVE  FALSE
      OBVIOUS
    <3>1. j \in I /\ j > k
      BY <2>3 DEF I
    <3> QED BY <2>2, <2>3, <3>1
  <2> QED BY <1>2, <2>3, <2>4 DEF FileTells
<1> QED BY <1>3, <1>4

-----------------------------------------------------------------------------
(* The command line of a file.                                             *)

\* The --daemon of the script itself, and what it tells.
Own(daemon) == [name |-> "daemon", value |-> daemon]
Typed(daemon) == IF daemon = "" THEN <<>> ELSE <<Own(daemon)>>
AtFirst(daemon, name, d) ==
    IF name = "daemon" /\ daemon # "" THEN daemon ELSE d

OptionsIn(daemon, file) ==
    {file[j].says[1] : j \in {i \in 1 .. Len(file) : file[i].says # <<>>}}
    \cup {o \in {Own(daemon)} : daemon # ""}

LEMMA TypedTells ==
    ASSUME NEW daemon, NEW file, NEW name, NEW d
    PROVE  /\ Typed(daemon) \in Seq(OptionsIn(daemon, file))
           /\ SeqTells(Typed(daemon), name, d, AtFirst(daemon, name, d))
<1> DEFINE o == Own(daemon)
           S == OptionsIn(daemon, file)
<1>1. CASE ~NotEmpty(daemon)
  <2>1. Typed(daemon) = <<>> /\ AtFirst(daemon, name, d) = d
    BY <1>1, Zenon DEF NotEmpty, Typed, AtFirst
  <2> QED BY <2>1 DEF SeqTells
<1>2. CASE NotEmpty(daemon)
  <2>1. /\ Typed(daemon) = <<o>>
        /\ AtFirst(daemon, name, d) = IF name = "daemon" THEN daemon ELSE d
    BY <1>2, Zenon DEF NotEmpty, Typed, AtFirst
  <2>2. o \in S
    BY <1>2, Zenon DEF NotEmpty, OptionsIn
  <2>3. o.name = "daemon" /\ o.value = daemon
    BY DEF Own
  <2> HIDE DEF o, S
  <2>4. <<o>> \in Seq(S) /\ Len(<<o>>) = 1 /\ <<o>>[1] = o
    BY <2>2
  <2>5. SeqTells(<<o>>, name, d, IF name = "daemon" THEN daemon ELSE d)
    <3>1. \A i \in 1 .. 1 : i = 1
      OBVIOUS
    <3>2. 1 \in 1 .. 1 /\ \A j \in 1 + 1 .. 1 : FALSE
      OBVIOUS
    <3> QED BY <2>3, <2>4, <3>1, <3>2 DEF SeqTells
  <2> QED BY <2>1, <2>4, <2>5 DEF S
<1> QED BY <1>1, <1>2

\* What the lines say, one by one.
SaidBy(file) == [i \in 1 .. Len(file) |-> file[i].says]

LEMMA CommandLineIs ==
    ASSUME NEW daemon, NEW file \in Seq(AnyLine)
    PROVE  Reader!CommandLine(daemon, Texts(file))
             = Typed(daemon) \o Reader!FlattenSeq(SaidBy(file))
<1>1. DOMAIN Texts(file) = 1 .. Len(file)
  BY DEF Texts
<1>2. \A i \in 1 .. Len(file) :
        Reader!OptionsOf(Texts(file)[i]) = file[i].says
  BY LineRead DEF Texts
<1>3. [i \in DOMAIN Texts(file) |-> Reader!OptionsOf(Texts(file)[i])]
        = SaidBy(file)
  BY <1>1, <1>2 DEF SaidBy
<1> QED BY <1>3, Zenon DEF Reader!CommandLine, Typed, Own

LEMMA CommandLineTells ==
    ASSUME NEW daemon, NEW file \in Seq(AnyLine)
    PROVE  /\ Reader!CommandLine(daemon, Texts(file))
                \in Seq(OptionsIn(daemon, file))
           /\ \A name, d, v :
                FileTells(file, Len(file), name, AtFirst(daemon, name, d), v)
                  => SeqTells(Reader!CommandLine(daemon, Texts(file)),
                              name, d, v)
<1> DEFINE S == OptionsIn(daemon, file)
           says == SaidBy(file)
           own == Typed(daemon)
           n == Len(file)
           c == Reader!CommandLine(daemon, Texts(file))
           Agree(s, m) == \A name, d, v :
               FileTells(file, m, name, AtFirst(daemon, name, d), v)
                 => SeqTells(s, name, d, v)
<1>1. c = own \o Reader!FlattenSeq(says)
  BY CommandLineIs
<1>2. n \in Nat /\ \A i \in 1 .. n : file[i] \in AnyLine
  OBVIOUS
<1>3. own \in Seq(S)
  BY TypedTells
<1>4. Agree(own, 0)
  <2> SUFFICES ASSUME NEW name, NEW d, NEW v,
                      FileTells(file, 0, name, AtFirst(daemon, name, d), v)
               PROVE  SeqTells(own, name, d, v)
    OBVIOUS
  <2>1. v = AtFirst(daemon, name, d)
    <3>1. \A i \in 1 .. 0 : FALSE
      OBVIOUS
    <3> QED BY <3>1 DEF FileTells
  <2> HIDE DEF own
  <2>2. SeqTells(own, name, d, AtFirst(daemon, name, d))
    BY TypedTells DEF own
  <2> QED BY <2>1, <2>2
<1>5. /\ DOMAIN says = 1 .. n /\ Len(says) = n
      /\ \A i \in 1 .. n : says[i] = file[i].says
  <2> DEFINE T == {file[i].says : i \in 1 .. n}
  <2>1. says \in [1 .. n -> T]
    BY DEF SaidBy
  <2> QED BY <1>2, <2>1 DEF SaidBy
<1>6. ASSUME NEW i \in 1 .. n
      PROVE  says[i] = <<>> \/ \E o \in S : says[i] = <<o>>
  <2>1. file[i].says = <<>> \/ \E o : file[i].says = <<o>>
    BY <1>2, LineRead
  <2>2. ASSUME NEW o, file[i].says = <<o>>
        PROVE  o \in S
    <3>1. file[i].says # <<>> /\ file[i].says[1] = o
      BY <2>2
    <3>2. o \in {file[j].says[1] :
                   j \in {k \in 1 .. Len(file) : file[k].says # <<>>}}
      BY <3>1
    <3> QED BY <3>2, Zenon DEF OptionsIn
  <2> QED BY <1>5, <2>1, <2>2
<1> HIDE DEF c, S, own, says, n, Agree
<1>7. CASE n = 0
  <2>1. Reader!FlattenSeq(says) = <<>>
    <3>1. Len(says) = 0
      BY <1>5, <1>7
    <3>2. says = <<>>
      BY <1>5, <1>7 DEF says, SaidBy
    <3> QED BY <3>1, <3>2 DEF Reader!FlattenSeq
  <2>2. c = own
    BY <1>1, <1>3, <2>1
  <2> QED BY <1>3, <1>4, <1>7, <2>2 DEF c, S, n, Agree
<1>8. CASE n # 0
  <2>1. n \in Nat \ {0}
    BY <1>2, <1>8
  <2>2. PICK g : /\ Reader!FlattenSeq(says) = g[n] /\ g[1] = says[1]
                 /\ \A i \in 2 .. n : g[i] = g[i - 1] \o says[i]
    BY <1>5, <2>1, FlattenIs
  <2> DEFINE D == {m \in Nat : m \in 1 .. n =>
                     g[m] \in Seq(S) /\ Agree(own \o g[m], m)}
  <2>3. 0 \in D
    OBVIOUS
  <2>4. ASSUME NEW m \in Nat, m \in D PROVE m + 1 \in D
    <3> SUFFICES ASSUME m + 1 \in 1 .. n
                 PROVE  g[m + 1] \in Seq(S) /\ Agree(own \o g[m + 1], m + 1)
      OBVIOUS
    <3> DEFINE t == says[m + 1]
               s == IF m = 0 THEN own ELSE own \o g[m]
    <3>1. t = <<>> \/ \E o \in S : t = <<o>>
      BY <1>6
    <3>3. t = file[m + 1].says
      BY <1>5
    <3> HIDE DEF t
    <3>2. t \in Seq(S)
      <4>1. CASE t = <<>>
        BY <4>1
      <4>2. ASSUME NEW o \in S, t = <<o>> PROVE t \in Seq(S)
        BY <4>2
      <4> QED BY <3>1, <4>1, <4>2
    <3>4. /\ g[m + 1] \in Seq(S) /\ own \o g[m + 1] = s \o t
          /\ s \in Seq(S) /\ Agree(s, m)
      <4>1. CASE m = 0
        <5>1. g[m + 1] = t
          BY <2>2, <4>1 DEF t
        <5> QED BY <1>3, <1>4, <3>2, <4>1, <5>1
      <4>2. CASE m # 0
        <5>1. m \in 1 .. n /\ m + 1 \in 2 .. n /\ m + 1 - 1 = m
          BY <1>2, <4>2
        <5>2. g[m + 1] = g[m] \o t
          <6>1. ASSUME NEW p \in 2 .. n, p - 1 = m
                PROVE  g[p] = g[m] \o says[p]
            BY <2>2, <6>1
          <6>2. PICK q \in 2 .. n : q = m + 1 /\ q - 1 = m
            BY <5>1
          <6>3. g[q] = g[m] \o says[q]
            BY <6>1, <6>2
          <6>4. g[m + 1] = g[m] \o t
            BY <6>2, <6>3, Zenon DEF t
          <6> QED BY <6>4
        <5>3. g[m] \in Seq(S) /\ Agree(own \o g[m], m)
          BY <2>4, <5>1
        <5>4. own \o (g[m] \o t) = (own \o g[m]) \o t
          <6>1. \A x, y, z \in Seq(S) : x \o (y \o z) = (x \o y) \o z
            OBVIOUS
          <6> QED BY <1>3, <3>2, <5>3, <6>1
        <5>5. own \o g[m] \in Seq(S) /\ g[m] \o t \in Seq(S)
          BY <1>3, <3>2, <5>3
        <5> QED BY <4>2, <5>2, <5>3, <5>4, <5>5
      <4> QED BY <4>1, <4>2
    <3> HIDE DEF s
    <3>5. Agree(s \o t, m + 1)
      <4> SUFFICES ASSUME NEW name, NEW d, NEW v,
                     FileTells(file, m + 1, name, AtFirst(daemon, name, d), v)
                   PROVE  SeqTells(s \o t, name, d, v)
        BY DEF Agree
      <4>1. \A w : FileTells(file, m, name, AtFirst(daemon, name, d), w)
                     => SeqTells(s, name, d, w)
        BY <3>4 DEF Agree
      <4> DEFINE e == AtFirst(daemon, name, d)
      <4> HIDE DEF e
      <4>2. \A w : FileTells(file, m, name, e, w) => SeqTells(s, name, d, w)
        BY <4>1 DEF e
      <4>3. FileTells(file, m + 1, name, e, v)
        BY DEF e
      <4>4. s \in Seq(S)
        BY <3>4
      <4> QED BY <3>1, <3>3, <4>2, <4>3, <4>4, LineAdded
    <3> QED BY <3>4, <3>5
  <2> HIDE DEF D
  <2>5. n \in D
    BY <1>2, <2>3, <2>4, NatInductionOn
  <2>6. g[n] \in Seq(S) /\ Agree(own \o g[n], n)
    BY <2>1, <2>5 DEF D
  <2>7. c \in Seq(S) /\ Agree(c, n)
    BY <1>1, <1>3, <2>2, <2>6
  <2> QED BY <2>7 DEF c, S, n, Agree
<1> QED BY <1>7, <1>8

-----------------------------------------------------------------------------
(* The configuration of a file.                                            *)

LEMMA SaidIsLast ==
    ASSUME argv \in Seq(Option), NEW daemon, NEW file \in Seq(AnyLine),
           argv = Reader!CommandLine(daemon, Texts(file)),
           NEW name, NEW d
    PROVE  /\ LastSaid(file, name, AtFirst(daemon, name, d)) = LastOr(name, d)
           /\ At(name) # {} =>
                LastSaid(file, name, AtFirst(daemon, name, d))
                  = LastGiven(name)
<1> DEFINE v == LastSaid(file, name, AtFirst(daemon, name, d))
<1>1. FileTells(file, Len(file), name, AtFirst(daemon, name, d), v)
  BY SaidTells
<1> HIDE DEF v
<1>2. SeqTells(argv, name, d, v)
  BY <1>1, CommandLineTells
<1>3. Tells(Len(argv), name, d, v)
  BY <1>2 DEF SeqTells, Tells
<1>4. v = LastOr(name, d) /\ (At(name) # {} => v = LastGiven(name))
  BY <1>3, TellsLast
<1> QED BY <1>4 DEF v

LEMMA OwnAtFirst ==
    ASSUME NEW daemon, NEW d
    PROVE  /\ \A name : name # "daemon" => AtFirst(daemon, name, d) = d
           /\ AtFirst(daemon, "daemon", d) = IF daemon = "" THEN d ELSE daemon
BY Zenon DEF AtFirst

\* An option of the command line is the script's own or one of a line.
LEMMA WhoGave ==
    ASSUME NEW daemon, NEW file \in Seq(AnyLine),
           argv = Reader!CommandLine(daemon, Texts(file)),
           NEW name, NEW i \in At(name)
    PROVE  \/ argv[i] = Own(daemon) /\ NotEmpty(daemon)
           \/ \E j \in DOMAIN file : /\ Says(file[j], name)
                                     /\ file[j].says[1] = argv[i]
<1>1. argv \in Seq(OptionsIn(daemon, file))
  BY CommandLineTells
<1>2. argv[i] \in OptionsIn(daemon, file) /\ argv[i].name = name
  BY <1>1 DEF At
<1>3. CASE argv[i] \in {o \in {Own(daemon)} : daemon # ""}
  BY <1>3, Zenon DEF NotEmpty
<1>4. CASE \E j \in 1 .. Len(file) :
             file[j].says # <<>> /\ argv[i] = file[j].says[1]
  <2>1. PICK j \in 1 .. Len(file) :
          file[j].says # <<>> /\ argv[i] = file[j].says[1]
    BY <1>4
  <2>2. Says(file[j], name)
    BY <1>2, <2>1, Zenon DEF Says
  <2>3. j \in DOMAIN file
    OBVIOUS
  <2> QED BY <2>1, <2>2, <2>3, Zenon
<1>5. \/ argv[i] \in {o \in {Own(daemon)} : daemon # ""}
      \/ \E j \in 1 .. Len(file) :
           file[j].says # <<>> /\ argv[i] = file[j].says[1]
  BY <1>2, Zenon DEF OptionsIn
<1> QED BY <1>3, <1>4, <1>5

\* What a file says of a name, if it does, is what one of its lines says.
LEMMA SaidByLine ==
    ASSUME NEW file \in Seq(AnyLine), NEW name, NEW d
    PROVE  \/ /\ LastSaid(file, name, d) = d
              /\ \A j \in DOMAIN file : ~Says(file[j], name)
           \/ \E j \in DOMAIN file :
                /\ Says(file[j], name)
                /\ LastSaid(file, name, d) = file[j].says[1].value
<1>1. DOMAIN file = 1 .. Len(file) /\ Len(file) \in Nat
  OBVIOUS
<1>2. FileTells(file, Len(file), name, d, LastSaid(file, name, d))
  BY <1>1, SaidTells
<1> QED BY <1>1, <1>2 DEF FileTells

LEMMA RefusedFile ==
    ASSUME argv \in Seq(Option),
           NEW daemon, NotEmpty(daemon) => daemon \in Actions,
           NEW file \in Seq(AnyLine),
           argv = Reader!CommandLine(daemon, Texts(file)),
           pc = "failed", ~Accepted
    PROVE  Obeyed(daemon, file)
<1>1. ASSUME NEW s \in Mandatory, At(s) = {}
      PROVE  LastSaid(file, s, "none") = "none"
  <2>1. s # "daemon"
    BY <1>1 DEF Mandatory
  <2>2. AtFirst(daemon, s, "none") = "none"
    BY <2>1, OwnAtFirst
  <2>3. LastSaid(file, s, AtFirst(daemon, s, "none")) = LastOr(s, "none")
    BY SaidIsLast
  <2> QED BY <1>1, <2>2, <2>3 DEF LastOr
<1>2. ASSUME NEW i \in At("?")
      PROVE  LastSaid(file, "?", "none") # "none"
  <2>1. argv[i].name = "?" /\ Own(daemon).name = "daemon"
    BY <1>2 DEF At, Own
  <2>2. \E j \in DOMAIN file : Says(file[j], "?")
    BY <1>2, <2>1, WhoGave
  <2>3. PICK j \in DOMAIN file :
          /\ Says(file[j], "?")
          /\ LastSaid(file, "?", "none") = file[j].says[1].value
    BY <2>2, SaidByLine
  <2>4. file[j] \in AnyLine
    OBVIOUS
  <2> QED BY <2>3, <2>4, LineRead
<1>3. ASSUME NEW i \in At("daemon"), argv[i].value \notin Actions
      PROVE  \E j \in DOMAIN file : /\ Says(file[j], "daemon")
                                    /\ file[j].says[1].value \notin Actions
  <2>1. CASE argv[i] = Own(daemon) /\ NotEmpty(daemon)
    <3>1. argv[i].value = daemon
      BY <2>1 DEF Own
    <3> QED BY <1>3, <2>1, <3>1, Zenon
  <2>2. CASE \E j \in DOMAIN file : /\ Says(file[j], "daemon")
                                    /\ file[j].says[1] = argv[i]
    BY <1>3, <2>2
  <2>3. \/ argv[i] = Own(daemon) /\ NotEmpty(daemon)
        \/ \E j \in DOMAIN file : /\ Says(file[j], "daemon")
                                  /\ file[j].says[1] = argv[i]
    BY <1>3, WhoGave
  <2> QED BY <2>1, <2>2, <2>3, Zenon
<1>4. \/ \E s \in Mandatory : At(s) = {}
      \/ \E i \in At("?") : TRUE
      \/ \E i \in At("daemon") : argv[i].value \notin Actions
  BY DEF Accepted
<1>5. \/ LastSaid(file, "?", "none") # "none"
      \/ \E j \in DOMAIN file : /\ Says(file[j], "daemon")
                                /\ file[j].says[1].value \notin Actions
      \/ \E s \in Mandatory : LastSaid(file, s, "none") = "none"
  BY <1>1, <1>2, <1>3, <1>4
<1> QED BY <1>5, Zenon DEF Obeyed

LEMMA AcceptedFile ==
    ASSUME argv \in Seq(Option), NEW daemon,
           NEW file \in Seq(AnyLine),
           argv = Reader!CommandLine(daemon, Texts(file)),
           pc = "returned", ~short, LastWins, Accepted
    PROVE  Obeyed(daemon, file)
<1>1. ASSUME NEW s \in Mandatory
      PROVE  /\ LastSaid(file, s, "none") = LastGiven(s)
             /\ \A d : LastOr(s, d) = LastGiven(s)
  <2>1. s # "daemon" /\ At(s) # {}
    BY <1>1 DEF Mandatory, Accepted
  <2>2. AtFirst(daemon, s, "none") = "none"
    BY <2>1, OwnAtFirst
  <2>3. LastSaid(file, s, AtFirst(daemon, s, "none")) = LastGiven(s)
    BY <2>1, SaidIsLast
  <2> QED BY <2>1, <2>2, <2>3 DEF LastOr
<1>2. \A s \in {"pid_file", "ip", "port", "root_dir"} :
        val[s] = LastSaid(file, s, "none")
  <2>1. \A s \in {"pid_file", "ip", "port", "root_dir"} :
          s \in Mandatory /\ s \in StringOptions \ {"default_file"}
    BY DEF Mandatory, StringOptions
  <2>2. \A s \in StringOptions \ {"default_file"} : val[s] = LastOr(s, Null)
    BY DEF LastWins
  <2> QED BY <1>1, <2>1, <2>2
<1>3. val["server_name_data"] = LastSaid(file, "server_name", "none")
  <2>1. LastGiven("server_name") = LastSaid(file, "server_name", "none")
    BY <1>1 DEF Mandatory
  <2>2. NotEmpty("none")
    BY Zenon DEF NotEmpty
  <2>3. NotEmpty(LastSaid(file, "server_name", "none"))
    <3>1. \A j \in DOMAIN file : file[j] \in AnyLine
      OBVIOUS
    <3>2. \A j \in DOMAIN file : Says(file[j], "server_name") =>
                                   NotEmpty(file[j].says[1].value)
      BY <3>1 DEF AnyLine
    <3> QED BY <2>2, <3>2, SaidByLine
  <2>4. NotEmpty(LastGiven("server_name")) =>
          val["server_name_data"] = LastGiven("server_name")
    BY Zenon DEF LastWins, NotEmpty, NameData
  <2> QED BY <2>1, <2>3, <2>4
<1>4. val["daemon_action"]
        = LastSaid(file, "daemon",
                   IF daemon = "" THEN "NO_OPTION" ELSE daemon)
  <2>1. val["daemon_action"]
          = LastSaid(file, "daemon", AtFirst(daemon, "daemon", "NO_OPTION"))
    <3>1. val["daemon_action"] = LastOr("daemon", "NO_OPTION")
      BY Zenon DEF LastWins
    <3> QED BY <3>1, SaidIsLast
  <2> QED BY <2>1, OwnAtFirst, Zenon
<1>5. log = (LastSaid(file, "log", "true") = "true")
  <2>1. AtFirst(daemon, "log", "true") = "true"
    BY OwnAtFirst
  <2>2. LastSaid(file, "log", AtFirst(daemon, "log", "true"))
          = LastOr("log", "true")
    BY SaidIsLast
  <2>3. LastSaid(file, "log", "true") = LastOr("log", "true")
    BY <2>1, <2>2
  <2>4. log = (LastOr("log", "true") = "true")
    BY Zenon DEF LastWins
  <2> QED BY <2>3, <2>4, Zenon
<1>6. pc # "failed"
  OBVIOUS
<1> QED BY <1>2, <1>3, <1>4, <1>5, <1>6, Zenon DEF Obeyed


\* The script's own --daemon and the lines of a file may be any: what is
\* returned is what they say, and nothing is refused that they do not spoil.
FilesObeyed ==
    pc \in {"returned", "failed"} /\ ~short =>
        \A d \in Actions \cup {""}, f \in Seq(AnyLine) :
            argv = Reader!CommandLine(d, Texts(f)) => Obeyed(d, f)

\* Every such file is obeyed: config_reader.sh and parse_configuration together
\* do what its lines say, of a name the last one, however many they are.
THEOREM AnyFileIsObeyed == Spec => []FilesObeyed
<1>1. ASSUME ResultInv, AcceptedIff, LastWins PROVE FilesObeyed
  <2> SUFFICES ASSUME pc \in {"returned", "failed"}, ~short,
                      NEW d \in Actions \cup {""}, NEW f \in Seq(AnyLine),
                      argv = Reader!CommandLine(d, Texts(f))
               PROVE  Obeyed(d, f)
    BY Zenon DEF FilesObeyed
  <2>1. NotEmpty(d) => d \in Actions
    BY Zenon DEF NotEmpty
  <2>2. argv \in Seq(Option)
    BY <1>1, Zenon DEF ResultInv, RestInv
  <2>3. pc = "returned" <=> Accepted
    BY <1>1, Zenon DEF AcceptedIff
  <2>4. CASE pc = "failed"
    <3>1. ~Accepted
      BY <2>3, <2>4
    <3> QED BY <2>1, <2>2, <2>4, <3>1, RefusedFile
  <2>5. CASE pc = "returned"
    <3>1. Accepted
      BY <2>3, <2>5
    <3> QED BY <1>1, <2>2, <2>5, <3>1, AcceptedFile
  <2> QED BY <2>4, <2>5, Zenon
<1> QED BY <1>1, ResultInvariance, AcceptsExactly, LastOptionWins, PTL

-----------------------------------------------------------------------------
(* The files of MCConfig are among them.                                   *)

LEMMA WordsUsed == Literals \subseteq Word /\ NotEmpty("a")
<1>1. \A x \in Literals : x # Reader!Blank
  BY Zenon DEF Literals, Reader!Blank
<1>2. \A x \in Literals : x # Reader!Equal
  BY Zenon DEF Literals, Reader!Equal
<1>3. NotEmpty("a")
  BY Zenon DEF NotEmpty
<1> QED BY <1>1, <1>2, <1>3 DEF Word

LEMMA LineOfWords ==
    ASSUME NEW k \in Word, NEW v \in Word, NEW w \in Word,
           NEW l \in LinesOf(k, v, w),
           Says(l, "server_name") => NotEmpty(l.says[1].value)
    PROVE  l \in AnyLine
BY DEF AnyLine

LEMMA KeyValueLine ==
    ASSUME NEW k \in Word, NEW v \in Word, k = "server_name" => NotEmpty(v)
    PROVE  KeyValue(k, v) \in AnyLine
<1>1. KeyValue(k, v) \in LinesOf(k, v, v)
  BY Zenon DEF LinesOf
<1>2. KeyValue(k, v).says[1] = Long(k, v)
  BY DEF KeyValue, Line
<1>3. Long(k, v).name = "server_name" => k = "server_name"
  BY Zenon DEF Long, Opt
<1>4. k = "server_name" => Long(k, v).value = v
  BY DEF Long, Opt, Options
<1>5. Says(KeyValue(k, v), "server_name") =>
        NotEmpty(KeyValue(k, v).says[1].value)
  BY <1>2, <1>3, <1>4, Zenon DEF Says
<1> QED BY <1>1, <1>5, LineOfWords

LEMMA SilentLine ==
    ASSUME NEW k \in Word
    PROVE  Silent(<<k>>) \in AnyLine /\ Silent(<<>>) \in AnyLine
<1>1. Silent(<<k>>) \in LinesOf(k, k, k)
  BY Zenon DEF LinesOf
<1>2. \A t, name : ~Says(Silent(t), name)
  BY DEF Says, Silent
<1>3. Silent(<<k>>) \in AnyLine
  BY <1>1, <1>2, LineOfWords
<1>4. Silent(<<>>) \in AnyLine
  BY <1>2 DEF AnyLine
<1> QED BY <1>3, <1>4

LEMMA IpLines ==
    LinesOf("ip", "b", "#") \subseteq AnyLine
<1> SUFFICES ASSUME NEW l \in LinesOf("ip", "b", "#") PROVE l \in AnyLine
  OBVIOUS
<1>1. \A t, v : ~Says(Line(t, Long("ip", v)), "server_name")
  BY DEF Says, Line, Long, Opt, Options, StringOptions
<1>2. \A t, v : ~Says(Line(t, Opt("?", v)), "server_name")
  BY DEF Says, Line, Opt
<1>3. \A t : ~Says(Silent(t), "server_name")
  BY DEF Says, Silent
<1>4. ~Says(l, "server_name")
  BY <1>1, <1>2, <1>3, Zenon DEF LinesOf, KeyValue
<1>5. "ip" \in Word /\ "b" \in Word /\ "#" \in Word
  BY WordsUsed DEF Literals
<1> QED BY <1>4, <1>5, LineOfWords

LEMMA InsertAtIn ==
    ASSUME NEW S, NEW s \in Seq(S), NEW i \in 1 .. Len(s) + 1, NEW e \in S
    PROVE  InsertAt(s, i, e) \in Seq(S)
BY DEF InsertAt

LEMMA RemoveAtIn ==
    ASSUME NEW S, NEW s \in Seq(S), NEW i \in DOMAIN s
    PROVE  RemoveAt(s, i) \in Seq(S)
BY DEF RemoveAt

LEMMA FilesOfLines == Files \subseteq Seq(AnyLine)
<1>1. ConfigTxt \in Seq(AnyLine) /\ Len(ConfigTxt) = 9
  <2>1. /\ Silent(<<"[global]">>) \in AnyLine
        /\ Silent(<<"[[vhosts]]">>) \in AnyLine
        /\ Silent(<<>>) \in AnyLine
    BY WordsUsed, SilentLine DEF Literals
  <2>2. /\ KeyValue("log", "true") \in AnyLine
        /\ KeyValue("pid_file", "a") \in AnyLine
        /\ KeyValue("server_name", "a") \in AnyLine
        /\ KeyValue("ip", "a") \in AnyLine
        /\ KeyValue("port", "a") \in AnyLine
        /\ KeyValue("root_dir", "a") \in AnyLine
    BY WordsUsed, KeyValueLine DEF Literals
  <2> HIDE DEF AnyLine
  <2> QED BY <2>1, <2>2 DEF ConfigTxt
<1>2. OtherLines \subseteq AnyLine
  <2>1. /\ KeyValue("log", "false") \in AnyLine
        /\ KeyValue("daemon", "stop") \in AnyLine
        /\ KeyValue("daemon", "other") \in AnyLine
        /\ KeyValue("unknown", "b") \in AnyLine
    BY WordsUsed, KeyValueLine DEF Literals
  <2> QED BY <2>1, IpLines DEF OtherLines
<1>3. ASSUME NEW i \in DOMAIN ConfigTxt
      PROVE  RemoveAt(ConfigTxt, i) \in Seq(AnyLine)
  BY <1>1, RemoveAtIn
<1>4. ASSUME NEW i \in {1, 7, 10}, NEW l \in OtherLines
      PROVE  InsertAt(ConfigTxt, i, l) \in Seq(AnyLine)
  <2>1. i \in 1 .. Len(ConfigTxt) + 1 /\ l \in AnyLine
    BY <1>1, <1>2
  <2> QED BY <1>1, <2>1, InsertAtIn
<1>5. ASSUME NEW l \in OtherLines
      PROVE  [ConfigTxt EXCEPT ![7] = l] \in Seq(AnyLine)
  <2>1. l \in AnyLine
    BY <1>2
  <2>2. 7 \in 1 .. Len(ConfigTxt)
    BY <1>1
  <2> QED BY <1>1, <2>1, <2>2, ExceptSeq
<1>6. <<>> \in Seq(AnyLine)
  OBVIOUS
<1> SUFFICES ASSUME NEW f \in Files PROVE f \in Seq(AnyLine)
  OBVIOUS
<1>7. CASE \E i \in DOMAIN ConfigTxt : f = RemoveAt(ConfigTxt, i)
  BY <1>3, <1>7, Zenon
<1>8. CASE \E i \in {1, 7, 10}, l \in OtherLines :
             f = InsertAt(ConfigTxt, i, l)
  BY <1>4, <1>8, Zenon
<1>9. CASE \E l \in OtherLines : f = [ConfigTxt EXCEPT ![7] = l]
  BY <1>5, <1>9, Zenon
<1>10. \/ f = <<>> \/ f = ConfigTxt
       \/ \E i \in DOMAIN ConfigTxt : f = RemoveAt(ConfigTxt, i)
       \/ \E i \in {1, 7, 10}, l \in OtherLines :
            f = InsertAt(ConfigTxt, i, l)
       \/ \E l \in OtherLines : f = [ConfigTxt EXCEPT ![7] = l]
  BY DEF Files
<1> QED BY <1>1, <1>6, <1>7, <1>8, <1>9, <1>10, Zenon

\* What is read from a file of MCConfig, with --daemon=start or without, is
\* what the lines of the file say.
THEOREM FileIsObeyed == Spec => []FileObeyed
<1>1. ASSUME FilesObeyed PROVE FileObeyed
  <2> SUFFICES ASSUME pc \in {"returned", "failed"}, ~short,
                      NEW c \in Calls, c.argv = argv
               PROVE  Obeyed(c.daemon, c.file)
    BY Zenon DEF FileObeyed
  <2>1. PICK d \in OwnDaemons, f \in Files :
          c = [daemon |-> d, file |-> f,
               argv |-> Reader!CommandLine(d, Texts(f))]
    BY DEF Calls
  <2>2. /\ c.daemon = d /\ c.file = f
        /\ argv = Reader!CommandLine(d, Texts(f))
    BY <2>1
  <2>3. d \in Actions \cup {""}
    BY Zenon DEF OwnDaemons, Actions
  <2>4. f \in Seq(AnyLine)
    BY FilesOfLines
  <2>5. Obeyed(d, f)
    BY <1>1, <2>2, <2>3, <2>4, Zenon DEF FilesObeyed
  <2> QED BY <2>2, <2>5
<1> QED BY <1>1, AnyFileIsObeyed, PTL

=============================================================================
