------------------------------- MODULE Config -------------------------------
(***************************************************************************)
(* parse_configuration and config_destroy: one step for each option that   *)
(* getopt_long returns.  Any malloc may fail, and every block is counted.  *)
(***************************************************************************)
EXTENDS Integers, Sequences, FiniteSets

CONSTANT Argvs    \* command lines

ASSUME ArgvsAssumption == Argvs \subseteq Seq([name : STRING, value : STRING])

Null == "NULL"

\* The options stored as they are given, each under its own name.
StringOptions ==
    {"pid_file", "log_file", "port", "ip", "root_dir", "default_file"}
Actions == {"start", "stop", "restart"}
Mandatory == {"pid_file", "server_name", "port", "ip", "root_dir"}

\* The pointers of struct config and of what hangs on it.  server_name is a
\* struct string, server_name_data its bytes.
Slots == StringOptions \cup
    {"daemon_action", "server_name", "server_name_data", "config", "vhost"}

VARIABLES
    pc,     \* "create", "parse", "returned", "failed" (NULL) or "destroyed"
    argv,   \* the command line
    rest,   \* what getopt_long has still to return
    val,    \* val[s]: what the pointer s points to
    live,   \* live[s]: how many blocks allocated for s are not freed
    log,    \* log_enabled
    short   \* an allocation has failed

vars == <<pc, argv, rest, val, live, log, short>>

-----------------------------------------------------------------------------
\* What malloc, calloc and strdup may return for a copy of v.
Alloc(v) == {v, Null}
Shortage(results) == short' = (short \/ Null \in results)

Count(v) == IF v = Null THEN 0 ELSE 1

\* free the old string, keep the new one.
ReplaceString(s, w) ==
    /\ val' = [val EXCEPT ![s] = w]
    /\ live' = [live EXCEPT ![s] = @ - Count(val[s]) + Count(w)]

\* config_destroy: the blocks that are left of l when it is called on v.
AfterDestroy(v, l) == [s \in Slots |-> l[s] - Count(v[s])]

Init ==
    /\ pc = "create"
    /\ argv \in Argvs /\ rest = argv
    /\ val = [s \in Slots |-> Null]
    /\ live = [s \in Slots |-> 0]
    /\ log = FALSE
    /\ short = FALSE

\* config_create_and_init: with the defaults, or nothing at all.
Create ==
    /\ pc = "create"
    /\ \E c \in Alloc("set") :
       \E h \in IF c = Null THEN {Null} ELSE Alloc("set") :
       \E a \in IF h = Null THEN {Null} ELSE Alloc("NO_OPTION"),
          d \in IF h = Null THEN {Null} ELSE Alloc("index.html") :
         /\ val' = [val EXCEPT !["config"] = c, !["vhost"] = h,
                               !["daemon_action"] = a, !["default_file"] = d]
         /\ LET made == [s \in Slots |-> Count(val'[s])]
            IN  IF Null \in {c, h, a, d}
                THEN pc' = "failed" /\ live' = AfterDestroy(val', made)
                ELSE pc' = "parse" /\ live' = made
         /\ Shortage({c, h, a, d})
    /\ log' = TRUE
    /\ UNCHANGED <<argv, rest>>

\* The next option, which getopt_long takes away.
Given(name) ==
    /\ pc = "parse" /\ rest # <<>>
    /\ Head(rest).name = name
    /\ rest' = Tail(rest)
Value == Head(rest).value

SetString ==
    /\ \E s \in StringOptions :
         /\ Given(s)
         /\ \E w \in Alloc(Value) : ReplaceString(s, w) /\ Shortage({w})
    /\ UNCHANGED <<pc, argv, log>>

\* Mutant: "true" is the default, so only the other values are looked at.
SetLogOff ==
    /\ Given("log")
    /\ log' = (log /\ Value = "true")
    /\ UNCHANGED <<pc, argv, val, live, short>>

SetLog ==
    /\ Given("log")
    /\ log' = (Value = "true")
    /\ UNCHANGED <<pc, argv, val, live, short>>

SetDaemon ==
    /\ Given("daemon") /\ Value \in Actions
    /\ \E w \in Alloc(Value) :
           ReplaceString("daemon_action", w) /\ Shortage({w})
    /\ UNCHANGED <<pc, argv, log>>

\* string_destroy, then string_create: an empty name has no data, and a
\* struct whose data cannot be allocated is freed again.
SetServerName ==
    /\ Given("server_name")
    /\ \E n \in Alloc("set"), d \in Alloc(Value) :
         LET whole == n # Null /\ (Value = "" \/ d # Null)
             old == <<val["server_name"], val["server_name_data"]>>
             new == IF ~whole THEN <<Null, Null>>
                    ELSE <<n, IF Value = "" THEN Null ELSE d>>
         IN  /\ val' = [val EXCEPT !["server_name"] = new[1],
                                   !["server_name_data"] = new[2]]
             /\ live' = [live EXCEPT
                  !["server_name"] = @ - Count(old[1]) + Count(new[1]),
                  !["server_name_data"] = @ - Count(old[2]) + Count(new[2])]
             /\ Shortage(IF whole THEN {} ELSE {Null})
    /\ UNCHANGED <<pc, argv, log>>

\* Mutant: the configuration is forgotten instead of destroyed.
RefuseWithoutDestroy ==
    /\ Given("?") \/ (Given("daemon") /\ Value \notin Actions)
    /\ pc' = "failed"
    /\ UNCHANGED <<argv, val, live, log, short>>

\* An unknown option, one without its argument, or another daemon action.
Refuse ==
    /\ Given("?") \/ (Given("daemon") /\ Value \notin Actions)
    /\ pc' = "failed"
    /\ live' = AfterDestroy(val, live)
    /\ UNCHANGED <<argv, val, log, short>>

\* Mutant: the ip may be missing.
MandatoryButIp == \A s \in Mandatory \ {"ip"} : val[s] # Null

\* check_mandatory_fields
CheckMandatory == \A s \in Mandatory : val[s] # Null

Finish ==
    /\ pc = "parse" /\ rest = <<>>
    /\ IF CheckMandatory
       THEN pc' = "returned" /\ live' = live
       ELSE pc' = "failed" /\ live' = AfterDestroy(val, live)
    /\ UNCHANGED <<argv, rest, val, log, short>>

\* main destroys the configuration when daemon_handle_action is over.
Destroy ==
    /\ pc = "returned"
    /\ pc' = "destroyed"
    /\ live' = AfterDestroy(val, live)
    /\ UNCHANGED <<argv, rest, val, log, short>>

Next == \/ Create \/ SetString \/ SetLog \/ SetDaemon \/ SetServerName
        \/ Refuse \/ Finish \/ Destroy

Spec == Init /\ [][Next]_vars

-----------------------------------------------------------------------------
(* Properties.                                                             *)

\* Every pointer that is not NULL owns exactly one block, and when NULL was
\* returned or the configuration destroyed no block is left: repeated
\* options and failed allocations neither leak nor free twice.
BlocksOwned ==
    \A s \in Slots :
        live[s] = IF pc \in {"parse", "returned"} THEN Count(val[s]) ELSE 0

\* The reference reads the command line as a whole.
At(name) == {i \in DOMAIN argv : argv[i].name = name}
LastGiven(name) ==
    argv[CHOOSE i \in At(name) : \A j \in At(name) : j <= i].value
LastOr(name, default) == IF At(name) = {} THEN default ELSE LastGiven(name)

\* A command line is accepted when it names every mandatory option and holds
\* no unknown option and no other daemon action, wherever they stand; only
\* a failed allocation may change that.
Accepted ==
    /\ \A o \in Mandatory : At(o) # {}
    /\ At("?") = {}
    /\ \A i \in At("daemon") : argv[i].value \in Actions
AcceptedIff ==
    pc \in {"returned", "failed"} /\ ~short => (pc = "returned" <=> Accepted)

\* An empty server name is held without data.
NameData(name) == IF name = "" THEN Null ELSE name

\* In a returned configuration the last of several options of a name wins,
\* the empty server name after another one too, and an option that was not
\* given has its default, unless an allocation failed.
LastWins ==
    pc = "returned" /\ ~short =>
        /\ \A s \in StringOptions \ {"default_file"} :
             val[s] = LastOr(s, Null)
        /\ val["default_file"] = LastOr("default_file", "index.html")
        /\ val["daemon_action"] = LastOr("daemon", "NO_OPTION")
        /\ val["server_name_data"] = NameData(LastGiven("server_name"))
        /\ log = (LastOr("log", "true") = "true")

=============================================================================
