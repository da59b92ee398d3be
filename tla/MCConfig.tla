------------------------------ MODULE MCConfig ------------------------------
(***************************************************************************)
(* Command lines for Config.  Some are the mandatory options in the order  *)
(* of config.txt, and one left out or one or two more options, anywhere;   *)
(* the others are what config_reader.sh makes of a configuration file.     *)
(***************************************************************************)
EXTENDS Config, SequencesExt

Opt(n, v) == [name |-> n, value |-> v]

Base == << Opt("pid_file", "a"), Opt("server_name", "a"), Opt("port", "a"),
           Opt("ip", "a"), Opt("root_dir", "a") >>

Extras ==
    { Opt("pid_file", "b"), Opt("server_name", "b"), Opt("server_name", ""),
      Opt("ip", "b"), Opt("log_file", "a"), Opt("default_file", "b"),
      Opt("log", "true"), Opt("log", "false"), Opt("daemon", "start"),
      Opt("daemon", "stop"), Opt("daemon", "other"), Opt("?", "") }

Bases == {Base} \cup {RemoveAt(Base, i) : i \in DOMAIN Base}
OneMore(S, E) ==
    UNION { {InsertAt(s, i, e) : i \in 1 .. Len(s) + 1} : s \in S, e \in E }

TypedArgvs ==
    OneMore(Bases, Extras) \cup OneMore(OneMore({Base}, Extras), Extras)

-----------------------------------------------------------------------------
(* Configuration files.                                                    *)

Options == StringOptions \cup {"log", "daemon", "server_name"}
Reader == INSTANCE ConfigReader
Blank == Reader!Blank
Equal == Reader!Equal

\* A line, with the option that httpd takes from it, or none.
Line(text, option) == [text |-> text, says |-> <<option>>]
Silent(text) == [text |-> text, says |-> <<>>]
Long(key, value) == IF key \in Options THEN Opt(key, value) ELSE Opt("?", "")

KeyValue(key, value) ==
    Line(<<key, Blank, Equal, Blank, value>>, Long(key, value))

\* What else may be made of key and value k and v: blanks more or less, a line
\* commented out (it counts all the same), a value with a blank (it is cut
\* there), a value with an equal sign (the word before it is the key then if
\* no blank is in between), no key, no value, no equal sign.
LinesOf(k, v, w) ==
    { KeyValue(k, v),
      Line(<<k, Equal, v>>, Long(k, v)),
      Line(<<Blank, k, Blank, Equal, Blank, v>>, Long(k, v)),
      Silent(<<k, Blank, Blank, Equal, Blank, v>>),
      Silent(<<k, Blank, Equal, Blank, Blank, v>>),
      Line(<<w, Blank, k, Blank, Equal, Blank, v>>, Long(k, v)),
      Line(<<"#", k, Blank, Equal, Blank, v>>, Opt("?", "")),
      Line(<<k, Blank, Equal, Blank, v, Blank, w>>, Long(k, v)),
      Line(<<k, Blank, Equal, Blank, v, Equal, w>>,
           Long(k, v \o Equal \o w)),
      Line(<<k, Equal, v, Equal, w>>, Long(k, v)),
      Silent(<<Equal, Blank, v>>),
      Silent(<<k, Blank, Equal>>),
      Silent(<<k, Blank, v>>),
      Silent(<<k>>) }

ConfigTxt ==
    << Silent(<<"[global]">>), KeyValue("log", "true"),
       KeyValue("pid_file", "a"), Silent(<<>>), Silent(<<"[[vhosts]]">>),
       KeyValue("server_name", "a"), KeyValue("ip", "a"),
       KeyValue("port", "a"), KeyValue("root_dir", "a") >>

OtherLines ==
    LinesOf("ip", "b", "#") \cup
    { KeyValue("log", "false"), KeyValue("daemon", "stop"),
      KeyValue("daemon", "other"), KeyValue("unknown", "b") }

Files ==
    {<<>>, ConfigTxt}
    \cup {RemoveAt(ConfigTxt, i) : i \in DOMAIN ConfigTxt}
    \cup {InsertAt(ConfigTxt, i, l) : i \in {1, 7, 10}, l \in OtherLines}
    \cup { [ConfigTxt EXCEPT ![7] = l] : l \in OtherLines }
Texts(file) == [i \in DOMAIN file |-> file[i].text]

\* The --daemon of config_reader.sh, none or start, its file, and what httpd
\* is run with.
OwnDaemons == {"", "start"}
Calls ==
    { [daemon |-> d, file |-> f, argv |-> Reader!CommandLine(d, Texts(f))] :
        d \in OwnDaemons, f \in Files }

AllArgvs == TypedArgvs \cup {c.argv : c \in Calls}

\* The reference goes through the file from its end: the first line that says
\* something of a name is the one that counts.
Says(line, name) == line.says # <<>> /\ line.says[1].name = name
LastSaid(file, name, default) ==
    LET i == SelectLastInSeq(file, LAMBDA l : Says(l, name))
    IN  IF i = 0 THEN default ELSE file[i].says[1].value

\* A configuration that is returned for a file holds what the lines of the
\* file say (config_reader.sh:75-82, parse_configuration): the last line of a
\* key counts, the --daemon of the script gives way to a line of the file,
\* and the line is the one listed above even where a comment sign, a missing
\* blank or a second word suggests something else.  A file is only refused
\* when a line names an unknown option or another daemon action, or no line a
\* mandatory option.
Obeyed(daemon, file) ==
    LET said(name, default) == LastSaid(file, name, default)
    IN  IF pc = "failed"
        THEN \/ said("?", "none") # "none"
             \/ \E i \in DOMAIN file : Says(file[i], "daemon")
                                     /\ file[i].says[1].value \notin Actions
             \/ \E s \in Mandatory : said(s, "none") = "none"
        ELSE /\ \A s \in {"pid_file", "ip", "port", "root_dir"} :
                  val[s] = said(s, "none")
             /\ val["server_name_data"] = said("server_name", "none")
             /\ val["daemon_action"] =
                  said("daemon", IF daemon = "" THEN "NO_OPTION" ELSE daemon)
             /\ log = (said("log", "true") = "true")

FileObeyed ==
    pc \in {"returned", "failed"} /\ ~short =>
        \A c \in {d \in Calls : d.argv = argv} : Obeyed(c.daemon, c.file)

=============================================================================
