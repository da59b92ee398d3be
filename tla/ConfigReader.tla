---------------------------- MODULE ConfigReader ----------------------------
(***************************************************************************)
(* tests/config_reader.sh: how a configuration file becomes the command    *)
(* line of httpd.  A line is a sequence of tokens: the space, the equal    *)
(* sign, and words that contain neither.                                   *)
(***************************************************************************)
EXTENDS Naturals, SequencesExt

CONSTANT Options    \* the long options that httpd knows

Blank == " "
Equal == "="
Headings == {<<"[global]">>, <<"[[vhosts]]">>}

\* ([^ ]+) ?= ?([^ ]+) matches line from f to t: the first group ends before
\* the space, if there is one, and the equal sign e.
Group(line, i, j) == i <= j /\ \A k \in i .. j : line[k] # Blank
KeyEnd(line, e) == IF e > 1 /\ line[e - 1] = Blank THEN e - 2 ELSE e - 1
ValueStart(line, e) ==
    IF e < Len(line) /\ line[e + 1] = Blank THEN e + 2 ELSE e + 1
Matches(line) ==
    { m \in (DOMAIN line) \X (DOMAIN line) \X (DOMAIN line) :
        /\ line[m[2]] = Equal
        /\ Group(line, m[1], KeyEnd(line, m[2]))
        /\ Group(line, ValueStart(line, m[2]), m[3]) }

\* Of all matches the leftmost one, then the longest, then the one with the
\* longest first group (the rule of POSIX for regular expressions).
Better(m, n) ==
    \/ m[1] < n[1]
    \/ m[1] = n[1] /\ m[3] > n[3]
    \/ m[1] = n[1] /\ m[3] = n[3] /\ m[2] >= n[2]

Match(line) ==
    CHOOSE m \in Matches(line) : \A n \in Matches(line) : Better(m, n)

\* The characters of a value.
Text(tokens) == IF tokens = <<>> THEN "" ELSE FlattenSeq(tokens)

\* getopt_long splits the word --key at its first equal sign; what follows a
\* word with one is no value then, and is passed over.  (Abbreviated keys are
\* not among the words.)
Option(key, value) ==
    LET e == SelectInSeq(key, LAMBDA t : t = Equal)
        name == IF e = 0 THEN key ELSE SubSeq(key, 1, e - 1)
    IN  IF Len(name) = 1 /\ name[1] \in Options
        THEN [name |-> name[1],
              value |-> IF e = 0 THEN Text(value)
                        ELSE Text(SubSeq(key, e + 1, Len(key)))]
        ELSE [name |-> "?", value |-> ""]

\* The options that a line of the file adds: one, or none.
OptionsOf(line) ==
    IF line \in Headings \/ Matches(line) = {} THEN <<>>
    ELSE LET m == Match(line)
         IN  << Option(SubSeq(line, m[1], KeyEnd(line, m[2])),
                       SubSeq(line, ValueStart(line, m[2]), m[3])) >>

\* Mutant: the --daemon of the script comes last.
CommandLineDaemonLast(daemon, file) ==
    FlattenSeq([i \in DOMAIN file |-> OptionsOf(file[i])])
    \o IF daemon = "" THEN <<>> ELSE <<[name |-> "daemon", value |-> daemon]>>

\* What httpd is run with: the --daemon of the script's own command line, if
\* there is one, comes before the options of the file.  A file that does not
\* exist has no lines; the exit 1 of the test leaves a subshell only.
CommandLine(daemon, file) ==
    (IF daemon = "" THEN <<>> ELSE <<[name |-> "daemon", value |-> daemon]>>)
    \o FlattenSeq([i \in DOMAIN file |-> OptionsOf(file[i])])

=============================================================================
