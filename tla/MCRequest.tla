----------------------------- MODULE MCRequest -----------------------------
(***************************************************************************)
(* All the texts of a few lines, built line by line as they would arrive,  *)
(* and what the two copies of http_request_parse make of each, against     *)
(* definitions that look at the lines and never at the text.               *)
(***************************************************************************)
EXTENDS Request

CONSTANT MaxLines       \* bound on the lines of a text

\* The copy of the sources in httpd-provided_files cuts lines at CR as well.
ParseProvided(raw) == RequestOf(CString(raw), {CR, LF})

\* Request lines: right, with spaces to merge, with a word too many, with a
\* version or a method httpd does not serve, and too short.
RequestLines ==
    { <<"GET", SP, "/f", SP, "HTTP/1.1">>,
      <<SP, "HEAD", SP, SP, "/f", SP, "HTTP/1.1">>,
      <<"POST", SP, "/f", SP, "HTTP/1.0", SP, "x">>,
      <<"GET", SP, "/f">> }

\* Headers, and lines that are none.
OtherLines ==
    { <<>>,
      <<"Host", Colon, SP, "localhost">>,
      <<"Host", Colon, "ip", Colon, "port", SP>>,
      <<"Host", SP, Colon, SP, "x">>,
      <<"Host", Colon, SP>>,
      <<"Content-Length", Colon, SP, "2">>,
      <<"Content-Length", Colon, "x">>,
      <<"x", Colon, SP, "Host">>,
      <<"x">>,
      <<"Host", Colon, SP, NUL, "x">> }

AnyLine == RequestLines \cup OtherLines

VARIABLES lines,    \* the lines that have arrived
          eol,      \* how the client ends its lines
          text,     \* the lines with their ends
          parsed,   \* what src/httpd makes of the text
          provided  \* what the provided copy makes of it

vars == <<lines, eol, text, parsed, provided>>

Init ==
    /\ lines = <<>> /\ text = <<>>
    /\ eol \in {<<LF>>, <<CR, LF>>}
    /\ parsed = Parse(<<>>)
    /\ provided = ParseProvided(<<>>)

\* One more line arrives, and the whole is parsed.
Line(l) ==
    /\ Len(lines) < MaxLines
    /\ lines' = Append(lines, l)
    /\ text' = text \o l \o eol
    /\ parsed' = Parse(text')
    /\ provided' = ParseProvided(text')
    /\ UNCHANGED eol

Next == \E l \in AnyLine : Line(l)

Spec == Init /\ [][Next]_vars

-----------------------------------------------------------------------------
(* The reference: what the lines say.                                      *)

\* The lines up to the one that holds a NUL, cut there.
Read ==
    LET cut == {i \in DOMAIN lines :
                  \E j \in DOMAIN lines[i] : lines[i][j] = NUL}
    IN  {i \in DOMAIN lines : \A k \in cut : i <= k}

\* The request line is the first line that is not empty.
IsRequestLine(i) ==
    i \in Read /\ lines[i] # <<>> /\ \A j \in 1 .. i - 1 : lines[j] = <<>>

\* The first words of the lines that have three, and what the first asks.
WordsOf == [l \in AnyLine |->
    CASE l = <<"GET", SP, "/f", SP, "HTTP/1.1">> -> <<"GET", "/f", "HTTP/1.1">>
      [] l = <<SP, "HEAD", SP, SP, "/f", SP, "HTTP/1.1">>
           -> <<"HEAD", "/f", "HTTP/1.1">>
      [] l = <<"POST", SP, "/f", SP, "HTTP/1.0", SP, "x">>
           -> <<"UNKNOWN", "/f", "HTTP/1.0">>
      [] l = <<"Host", SP, Colon, SP, "x">> -> <<"UNKNOWN", Colon, "x">>
      [] OTHER -> <<>>]

\* The host that a header gives, if it gives one, and the length.
HostOf == [l \in AnyLine |->
    CASE l = <<"Host", Colon, SP, "localhost">> -> {<<"localhost">>}
      [] l = <<"Host", Colon, "ip", Colon, "port", SP>>
           -> {<<"ip", Colon, "port">>}
      [] l \in {<<"Host", Colon, SP>>, <<"Host", Colon, SP, NUL, "x">>}
           -> {<<>>}
      [] OTHER -> {}]
LengthOf == [l \in AnyLine |->
    CASE l = <<"Content-Length", Colon, SP, "2">> -> {"2"}
      [] l = <<"Content-Length", Colon, "x">> -> {"0"}
      [] OTHER -> {}]

\* The last line after the request line that gives a value gives v.
LastGives(table, v) ==
    \E i \in Read :
        /\ v \in table[lines[i]]
        /\ \E r \in 1 .. i - 1 : IsRequestLine(r)
        /\ \A j \in Read : j > i => table[lines[j]] = {}
NoneGives(table) ==
    \A v \in UNION {table[l] : l \in AnyLine} : ~LastGives(table, v)

\* src/httpd does not know CR LF: what is said of it holds of clients that
\* end their lines with LF, as those of its tests do.
Readings == {provided} \cup {r \in {parsed} : eol = <<LF>>}

\* A request is found exactly when the first non-empty line has three words,
\* and its method, target and version are those words (request.c: strtok_r
\* on the first line).
RequestLineRead ==
    LET found(i) == IsRequestLine(i) /\ WordsOf[lines[i]] # <<>>
    IN  \A r \in Readings :
          /\ r # NoRequest <=> \E i \in DOMAIN lines : found(i)
          /\ \A i \in DOMAIN lines : found(i) =>
               /\ r.method = WordsOf[lines[i]][1]
               /\ r.target = <<WordsOf[lines[i]][2]>>
               /\ r.version = <<WordsOf[lines[i]][3]>>

\* The host is the value of the last Host header, whole when it has a colon
\* of its own, without the blanks around it; NULL without such a header.
HostRead ==
    \A r \in Readings \ {NoRequest} :
        IF r.header_host = Null
        THEN NoneGives(HostOf)
        ELSE LastGives(HostOf, r.header_host)

\* The content length is the number in the last Content-Length header, and 0
\* when that header has no number.
LengthRead ==
    \A r \in Readings \ {NoRequest} :
        IF r.has_content_length
        THEN LastGives(LengthOf, r.content_length)
        ELSE NoneGives(LengthOf)

\* Of lines ended with CR LF, unless an empty one comes first, src/httpd
\* makes the same method, target and host as the provided copy; only the
\* last word of the request line keeps its CR, and is no HTTP/1.1 with it.
CrStaysInVersion ==
    lines # <<>> /\ lines[1] # <<>> =>
        /\ parsed = NoRequest <=> provided = NoRequest
        /\ parsed # NoRequest =>
             /\ parsed.method = provided.method
             /\ parsed.target = provided.target
             /\ parsed.version \in {provided.version,
                                   provided.version \o <<CR>>}
             /\ parsed.header_host = provided.header_host

\* More lines never change the method, the target or the version once they
\* are read, nor take a host away (gerer_client parses whatever recv gave).
Stable(r, s) ==
    r # NoRequest =>
        /\ s # NoRequest
        /\ s.method = r.method /\ s.target = r.target /\ s.version = r.version
        /\ r.header_host # Null => s.header_host # Null
RequestLineStable ==
    [][Stable(parsed, parsed') /\ Stable(provided, provided')]_vars

-----------------------------------------------------------------------------
OnlyLF == {LF}
=============================================================================
