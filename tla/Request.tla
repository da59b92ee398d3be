------------------------------ MODULE Request ------------------------------
(***************************************************************************)
(* http_request_parse: what httpd reads in the bytes of a request.  A text *)
(* is a sequence of tokens: a word without blanks, or one of the bytes the *)
(* parser looks for.  Two words side by side make one longer word, so that *)
(* "HTTP/1.1" followed by a stray CR is not the version "HTTP/1.1".        *)
(***************************************************************************)
EXTENDS Naturals, SequencesExt

CONSTANT LineDelims  \* what strtok_r cuts lines at: LF, or CR and LF

SP == "SP"
CR == "CR"
LF == "LF"
Colon == ":"
NUL == "NUL"

ASSUME LineDelimsAssumption == LineDelims \in {{LF}, {CR, LF}}

\* isspace, among the tokens.
Blanks == {SP, CR, LF}

\* The tokens that strtoul reads as a number.
Numbers == {"0", "1", "2"}

\* A NULL string, which is not the empty string.
Null == <<"NULL">>
NoRequest == [method |-> "NULL"]

\* Where the fields of s begin that successive calls of strtok_r return: the
\* longest pieces of s without tokens of D.
Starts(s, D) ==
    {i \in DOMAIN s : s[i] \notin D /\ (i = 1 \/ s[i - 1] \in D)}

\* The field of s that begins at i.
FieldAt(s, D, i) ==
    SubSeq(s, i, Min({j \in i .. Len(s) : j = Len(s) \/ s[j + 1] \in D}))

\* The k-th word of a line.
Word(line, k) ==
    LET W == Starts(line, {SP})
    IN  FieldAt(line, {SP},
                CHOOSE i \in W : Cardinality({j \in W : j <= i}) = k)

\* The first index of t in s, or 0: strchr.
IndexOf(s, t) ==
    LET I == {i \in DOMAIN s : s[i] = t} IN IF I = {} THEN 0 ELSE Min(I)

\* Where C stops reading: strdup copies up to the first NUL.
CString(s) == IF IndexOf(s, NUL) = 0 THEN s
              ELSE SubSeq(s, 1, IndexOf(s, NUL) - 1)

\* Mutant: the trailing blanks stay.
TrimLeading(s) ==
    LET ink == {i \in DOMAIN s : s[i] \notin Blanks}
    IN  IF ink = {} THEN <<>> ELSE SubSeq(s, Min(ink), Len(s))

\* nettoyer_espaces: without its leading and trailing blanks.
Trim(s) ==
    LET ink == {i \in DOMAIN s : s[i] \notin Blanks}
    IN  IF ink = {} THEN <<>> ELSE SubSeq(s, Min(ink), Max(ink))

\* parse_method
Method(word) == IF word = <<"GET">> THEN "GET"
                ELSE IF word = <<"HEAD">> THEN "HEAD"
                ELSE "UNKNOWN"

\* strtoul(value, NULL, 10): 0 when no number comes first.
Number(value) ==
    IF value # <<>> /\ Head(value) \in Numbers THEN Head(value) ELSE "0"

\* The text before the first colon of a line is its key, taken as it is.
HasKey(line, key) ==
    IndexOf(line, Colon) # 0
    /\ SubSeq(line, 1, IndexOf(line, Colon) - 1) = <<key>>

\* Mutant: strrchr instead of strchr.
ValueAfterLastColon(line) ==
    LET last == Max({i \in DOMAIN line : line[i] = Colon})
    IN  Trim(SubSeq(line, last + 1, Len(line)))

\* The trimmed text after the first colon.
Value(line) == Trim(SubSeq(line, IndexOf(line, Colon) + 1, Len(line)))

\* The lines of a text that give the header key.  Every line after the first
\* is looked at: strtok_r has merged the blank line that ends the headers.
HeaderLines(text, D, key) ==
    LET L == Starts(text, D)
    IN  {i \in L : i # Min(L) /\ HasKey(FieldAt(text, D, i), key)}

\* Mutant: the first header of a name is kept.
FirstHeader(text, D, key) ==
    LET H == HeaderLines(text, D, key)
    IN  IF H = {} THEN Null ELSE Value(FieldAt(text, D, Min(H)))

\* Mutant: every line starts anew from no value.
HeaderOfLastLine(text, D, key) ==
    LET last == FieldAt(text, D, Max(Starts(text, D)))
    IN  IF HasKey(last, key) THEN Value(last) ELSE Null

\* The value of the last header of that name, or NULL.
LastHeader(text, D, key) ==
    LET H == HeaderLines(text, D, key)
    IN  IF H = {} THEN Null ELSE Value(FieldAt(text, D, Max(H)))

\* Mutant: version_str is not among the words that are tested.
RequestOfTwoWords(text, D) ==
    LET L == Starts(text, D)
        line == FieldAt(text, D, Min(L))
        length == LastHeader(text, D, "Content-Length")
    IN  IF L = {} \/ Cardinality(Starts(line, {SP})) < 2
        THEN NoRequest
        ELSE [ method |-> Method(Word(line, 1)),
               target |-> Word(line, 2),
               version |-> IF Cardinality(Starts(line, {SP})) = 2 THEN Null
                           ELSE Word(line, 3),
               header_host |-> LastHeader(text, D, "Host"),
               has_content_length |-> length # Null,
               content_length |-> Number(length) ]

\* The request in a text whose lines are cut at the tokens of D.
RequestOf(text, D) ==
    LET L == Starts(text, D)
        line == FieldAt(text, D, Min(L))
        length == LastHeader(text, D, "Content-Length")
    IN  IF L = {} \/ Cardinality(Starts(line, {SP})) < 3
        THEN NoRequest
        ELSE [ method |-> Method(Word(line, 1)),
               target |-> Word(line, 2),
               version |-> Word(line, 3),
               header_host |-> LastHeader(text, D, "Host"),
               has_content_length |-> length # Null,
               content_length |-> Number(length) ]

\* http_request_parse
Parse(raw) == RequestOf(CString(raw), LineDelims)

=============================================================================
