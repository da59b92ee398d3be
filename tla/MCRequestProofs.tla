--------------------------- MODULE MCRequestProofs ---------------------------
(***************************************************************************)
(* What http_request_parse reads in a text that grows line by line, for    *)
(* any number of lines: the request line, the host and the length that the *)
(* reference of MCRequest says, and a request line once read stays.        *)
(***************************************************************************)
EXTENDS MCRequest, RequestProofs

-----------------------------------------------------------------------------
(* A text that goes on.                                                    *)

\* A text that goes on after a line end keeps what its request line says, and
\* its host unless another line gives one.
LEMMA ParseStable ==
    ASSUME NEW T, "NULL" \notin T, NEW D,
           NEW s \in Seq(T), NEW t \in Seq(T), Complete(s, D)
    PROVE  Stable(RequestOf(CString(s), D), RequestOf(CString(s \o t), D))
<1>1. CASE HasNul(s)
  BY <1>1, CStringOfConcat DEF Stable
<1>2. CASE ~HasNul(s)
  <2> DEFINE v == CString(t)
             u == s \o v
             q == RequestOf(s, D)
             r == RequestOf(u, D)
  <2>1. CString(s) = s /\ CString(s \o t) = u
    BY <1>2, CStringOfConcat, WholeCString
  <2>2. v \in Seq(T)
    BY CStringIsSeq
  <2>3. u \in Seq(T)
    BY <2>2, ConcatProperties
  <2> HIDE DEF v
  <2>4. ASSUME HasRequest(s, D) PROVE Stable(q, r)
    <3>1. Starts(s, D) # {}
      BY <2>4 DEF HasRequest
    <3>2. HasRequest(u, D) /\ FirstLine(u, D) = FirstLine(s, D)
      BY <2>2, <2>4, <3>1, FirstLineStays DEF HasRequest
    <3>3. HeaderLines(s, D, "Host") # {} => HeaderLines(u, D, "Host") # {}
      <4> SUFFICES ASSUME NEW i \in HeaderLines(s, D, "Host")
                   PROVE  i \in HeaderLines(u, D, "Host")
        OBVIOUS
      <4>1. i \in Int
        BY HeaderLinesBound
      <4> QED
        BY <2>2, <3>1, <4>1, HeadersOfConcat
    <3>4. LastHeader(s, D, "Host") # Null => LastHeader(u, D, "Host") # Null
      BY <2>3, <3>3, HeaderIsNull
    <3> HIDE DEF u
    <3>5. /\ r # NoRequest /\ r.method = q.method /\ r.target = q.target
          /\ r.version = q.version
      BY <2>4, <3>2, RequestFields
    <3>6. q.header_host # Null => r.header_host # Null
      BY <2>4, <3>2, <3>4, RequestFields
    <3> QED
      BY <3>5, <3>6 DEF Stable
  <2>5. ~HasRequest(s, D) => q = NoRequest
    BY RequestFields
  <2>6. q = NoRequest => Stable(q, r)
    BY DEF Stable
  <2> QED
    BY <2>1, <2>4, <2>5, <2>6
<1> QED
  BY <1>1, <1>2

-----------------------------------------------------------------------------
(* The texts of the specification.                                         *)

\* The tokens of these texts.
Token == {SP, CR, LF, Colon, NUL, "GET", "HEAD", "POST", "/f", "HTTP/1.0",
          "HTTP/1.1", "x", "Host", "Content-Length", "localhost", "ip",
          "port", "2"}

LEMMA NullIsNoToken == "NULL" \notin Token
BY DEF Token, SP, CR, LF, Colon, NUL

LEMMA LinesAreTexts ==
    ASSUME NEW l \in AnyLine
    PROVE  /\ l \in Seq(Token) /\ \A i \in 1 .. Len(l) : l[i] \notin {CR, LF}
           /\ \/ l = <<"Host", Colon, SP, NUL, "x">>
              \/ \A i \in 1 .. Len(l) : l[i] # NUL
<1> USE DEF SP, CR, LF, Colon, NUL
<1>15. /\ SP \in Token /\ Colon \in Token /\ NUL \in Token /\ "GET" \in Token
       /\ "HEAD" \in Token /\ "POST" \in Token /\ "/f" \in Token
       /\ "HTTP/1.0" \in Token /\ "HTTP/1.1" \in Token /\ "x" \in Token
       /\ "Host" \in Token /\ "Content-Length" \in Token
       /\ "localhost" \in Token /\ "ip" \in Token /\ "port" \in Token
       /\ "2" \in Token
  BY DEF Token
<1>1. CASE l = <<"GET", SP, "/f", SP, "HTTP/1.1">>
  BY <1>1, <1>15
<1>2. CASE l = <<SP, "HEAD", SP, SP, "/f", SP, "HTTP/1.1">>
  BY <1>2, <1>15
<1>3. CASE l = <<"POST", SP, "/f", SP, "HTTP/1.0", SP, "x">>
  BY <1>3, <1>15
<1>4. CASE l = <<"GET", SP, "/f">>
  BY <1>4, <1>15
<1>5. CASE l = <<>>
  BY <1>5
<1>6. CASE l = <<"Host", Colon, SP, "localhost">>
  BY <1>6, <1>15
<1>7. CASE l = <<"Host", Colon, "ip", Colon, "port", SP>>
  BY <1>7, <1>15
<1>8. CASE l = <<"Host", SP, Colon, SP, "x">>
  BY <1>8, <1>15
<1>9. CASE l = <<"Host", Colon, SP>>
  BY <1>9, <1>15
<1>10. CASE l = <<"Content-Length", Colon, SP, "2">>
  BY <1>10, <1>15
<1>11. CASE l = <<"Content-Length", Colon, "x">>
  BY <1>11, <1>15
<1>12. CASE l = <<"x", Colon, SP, "Host">>
  BY <1>12, <1>15
<1>13. CASE l = <<"x">>
  BY <1>13, <1>15
<1>14. CASE l = <<"Host", Colon, SP, NUL, "x">>
  BY <1>14, <1>15
<1> QED
  BY <1>1, <1>2, <1>3, <1>4, <1>5, <1>6, <1>7, <1>8, <1>9, <1>10, <1>11,
     <1>12, <1>13, <1>14 DEF AnyLine, RequestLines, OtherLines

\* The text ends with a line end for both copies, and is what they parsed.
TextInv ==
    /\ text \in Seq(Token)
    /\ text = <<>> \/ text[Len(text)] = LF
    /\ eol \in {<<LF>>, <<CR, LF>>}
    /\ parsed = Parse(text)
    /\ provided = ParseProvided(text)

\* The parsers see the lines of a text whole.
LEMMA TextIsComplete ==
    ASSUME TextInv PROVE Complete(text, LineDelims) /\ Complete(text, {CR, LF})
BY LineDelimsAssumption DEF TextInv, Complete

LEMMA EndsAreTexts ==
    ASSUME NEW e \in {<<LF>>, <<CR, LF>>}
    PROVE  /\ e \in Seq(Token) /\ Len(e) >= 1 /\ e[Len(e)] = LF
           /\ \A i \in 1 .. Len(e) : e[i] \in {CR, LF}
<1>3. LF \in Token /\ CR \in Token
  BY DEF Token
<1>1. CASE e = <<LF>>
  BY <1>1, <1>3
<1>2. CASE e = <<CR, LF>>
  BY <1>2, <1>3
<1> QED
  BY <1>1, <1>2

LEMMA TextInit == Init => TextInv
BY DEF Init, TextInv

\* A line makes the text longer by its tokens and its end.
LEMMA TextLine ==
    ASSUME TextInv, NEW l \in AnyLine, Line(l)
    PROVE  /\ TextInv'
           /\ l \o eol \in Seq(Token) /\ text' = text \o (l \o eol)
<1>1. l \in Seq(Token) /\ eol \in Seq(Token) /\ text \in Seq(Token)
      /\ Len(eol) >= 1 /\ eol[Len(eol)] = LF
  BY LinesAreTexts, EndsAreTexts DEF TextInv
<1>2. text' = (text \o l) \o eol
  BY DEF Line
<1>3. text' = text \o (l \o eol)
  BY <1>1, <1>2, ConcatAssociative
<1>4. l \o eol \in Seq(Token) /\ text \o l \in Seq(Token)
  BY <1>1, ConcatProperties
<1>5. text' \in Seq(Token) /\ text'[Len(text')] = LF
  <2> DEFINE s == text \o l
  <2>1. /\ s \o eol \in Seq(Token) /\ Len(s \o eol) = Len(s) + Len(eol)
        /\ \A i \in 1 .. Len(s) + Len(eol) :
              (s \o eol)[i] = IF i <= Len(s) THEN s[i] ELSE eol[i - Len(s)]
    BY <1>1, <1>4, ConcatProperties
  <2>2. Len(s) \in Nat /\ Len(eol) \in Nat
    BY <1>1, <1>4
  <2> HIDE DEF s
  <2>3. (s \o eol)[Len(s) + Len(eol)] = eol[Len(eol)]
    BY <1>1, <2>1, <2>2
  <2> QED
    BY <1>1, <1>2, <2>1, <2>3 DEF s
<1>6. /\ eol' = eol /\ parsed' = Parse(text')
      /\ provided' = ParseProvided(text')
  BY DEF Line
<1>7. /\ Parse(text)' = Parse(text')
      /\ ParseProvided(text)' = ParseProvided(text')
  OBVIOUS
<1> QED
  BY <1>3, <1>4, <1>5, <1>6, <1>7 DEF TextInv

LEMMA TextNext == TextInv /\ [Next]_vars => TextInv'
<1> SUFFICES ASSUME TextInv, [Next]_vars PROVE TextInv'
  OBVIOUS
<1>1. CASE \E l \in AnyLine : Line(l)
  BY <1>1, TextLine
<1>2. CASE UNCHANGED vars
  BY <1>2 DEF TextInv, vars
<1> QED
  BY <1>1, <1>2 DEF Next

LEMMA TextAlways == Spec => []TextInv
BY TextInit, TextNext, PTL DEF Spec

LEMMA StableStep ==
    TextInv /\ [Next]_vars
        => [Stable(parsed, parsed') /\ Stable(provided, provided')]_vars
<1> SUFFICES ASSUME TextInv, NEW l \in AnyLine, Line(l)
             PROVE  Stable(parsed, parsed') /\ Stable(provided, provided')
  BY DEF Next
<1>1. /\ text \in Seq(Token) /\ l \o eol \in Seq(Token)
      /\ text' = text \o (l \o eol) /\ "NULL" \notin Token
  BY TextLine, NullIsNoToken DEF TextInv
<1>2. Complete(text, LineDelims) /\ Complete(text, {CR, LF})
  BY TextIsComplete
<1>3. /\ parsed = Parse(text) /\ parsed' = Parse(text')
      /\ provided = ParseProvided(text) /\ provided' = ParseProvided(text')
  BY DEF TextInv, Line
<1>4. Stable(Parse(text), Parse(text'))
  BY <1>1, <1>2, ParseStable DEF Parse
<1>5. Stable(ParseProvided(text), ParseProvided(text'))
  BY <1>1, <1>2, ParseStable DEF ParseProvided
<1> QED
  BY <1>3, <1>4, <1>5

\* More lines never change the method, the target or the version that either
\* copy of http_request_parse has read, nor take a host away, however many
\* lines come: gerer_client may parse a request before the rest of it is
\* there, and reads the same request line.
THEOREM RequestLineStays == Spec => RequestLineStable
BY TextAlways, StableStep, PTL DEF Spec, RequestLineStable

-----------------------------------------------------------------------------
(* What the parsers see of each line.                                      *)

\* A line up to its NUL.
Cut(l) == IF l = <<"Host", Colon, SP, NUL, "x">> THEN <<"Host", Colon, SP>>
          ELSE l

\* g is l, or l and the CR of its end.
Shows(g, l) ==
    /\ g \in Seq(Token)
    /\ \A i \in 1 .. Len(l) : g[i] = l[i]
    /\ \/ Len(g) = Len(l)
       \/ Len(g) = Len(l) + 1 /\ g[Len(l) + 1] = CR

\* The words of g, and what the first one asks.
Asks(g, l, words) ==
    /\ ~(Cardinality(Starts(g, {SP})) < 3)
    /\ Method(Word(g, 1)) = words[1]
    /\ Word(g, 2) = <<words[2]>>
    /\ Word(g, 3) \in {<<words[3]>>, <<words[3], CR>>}
    /\ Len(g) = Len(l) => Word(g, 3) = <<words[3]>>

\* The headers that g gives.
Gives(g, hosts, lengths) ==
    /\ HasKey(g, "Host") <=> hosts # {}
    /\ HasKey(g, "Host") => hosts = {Value(g)}
    /\ HasKey(g, "Content-Length") <=> lengths # {}
    /\ HasKey(g, "Content-Length") => lengths = {Number(Value(g))}

LEMMA TokensDiffer ==
    /\ SP # Colon /\ SP # CR /\ Colon # CR /\ SP \in Blanks /\ CR \in Blanks
    /\ Colon \notin Blanks
    /\ \A t \in {"GET", "HEAD", "POST", "/f", "HTTP/1.0", "HTTP/1.1", "x",
                 "Host", "Content-Length", "localhost", "ip", "port", "2"} :
          t # SP /\ t # Colon /\ t # CR /\ t \notin Blanks
BY DEF SP, Colon, CR, LF, Blanks

LEMMA GetLine ==
    ASSUME NEW g, Shows(g, <<"GET", SP, "/f", SP, "HTTP/1.1">>)
    PROVE  /\ Asks(g, <<"GET", SP, "/f", SP, "HTTP/1.1">>,
                   <<"GET", "/f", "HTTP/1.1">>)
           /\ Gives(g, {}, {})
<1>1. /\ g \in Seq(Token) /\ Len(g) \in Nat
      /\ g[1] = "GET" /\ g[2] = SP /\ g[3] = "/f" /\ g[4] = SP
      /\ g[5] = "HTTP/1.1"
      /\ Len(g) = 5 \/ (Len(g) = 6 /\ g[6] = CR)
  BY DEF Shows
<1>2. /\ 1 \in 1 .. Len(g) /\ 3 \in 1 .. Len(g) /\ 5 \in 1 .. Len(g)
      /\ WordsAt(g, 1, 3, 5)
  BY <1>1, TokensDiffer DEF WordsAt
<1>3. /\ ~(Cardinality(Starts(g, {SP})) < 3)
      /\ Word(g, 1) = <<g[1]>> /\ Word(g, 2) = <<g[3]>>
      /\ Word(g, 3) = IF 5 = Len(g) \/ g[5 + 1] = SP
                      THEN <<g[5]>> ELSE <<g[5], g[5 + 1]>>
  BY <1>1, <1>2, ThreeWords
<1>4. Asks(g, <<"GET", SP, "/f", SP, "HTTP/1.1">>,
           <<"GET", "/f", "HTTP/1.1">>)
  BY <1>1, <1>3, TokensDiffer DEF Asks, Method
<1>5. \A j \in 1 .. Len(g) : g[j] # Colon
  BY <1>1, TokensDiffer
<1>6. ~HasKey(g, "Host") /\ ~HasKey(g, "Content-Length")
  BY <1>1, <1>5, NoKey
<1> QED
  BY <1>4, <1>6 DEF Gives

LEMMA HeadLine ==
    ASSUME NEW g, Shows(g, <<SP, "HEAD", SP, SP, "/f", SP, "HTTP/1.1">>)
    PROVE  /\ Asks(g, <<SP, "HEAD", SP, SP, "/f", SP, "HTTP/1.1">>,
                   <<"HEAD", "/f", "HTTP/1.1">>)
           /\ Gives(g, {}, {})
<1>1. /\ g \in Seq(Token) /\ Len(g) \in Nat
      /\ g[1] = SP /\ g[2] = "HEAD" /\ g[3] = SP /\ g[4] = SP /\ g[5] = "/f"
      /\ g[6] = SP /\ g[7] = "HTTP/1.1"
      /\ Len(g) = 7 \/ (Len(g) = 8 /\ g[8] = CR)
  BY DEF Shows
<1>2. /\ 2 \in 1 .. Len(g) /\ 5 \in 1 .. Len(g) /\ 7 \in 1 .. Len(g)
      /\ WordsAt(g, 2, 5, 7)
  BY <1>1, TokensDiffer DEF WordsAt
<1>3. /\ ~(Cardinality(Starts(g, {SP})) < 3)
      /\ Word(g, 1) = <<g[2]>> /\ Word(g, 2) = <<g[5]>>
      /\ Word(g, 3) = IF 7 = Len(g) \/ g[7 + 1] = SP
                      THEN <<g[7]>> ELSE <<g[7], g[7 + 1]>>
  BY <1>1, <1>2, ThreeWords
<1>4. Asks(g, <<SP, "HEAD", SP, SP, "/f", SP, "HTTP/1.1">>,
           <<"HEAD", "/f", "HTTP/1.1">>)
  BY <1>1, <1>3, TokensDiffer DEF Asks, Method
<1>5. \A j \in 1 .. Len(g) : g[j] # Colon
  BY <1>1, TokensDiffer
<1>6. ~HasKey(g, "Host") /\ ~HasKey(g, "Content-Length")
  BY <1>1, <1>5, NoKey
<1> QED
  BY <1>4, <1>6 DEF Gives

LEMMA PostLine ==
    ASSUME NEW g, Shows(g, <<"POST", SP, "/f", SP, "HTTP/1.0", SP, "x">>)
    PROVE  /\ Asks(g, <<"POST", SP, "/f", SP, "HTTP/1.0", SP, "x">>,
                   <<"UNKNOWN", "/f", "HTTP/1.0">>)
           /\ Gives(g, {}, {})
<1>1. /\ g \in Seq(Token) /\ Len(g) \in Nat
      /\ g[1] = "POST" /\ g[2] = SP /\ g[3] = "/f" /\ g[4] = SP
      /\ g[5] = "HTTP/1.0" /\ g[6] = SP /\ g[7] = "x"
      /\ Len(g) = 7 \/ (Len(g) = 8 /\ g[8] = CR)
  BY DEF Shows
<1>2. /\ 1 \in 1 .. Len(g) /\ 3 \in 1 .. Len(g) /\ 5 \in 1 .. Len(g)
      /\ WordsAt(g, 1, 3, 5)
  BY <1>1, TokensDiffer DEF WordsAt
<1>3. /\ ~(Cardinality(Starts(g, {SP})) < 3)
      /\ Word(g, 1) = <<g[1]>> /\ Word(g, 2) = <<g[3]>>
      /\ Word(g, 3) = IF 5 = Len(g) \/ g[5 + 1] = SP
                      THEN <<g[5]>> ELSE <<g[5], g[5 + 1]>>
  BY <1>1, <1>2, ThreeWords
<1>4. Asks(g, <<"POST", SP, "/f", SP, "HTTP/1.0", SP, "x">>,
           <<"UNKNOWN", "/f", "HTTP/1.0">>)
  BY <1>1, <1>3, TokensDiffer DEF Asks, Method
<1>5. \A j \in 1 .. Len(g) : g[j] # Colon
  BY <1>1, TokensDiffer
<1>6. ~HasKey(g, "Host") /\ ~HasKey(g, "Content-Length")
  BY <1>1, <1>5, NoKey
<1> QED
  BY <1>4, <1>6 DEF Gives

LEMMA ShortLine ==
    ASSUME NEW g, Shows(g, <<"GET", SP, "/f">>)
    PROVE  /\ Cardinality(Starts(g, {SP})) < 3
           /\ Gives(g, {}, {})
<1>1. /\ g \in Seq(Token) /\ Len(g) \in Nat
      /\ g[1] = "GET" /\ g[2] = SP /\ g[3] = "/f"
      /\ Len(g) = 3 \/ (Len(g) = 4 /\ g[4] = CR)
  BY DEF Shows
<1>2. \A i \in Starts(g, {SP}) : i = 1 \/ i = 3
  <2> SUFFICES ASSUME NEW i \in Starts(g, {SP}), i # 1
               PROVE  i = 3
    OBVIOUS
  <2>1. i \in 1 .. Len(g) /\ g[i] # SP /\ g[i - 1] = SP
    BY <1>1, StartsBound DEF Starts
  <2> QED
    BY <1>1, <2>1, TokensDiffer
<1>3. Cardinality(Starts(g, {SP})) < 3
  BY <1>2, FewWords
<1>5. \A j \in 1 .. Len(g) : g[j] # Colon
  BY <1>1, TokensDiffer
<1>6. ~HasKey(g, "Host") /\ ~HasKey(g, "Content-Length")
  BY <1>1, <1>5, NoKey
<1> QED
  BY <1>3, <1>6 DEF Gives

LEMMA EmptyLine ==
    ASSUME NEW g, Shows(g, <<>>)
    PROVE  /\ Cardinality(Starts(g, {SP})) < 3
           /\ Gives(g, {}, {})
<1>1. /\ g \in Seq(Token) /\ Len(g) \in Nat
      /\ Len(g) = 0 \/ (Len(g) = 1 /\ g[1] = CR)
  BY DEF Shows
<1>2. \A i \in Starts(g, {SP}) : i = 1
  <2> SUFFICES ASSUME NEW i \in Starts(g, {SP}), i # 1 PROVE FALSE
    OBVIOUS
  <2>1. i \in 1 .. Len(g) /\ g[i] # SP /\ g[i - 1] = SP
    BY <1>1, StartsBound DEF Starts
  <2> QED
    BY <1>1, <2>1, TokensDiffer
<1>3. Cardinality(Starts(g, {SP})) < 3
  BY <1>2, FewWords
<1>5. \A j \in 1 .. Len(g) : g[j] # Colon
  BY <1>1, TokensDiffer
<1>6. ~HasKey(g, "Host") /\ ~HasKey(g, "Content-Length")
  BY <1>1, <1>5, NoKey
<1> QED
  BY <1>3, <1>6 DEF Gives

LEMMA LocalLine ==
    ASSUME NEW g, Shows(g, <<"Host", Colon, SP, "localhost">>)
    PROVE  /\ Cardinality(Starts(g, {SP})) < 3
           /\ Gives(g, {<<"localhost">>}, {})
<1>1. /\ g \in Seq(Token) /\ Len(g) \in Nat
      /\ g[1] = "Host" /\ g[2] = Colon /\ g[3] = SP /\ g[4] = "localhost"
      /\ Len(g) = 4 \/ (Len(g) = 5 /\ g[5] = CR)
  BY DEF Shows
<1>2. \A i \in Starts(g, {SP}) : i = 1 \/ i = 4
  <2> SUFFICES ASSUME NEW i \in Starts(g, {SP}), i # 1
               PROVE  i = 4
    OBVIOUS
  <2>1. i \in 1 .. Len(g) /\ g[i] # SP /\ g[i - 1] = SP
    BY <1>1, StartsBound DEF Starts
  <2> QED
    BY <1>1, <2>1, TokensDiffer
<1>3. Cardinality(Starts(g, {SP})) < 3
  BY <1>2, FewWords
<1>5. /\ 2 \in 1 .. Len(g) /\ g[2] = Colon
      /\ \A j \in 1 .. 2 - 1 : g[j] # Colon
  BY <1>1, TokensDiffer
<1>6. \A key : HasKey(g, key) <=> 2 = 2 /\ g[1] = key
  BY <1>1, <1>5, KeyIs
<1>7. InkAt(g, 2, 4, 4)
  BY <1>1, <1>5, TokensDiffer DEF InkAt
<1>9. Value(g) = SubSeq(g, 4, 4)
  <2>1. g \in Seq(Token) /\ 2 \in 1 .. Len(g) /\ 4 \in Int
    BY <1>1, <1>5
  <2> QED
    BY <1>7, <2>1, ValueIs
<1>8. Value(g) = <<"localhost">>
  BY <1>1, <1>9, OneToken
<1> QED
  BY <1>1, <1>3, <1>6, <1>8 DEF Gives

LEMMA PortLine ==
    ASSUME NEW g, Shows(g, <<"Host", Colon, "ip", Colon, "port", SP>>)
    PROVE  /\ Cardinality(Starts(g, {SP})) < 3
           /\ Gives(g, {<<"ip", Colon, "port">>}, {})
<1>1. /\ g \in Seq(Token) /\ Len(g) \in Nat
      /\ g[1] = "Host" /\ g[2] = Colon /\ g[3] = "ip" /\ g[4] = Colon
      /\ g[5] = "port" /\ g[6] = SP
      /\ Len(g) = 6 \/ (Len(g) = 7 /\ g[7] = CR)
  BY DEF Shows
<1>2. \A i \in Starts(g, {SP}) : i = 1 \/ i = 7
  <2> SUFFICES ASSUME NEW i \in Starts(g, {SP}), i # 1
               PROVE  i = 7
    OBVIOUS
  <2>1. i \in 1 .. Len(g) /\ g[i] # SP /\ g[i - 1] = SP
    BY <1>1, StartsBound DEF Starts
  <2> QED
    BY <1>1, <2>1, TokensDiffer
<1>3. Cardinality(Starts(g, {SP})) < 3
  BY <1>2, FewWords
<1>5. /\ 2 \in 1 .. Len(g) /\ g[2] = Colon
      /\ \A j \in 1 .. 2 - 1 : g[j] # Colon
  BY <1>1, TokensDiffer
<1>6. \A key : HasKey(g, key) <=> 2 = 2 /\ g[1] = key
  BY <1>1, <1>5, KeyIs
<1>7. InkAt(g, 2, 3, 5)
  <2>1. /\ 3 \in 2 + 1 .. 5 /\ 5 \in 3 .. Len(g)
        /\ g[3] \notin Blanks /\ g[5] \notin Blanks
    BY <1>1, TokensDiffer
  <2>2. \A j \in 5 + 1 .. Len(g) : g[j] \in Blanks
    BY <1>1, TokensDiffer
  <2> QED
    BY <1>5, <2>1, <2>2 DEF InkAt
<1>9. Value(g) = SubSeq(g, 3, 5)
  <2>1. g \in Seq(Token) /\ 2 \in 1 .. Len(g) /\ 3 \in Int /\ 5 \in Int
    BY <1>1, <1>5
  <2> QED
    BY <1>7, <2>1, ValueIs
<1>8. Value(g) = <<"ip", Colon, "port">>
  <2> DEFINE p == SubSeq(g, 3, 5)
             q == <<"ip", Colon, "port">>
  <2>1. 3 \in 1 .. Len(g) + 1 /\ 5 \in 0 .. Len(g) /\ 3 \in Int /\ 5 \in Int
    BY <1>1
  <2>2. /\ p \in Seq(Token) /\ Len(p) = 3
        /\ p[1] = g[3] /\ p[2] = g[4] /\ p[3] = g[5]
    BY <1>1, <2>1, PartIsSeq
  <2>3. /\ q \in Seq(Token) /\ Len(q) = 3
        /\ q[1] = "ip" /\ q[2] = Colon /\ q[3] = "port"
    BY DEF Token
  <2> HIDE DEF p, q
  <2>4. \A k \in 1 .. Len(p) : p[k] = q[k]
    BY <1>1, <2>2, <2>3
  <2>5. p = q
    BY <2>2, <2>3, <2>4, SeqEqual
  <2> QED
    BY <1>9, <2>5 DEF p, q
<1> QED
  BY <1>1, <1>3, <1>6, <1>8 DEF Gives

LEMMA SpacedLine ==
    ASSUME NEW g, Shows(g, <<"Host", SP, Colon, SP, "x">>)
    PROVE  /\ Asks(g, <<"Host", SP, Colon, SP, "x">>,
                   <<"UNKNOWN", Colon, "x">>)
           /\ Gives(g, {}, {})
<1>1. /\ g \in Seq(Token) /\ Len(g) \in Nat
      /\ g[1] = "Host" /\ g[2] = SP /\ g[3] = Colon /\ g[4] = SP
      /\ g[5] = "x"
      /\ Len(g) = 5 \/ (Len(g) = 6 /\ g[6] = CR)
  BY DEF Shows
<1>2. /\ 1 \in 1 .. Len(g) /\ 3 \in 1 .. Len(g) /\ 5 \in 1 .. Len(g)
      /\ WordsAt(g, 1, 3, 5)
  BY <1>1, TokensDiffer DEF WordsAt
<1>3. /\ ~(Cardinality(Starts(g, {SP})) < 3)
      /\ Word(g, 1) = <<g[1]>> /\ Word(g, 2) = <<g[3]>>
      /\ Word(g, 3) = IF 5 = Len(g) \/ g[5 + 1] = SP
                      THEN <<g[5]>> ELSE <<g[5], g[5 + 1]>>
  BY <1>1, <1>2, ThreeWords
<1>4. Asks(g, <<"Host", SP, Colon, SP, "x">>,
           <<"UNKNOWN", Colon, "x">>)
  BY <1>1, <1>3, TokensDiffer DEF Asks, Method
<1>5. /\ 3 \in 1 .. Len(g) /\ g[3] = Colon
      /\ \A j \in 1 .. 3 - 1 : g[j] # Colon
  BY <1>1, TokensDiffer
<1>6. \A key : HasKey(g, key) <=> 3 = 2 /\ g[1] = key
  BY <1>1, <1>5, KeyIs
<1> QED
  BY <1>1, <1>4, <1>6 DEF Gives

LEMMA NoHostLine ==
    ASSUME NEW g, Shows(g, <<"Host", Colon, SP>>)
    PROVE  /\ Cardinality(Starts(g, {SP})) < 3
           /\ Gives(g, {<<>>}, {})
<1>1. /\ g \in Seq(Token) /\ Len(g) \in Nat
      /\ g[1] = "Host" /\ g[2] = Colon /\ g[3] = SP
      /\ Len(g) = 3 \/ (Len(g) = 4 /\ g[4] = CR)
  BY DEF Shows
<1>2. \A i \in Starts(g, {SP}) : i = 1 \/ i = 4
  <2> SUFFICES ASSUME NEW i \in Starts(g, {SP}), i # 1
               PROVE  i = 4
    OBVIOUS
  <2>1. i \in 1 .. Len(g) /\ g[i] # SP /\ g[i - 1] = SP
    BY <1>1, StartsBound DEF Starts
  <2> QED
    BY <1>1, <2>1, TokensDiffer
<1>3. Cardinality(Starts(g, {SP})) < 3
  BY <1>2, FewWords
<1>5. /\ 2 \in 1 .. Len(g) /\ g[2] = Colon
      /\ \A j \in 1 .. 2 - 1 : g[j] # Colon
  BY <1>1, TokensDiffer
<1>6. \A key : HasKey(g, key) <=> 2 = 2 /\ g[1] = key
  BY <1>1, <1>5, KeyIs
<1>7. \A j \in 2 + 1 .. Len(g) : g[j] \in Blanks
  BY <1>1, TokensDiffer
<1>8. Value(g) = <<>>
  BY <1>1, <1>5, <1>7, EmptyValue
<1> QED
  BY <1>1, <1>3, <1>6, <1>8 DEF Gives

LEMMA TwoLine ==
    ASSUME NEW g, Shows(g, <<"Content-Length", Colon, SP, "2">>)
    PROVE  /\ Cardinality(Starts(g, {SP})) < 3
           /\ Gives(g, {}, {"2"})
<1>1. /\ g \in Seq(Token) /\ Len(g) \in Nat
      /\ g[1] = "Content-Length" /\ g[2] = Colon /\ g[3] = SP /\ g[4] = "2"
      /\ Len(g) = 4 \/ (Len(g) = 5 /\ g[5] = CR)
  BY DEF Shows
<1>2. \A i \in Starts(g, {SP}) : i = 1 \/ i = 4
  <2> SUFFICES ASSUME NEW i \in Starts(g, {SP}), i # 1
               PROVE  i = 4
    OBVIOUS
  <2>1. i \in 1 .. Len(g) /\ g[i] # SP /\ g[i - 1] = SP
    BY <1>1, StartsBound DEF Starts
  <2> QED
    BY <1>1, <2>1, TokensDiffer
<1>3. Cardinality(Starts(g, {SP})) < 3
  BY <1>2, FewWords
<1>5. /\ 2 \in 1 .. Len(g) /\ g[2] = Colon
      /\ \A j \in 1 .. 2 - 1 : g[j] # Colon
  BY <1>1, TokensDiffer
<1>6. \A key : HasKey(g, key) <=> 2 = 2 /\ g[1] = key
  BY <1>1, <1>5, KeyIs
<1>7. InkAt(g, 2, 4, 4)
  BY <1>1, <1>5, TokensDiffer DEF InkAt
<1>9. Value(g) = SubSeq(g, 4, 4)
  <2>1. g \in Seq(Token) /\ 2 \in 1 .. Len(g) /\ 4 \in Int
    BY <1>1, <1>5
  <2> QED
    BY <1>7, <2>1, ValueIs
<1>8. Value(g) = <<"2">>
  BY <1>1, <1>9, OneToken
<1>10. Number(Value(g)) = "2"
  BY <1>8 DEF Number, Numbers
<1> QED
  BY <1>1, <1>3, <1>6, <1>10 DEF Gives

LEMMA NoNumberLine ==
    ASSUME NEW g, Shows(g, <<"Content-Length", Colon, "x">>)
    PROVE  /\ Cardinality(Starts(g, {SP})) < 3
           /\ Gives(g, {}, {"0"})
<1>1. /\ g \in Seq(Token) /\ Len(g) \in Nat
      /\ g[1] = "Content-Length" /\ g[2] = Colon /\ g[3] = "x"
      /\ Len(g) = 3 \/ (Len(g) = 4 /\ g[4] = CR)
  BY DEF Shows
<1>2. \A i \in Starts(g, {SP}) : i = 1
  <2> SUFFICES ASSUME NEW i \in Starts(g, {SP}), i # 1 PROVE FALSE
    OBVIOUS
  <2>1. i \in 1 .. Len(g) /\ g[i] # SP /\ g[i - 1] = SP
    BY <1>1, StartsBound DEF Starts
  <2> QED
    BY <1>1, <2>1, TokensDiffer
<1>3. Cardinality(Starts(g, {SP})) < 3
  BY <1>2, FewWords
<1>5. /\ 2 \in 1 .. Len(g) /\ g[2] = Colon
      /\ \A j \in 1 .. 2 - 1 : g[j] # Colon
  BY <1>1, TokensDiffer
<1>6. \A key : HasKey(g, key) <=> 2 = 2 /\ g[1] = key
  BY <1>1, <1>5, KeyIs
<1>7. InkAt(g, 2, 3, 3)
  BY <1>1, <1>5, TokensDiffer DEF InkAt
<1>9. Value(g) = SubSeq(g, 3, 3)
  <2>1. g \in Seq(Token) /\ 2 \in 1 .. Len(g) /\ 3 \in Int
    BY <1>1, <1>5
  <2> QED
    BY <1>7, <2>1, ValueIs
<1>8. Value(g) = <<"x">>
  BY <1>1, <1>9, OneToken
<1>10. Number(Value(g)) = "0"
  BY <1>8 DEF Number, Numbers
<1> QED
  BY <1>1, <1>3, <1>6, <1>10 DEF Gives

LEMMA OtherLine ==
    ASSUME NEW g, Shows(g, <<"x", Colon, SP, "Host">>)
    PROVE  /\ Cardinality(Starts(g, {SP})) < 3
           /\ Gives(g, {}, {})
<1>1. /\ g \in Seq(Token) /\ Len(g) \in Nat
      /\ g[1] = "x" /\ g[2] = Colon /\ g[3] = SP /\ g[4] = "Host"
      /\ Len(g) = 4 \/ (Len(g) = 5 /\ g[5] = CR)
  BY DEF Shows
<1>2. \A i \in Starts(g, {SP}) : i = 1 \/ i = 4
  <2> SUFFICES ASSUME NEW i \in Starts(g, {SP}), i # 1
               PROVE  i = 4
    OBVIOUS
  <2>1. i \in 1 .. Len(g) /\ g[i] # SP /\ g[i - 1] = SP
    BY <1>1, StartsBound DEF Starts
  <2> QED
    BY <1>1, <2>1, TokensDiffer
<1>3. Cardinality(Starts(g, {SP})) < 3
  BY <1>2, FewWords
<1>5. /\ 2 \in 1 .. Len(g) /\ g[2] = Colon
      /\ \A j \in 1 .. 2 - 1 : g[j] # Colon
  BY <1>1, TokensDiffer
<1>6. \A key : HasKey(g, key) <=> 2 = 2 /\ g[1] = key
  BY <1>1, <1>5, KeyIs
<1> QED
  BY <1>1, <1>3, <1>6 DEF Gives

LEMMA WordLine ==
    ASSUME NEW g, Shows(g, <<"x">>)
    PROVE  /\ Cardinality(Starts(g, {SP})) < 3
           /\ Gives(g, {}, {})
<1>1. /\ g \in Seq(Token) /\ Len(g) \in Nat
      /\ g[1] = "x"
      /\ Len(g) = 1 \/ (Len(g) = 2 /\ g[2] = CR)
  BY DEF Shows
<1>2. \A i \in Starts(g, {SP}) : i = 1
  <2> SUFFICES ASSUME NEW i \in Starts(g, {SP}), i # 1 PROVE FALSE
    OBVIOUS
  <2>1. i \in 1 .. Len(g) /\ g[i] # SP /\ g[i - 1] = SP
    BY <1>1, StartsBound DEF Starts
  <2> QED
    BY <1>1, <2>1, TokensDiffer
<1>3. Cardinality(Starts(g, {SP})) < 3
  BY <1>2, FewWords
<1>5. \A j \in 1 .. Len(g) : g[j] # Colon
  BY <1>1, TokensDiffer
<1>6. ~HasKey(g, "Host") /\ ~HasKey(g, "Content-Length")
  BY <1>1, <1>5, NoKey
<1> QED
  BY <1>3, <1>6 DEF Gives

\* What the parsers see of a line has the words and gives the headers that the
\* tables say.
LineSeen(g, l) ==
    /\ IF WordsOf[l] = <<>> THEN Cardinality(Starts(g, {SP})) < 3
       ELSE Asks(g, Cut(l), WordsOf[l])
    /\ Gives(g, HostOf[l], LengthOf[l])

LEMMA TextsDiffer ==
    SP # Colon /\ SP # NUL /\ Colon # NUL
    /\ \A t \in {"GET", "HEAD", "POST", "Host", "Content-Length", "localhost",
                 "ip", "x", "2"} : t # SP /\ t # Colon /\ t # NUL
BY DEF SP, Colon, NUL

LEMMA LineIsSeen ==
    ASSUME NEW l \in AnyLine, NEW g, Shows(g, Cut(l))
    PROVE  LineSeen(g, l)
<1>1. CASE l = <<"GET", SP, "/f", SP, "HTTP/1.1">>
  <2>1. Cut(l) = <<"GET", SP, "/f", SP, "HTTP/1.1">>
    BY <1>1, TextsDiffer DEF Cut
  <2>2. WordsOf[l] = <<"GET", "/f", "HTTP/1.1">>
    BY <1>1, TextsDiffer DEF WordsOf
  <2>3. HostOf[l] = {}
    BY <1>1, TextsDiffer DEF HostOf
  <2>4. LengthOf[l] = {}
    BY <1>1, TextsDiffer DEF LengthOf
  <2> QED
    BY <2>1, <2>2, <2>3, <2>4, GetLine DEF LineSeen
<1>2. CASE l = <<SP, "HEAD", SP, SP, "/f", SP, "HTTP/1.1">>
  <2>1. Cut(l) = <<SP, "HEAD", SP, SP, "/f", SP, "HTTP/1.1">>
    BY <1>2, TextsDiffer DEF Cut
  <2>2. WordsOf[l] = <<"HEAD", "/f", "HTTP/1.1">>
    BY <1>2, TextsDiffer DEF WordsOf
  <2>3. HostOf[l] = {}
    BY <1>2, TextsDiffer DEF HostOf
  <2>4. LengthOf[l] = {}
    BY <1>2, TextsDiffer DEF LengthOf
  <2> QED
    BY <2>1, <2>2, <2>3, <2>4, HeadLine DEF LineSeen
<1>3. CASE l = <<"POST", SP, "/f", SP, "HTTP/1.0", SP, "x">>
  <2>1. Cut(l) = <<"POST", SP, "/f", SP, "HTTP/1.0", SP, "x">>
    BY <1>3, TextsDiffer DEF Cut
  <2>2. WordsOf[l] = <<"UNKNOWN", "/f", "HTTP/1.0">>
    BY <1>3, TextsDiffer DEF WordsOf
  <2>3. HostOf[l] = {}
    BY <1>3, TextsDiffer DEF HostOf
  <2>4. LengthOf[l] = {}
    BY <1>3, TextsDiffer DEF LengthOf
  <2> QED
    BY <2>1, <2>2, <2>3, <2>4, PostLine DEF LineSeen
<1>4. CASE l = <<"GET", SP, "/f">>
  <2>1. Cut(l) = <<"GET", SP, "/f">>
    BY <1>4, TextsDiffer DEF Cut
  <2>2. WordsOf[l] = <<>>
    BY <1>4, TextsDiffer DEF WordsOf
  <2>3. HostOf[l] = {}
    BY <1>4, TextsDiffer DEF HostOf
  <2>4. LengthOf[l] = {}
    BY <1>4, TextsDiffer DEF LengthOf
  <2> QED
    BY <2>1, <2>2, <2>3, <2>4, ShortLine DEF LineSeen
<1>5. CASE l = <<>>
  <2>1. Cut(l) = <<>>
    BY <1>5, TextsDiffer DEF Cut
  <2>2. WordsOf[l] = <<>>
    BY <1>5, TextsDiffer DEF WordsOf
  <2>3. HostOf[l] = {}
    BY <1>5, TextsDiffer DEF HostOf
  <2>4. LengthOf[l] = {}
    BY <1>5, TextsDiffer DEF LengthOf
  <2> QED
    BY <2>1, <2>2, <2>3, <2>4, EmptyLine DEF LineSeen
<1>6. CASE l = <<"Host", Colon, SP, "localhost">>
  <2>1. Cut(l) = <<"Host", Colon, SP, "localhost">>
    BY <1>6, TextsDiffer DEF Cut
  <2>2. WordsOf[l] = <<>>
    BY <1>6, TextsDiffer DEF WordsOf
  <2>3. HostOf[l] = {<<"localhost">>}
    BY <1>6, TextsDiffer DEF HostOf
  <2>4. LengthOf[l] = {}
    BY <1>6, TextsDiffer DEF LengthOf
  <2> QED
    BY <2>1, <2>2, <2>3, <2>4, LocalLine DEF LineSeen
<1>7. CASE l = <<"Host", Colon, "ip", Colon, "port", SP>>
  <2>1. Cut(l) = <<"Host", Colon, "ip", Colon, "port", SP>>
    BY <1>7, TextsDiffer DEF Cut
  <2>2. WordsOf[l] = <<>>
    BY <1>7, TextsDiffer DEF WordsOf
  <2>3. HostOf[l] = {<<"ip", Colon, "port">>}
    BY <1>7, TextsDiffer DEF HostOf
  <2>4. LengthOf[l] = {}
    BY <1>7, TextsDiffer DEF LengthOf
  <2> QED
    BY <2>1, <2>2, <2>3, <2>4, PortLine DEF LineSeen
<1>8. CASE l = <<"Host", SP, Colon, SP, "x">>
  <2>1. Cut(l) = <<"Host", SP, Colon, SP, "x">>
    BY <1>8, TextsDiffer DEF Cut
  <2>2. WordsOf[l] = <<"UNKNOWN", Colon, "x">>
    BY <1>8, TextsDiffer DEF WordsOf
  <2>3. HostOf[l] = {}
    BY <1>8, TextsDiffer DEF HostOf
  <2>4. LengthOf[l] = {}
    BY <1>8, TextsDiffer DEF LengthOf
  <2> QED
    BY <2>1, <2>2, <2>3, <2>4, SpacedLine DEF LineSeen
<1>9. CASE l = <<"Host", Colon, SP>>
  <2>1. Cut(l) = <<"Host", Colon, SP>>
    BY <1>9, TextsDiffer DEF Cut
  <2>2. WordsOf[l] = <<>>
    BY <1>9, TextsDiffer DEF WordsOf
  <2>3. HostOf[l] = {<<>>}
    BY <1>9, TextsDiffer DEF HostOf
  <2>4. LengthOf[l] = {}
    BY <1>9, TextsDiffer DEF LengthOf
  <2> QED
    BY <2>1, <2>2, <2>3, <2>4, NoHostLine DEF LineSeen
<1>10. CASE l = <<"Content-Length", Colon, SP, "2">>
  <2>1. Cut(l) = <<"Content-Length", Colon, SP, "2">>
    BY <1>10, TextsDiffer DEF Cut
  <2>2. WordsOf[l] = <<>>
    BY <1>10, TextsDiffer DEF WordsOf
  <2>3. HostOf[l] = {}
    BY <1>10, TextsDiffer DEF HostOf
  <2>4. LengthOf[l] = {"2"}
    BY <1>10, TextsDiffer DEF LengthOf
  <2> QED
    BY <2>1, <2>2, <2>3, <2>4, TwoLine DEF LineSeen
<1>11. CASE l = <<"Content-Length", Colon, "x">>
  <2>1. Cut(l) = <<"Content-Length", Colon, "x">>
    BY <1>11, TextsDiffer DEF Cut
  <2>2. WordsOf[l] = <<>>
    BY <1>11, TextsDiffer DEF WordsOf
  <2>3. HostOf[l] = {}
    BY <1>11, TextsDiffer DEF HostOf
  <2>4. LengthOf[l] = {"0"}
    BY <1>11, TextsDiffer DEF LengthOf
  <2> QED
    BY <2>1, <2>2, <2>3, <2>4, NoNumberLine DEF LineSeen
<1>12. CASE l = <<"x", Colon, SP, "Host">>
  <2>1. Cut(l) = <<"x", Colon, SP, "Host">>
    BY <1>12, TextsDiffer DEF Cut
  <2>2. WordsOf[l] = <<>>
    BY <1>12, TextsDiffer DEF WordsOf
  <2>3. HostOf[l] = {}
    BY <1>12, TextsDiffer DEF HostOf
  <2>4. LengthOf[l] = {}
    BY <1>12, TextsDiffer DEF LengthOf
  <2> QED
    BY <2>1, <2>2, <2>3, <2>4, OtherLine DEF LineSeen
<1>13. CASE l = <<"x">>
  <2>1. Cut(l) = <<"x">>
    BY <1>13, TextsDiffer DEF Cut
  <2>2. WordsOf[l] = <<>>
    BY <1>13, TextsDiffer DEF WordsOf
  <2>3. HostOf[l] = {}
    BY <1>13, TextsDiffer DEF HostOf
  <2>4. LengthOf[l] = {}
    BY <1>13, TextsDiffer DEF LengthOf
  <2> QED
    BY <2>1, <2>2, <2>3, <2>4, WordLine DEF LineSeen
<1>14. CASE l = <<"Host", Colon, SP, NUL, "x">>
  <2>1. Cut(l) = <<"Host", Colon, SP>>
    BY <1>14, TextsDiffer DEF Cut
  <2>2. WordsOf[l] = <<>>
    BY <1>14, TextsDiffer DEF WordsOf
  <2>3. HostOf[l] = {<<>>}
    BY <1>14, TextsDiffer DEF HostOf
  <2>4. LengthOf[l] = {}
    BY <1>14, TextsDiffer DEF LengthOf
  <2> QED
    BY <2>1, <2>2, <2>3, <2>4, NoHostLine DEF LineSeen
<1> QED
  BY <1>1, <1>2, <1>3, <1>4, <1>5, <1>6, <1>7, <1>8, <1>9, <1>10, <1>11,
     <1>12, <1>13, <1>14 DEF AnyLine, RequestLines, OtherLines

\* What a copy that cuts lines at D keeps of the end of a line, and sees of a
\* line.
Kept(e, D) == IF e = <<CR, LF>> /\ CR \notin D THEN <<CR>> ELSE <<>>
Shown(l, e, D) == CString(l \o Kept(e, D))

LEMMA CutLine ==
    ASSUME NEW l \in AnyLine
    PROVE  /\ CString(l) = Cut(l) /\ (~HasNul(l) => Cut(l) = l)
           /\ Cut(l) = <<>> <=> l = <<>>
           /\ \A i \in 1 .. Len(Cut(l)) : Cut(l)[i] \notin {CR, LF}
<1>1. CASE l = <<"Host", Colon, SP, NUL, "x">>
  <2>1. /\ l \in Seq(Token) /\ Len(l) = 5 /\ l[4] = NUL
        /\ l[1] # NUL /\ l[2] # NUL /\ l[3] # NUL
    BY <1>1, LinesAreTexts, TextsDiffer
  <2>2. IndexOf(l, NUL) = 4
    BY <2>1, IndexIs
  <2>3. CString(l) = SubSeq(l, 1, 3)
    BY <2>2 DEF CString
  <2>4. SubSeq(l, 1, 3) = <<"Host", Colon, SP>>
    <3> DEFINE p == SubSeq(l, 1, 3)
               q == <<"Host", Colon, SP>>
    <3>6. /\ 1 \in 1 .. Len(l) + 1 /\ 3 \in 0 .. Len(l)
          /\ l \in Seq(Token) /\ Len(l) = 5
      BY <2>1
    <3>7. p \in Seq(Token)
      BY <3>6, PartIsSeq
    <3>1. p \in Seq(Token) /\ Len(p) = 3 /\ p[1] = l[1] /\ p[2] = l[2]
          /\ p[3] = l[3]
      BY <3>6, <3>7
    <3>2. q \in Seq(Token) /\ Len(q) = 3 /\ q[1] = "Host" /\ q[2] = Colon
          /\ q[3] = SP
      BY DEF Token
    <3>3. l[1] = "Host" /\ l[2] = Colon /\ l[3] = SP
      BY <1>1
    <3> HIDE DEF p, q
    <3>4. \A i \in 1 .. Len(p) : p[i] = q[i]
      BY <3>1, <3>2, <3>3
    <3>5. p = q
      BY <3>1, <3>2, <3>4, SeqEqual
    <3> QED
      BY <3>5 DEF p, q
  <2>5. HasNul(l)
    BY <2>1 DEF HasNul
  <2>6. Cut(l) = <<"Host", Colon, SP>>
    BY <1>1 DEF Cut
  <2> QED
    BY <1>1, <2>3, <2>4, <2>5, <2>6 DEF CR, LF, Colon, SP
<1>2. CASE l # <<"Host", Colon, SP, NUL, "x">>
  <2>1. /\ l \in Seq(Token) /\ ~HasNul(l)
        /\ \A i \in 1 .. Len(l) : l[i] \notin {CR, LF}
    BY <1>2, LinesAreTexts DEF HasNul
  <2>2. CString(l) = l
    BY <2>1, WholeCString
  <2> QED
    BY <1>2, <2>1, <2>2 DEF Cut
<1> QED
  BY <1>1, <1>2

\* The end of a line is the part that is kept and tokens of D.
LEMMA EndIs ==
    ASSUME NEW e \in {<<LF>>, <<CR, LF>>}, NEW D \in {{LF}, {CR, LF}}
    PROVE  /\ Kept(e, D) \in {<<>>, <<CR>>}
           /\ Kept(e, D) = <<CR>> => CR \notin D
           /\ \E w \in Seq(Token) : /\ e = Kept(e, D) \o w
                                    /\ \A i \in 1 .. Len(w) : w[i] \in D
<1>1. LF \in Token /\ CR \in Token /\ LF # CR
  BY DEF Token, LF, CR
<1>2. CASE Kept(e, D) = <<>>
  <2>1. e \in Seq(Token)
    BY EndsAreTexts
  <2>2. <<>> \o e = e
    BY <2>1
  <2>3. \A i \in 1 .. Len(e) : e[i] \in D
    <3>1. CASE e = <<LF>>
      BY <3>1
    <3>2. CASE e = <<CR, LF>>
      <4>1. CR \in D /\ LF \in D
        BY <1>2, <3>2 DEF Kept
      <4> QED
        BY <3>2, <4>1
    <3> QED
      BY <3>1, <3>2
  <2> QED
    BY <1>2, <2>1, <2>2, <2>3
<1>3. CASE Kept(e, D) # <<>>
  <2>1. e = <<CR, LF>> /\ CR \notin D /\ Kept(e, D) = <<CR>> /\ LF \in D
    BY <1>3 DEF Kept
  <2>4. <<LF>> \in Seq(Token) /\ <<CR>> \in Seq(Token)
    BY <1>1
  <2>2. <<CR, LF>> = <<CR>> \o <<LF>>
    BY TwoTokens
  <2>3. \A i \in 1 .. Len(<<LF>>) : <<LF>>[i] \in D
    BY <2>1
  <2> QED
    BY <2>1, <2>2, <2>3, <2>4
<1> QED
  BY <1>2, <1>3

\* A line and its end are one field, or none.
LEMMA ShownLine ==
    ASSUME NEW l \in AnyLine, NEW e \in {<<LF>>, <<CR, LF>>},
           NEW D \in {{LF}, {CR, LF}}
    PROVE  LET f == Shown(l, e, D)
               v == CString(l \o e)
           IN  /\ f \in Seq(Token) /\ Shows(f, Cut(l))
               /\ Kept(e, D) = <<>> => f = Cut(l)
               /\ f = <<>> => Starts(v, D) = {}
               /\ f # <<>> => Starts(v, D) = {1} /\ FieldAt(v, D, 1) = f
               /\ HasNul(l \o e) <=> HasNul(l)
<1> DEFINE k == Kept(e, D)
           f == Shown(l, e, D)
           v == CString(l \o e)
<1>14. (k = <<>> \/ (k = <<CR>> /\ CR \notin D)) /\ CR \in Token /\ CR # NUL
  BY EndIs DEF Token, CR, NUL
<1>2. PICK w \in Seq(Token) : e = k \o w /\ \A i \in 1 .. Len(w) : w[i] \in D
  BY EndIs
<1>15. f = CString(l \o k)
  BY DEF Shown
<1>16. v = CString(l \o e)
  OBVIOUS
<1>17. k = Kept(e, D)
  OBVIOUS
<1> HIDE DEF k, f, v
<1>1. /\ k \in Seq(Token) /\ (k = <<>> \/ k = <<CR>>)
      /\ \A i \in 1 .. Len(k) : k[i] = CR
  <2>1. CASE k = <<>>
    BY <2>1
  <2>2. CASE k = <<CR>>
    BY <1>14, <2>2
  <2> QED
    BY <1>14, <2>1, <2>2
<1>18. ~HasNul(k)
  BY <1>1, <1>14 DEF HasNul
<1>3. l \in Seq(Token)
  BY LinesAreTexts
<1>4. ~HasNul(w)
  <2>1. NUL \notin D
    BY DEF NUL, CR, LF
  <2> QED
    BY <1>2, <2>1 DEF HasNul
<1>5. l \o e = (l \o k) \o w /\ l \o k \in Seq(Token)
  <2>1. l \o (k \o w) = (l \o k) \o w
    BY <1>1, <1>3, ConcatAssociative
  <2>2. l \o k \in Seq(Token)
    BY <1>1, <1>3, ConcatProperties
  <2> QED
    BY <1>2, <2>1, <2>2
<1>6. f = CString(l \o k) /\ f \in Seq(Token)
  BY <1>5, <1>15, CStringIsSeq
<1>7. f = IF HasNul(l) THEN Cut(l) ELSE Cut(l) \o k
  <2>1. CString(l \o k) = IF HasNul(l) THEN CString(l) ELSE l \o CString(k)
    BY <1>1, <1>3, CStringOfConcat
  <2>2. CString(k) = k
    BY <1>1, <1>18, WholeCString
  <2> QED
    BY <1>15, <2>1, <2>2, CutLine
<1>8. Cut(l) \in Seq(Token)
  BY <1>3, CutLine, CStringIsSeq
<1>9. /\ k = <<>> => f = Cut(l)
      /\ f = Cut(l) \/ (k = <<CR>> /\ f = Cut(l) \o k)
  <2>1. Cut(l) \o <<>> = Cut(l)
    BY <1>8, ConcatEmptySeq
  <2> QED
    BY <1>1, <1>7, <2>1
<1>10. /\ Shows(f, Cut(l))
       /\ \A i \in 1 .. Len(f) : f[i] \notin D
  <2>1. CASE f = Cut(l)
    BY <1>6, <2>1, CutLine DEF Shows
  <2>2. CASE k = <<CR>> /\ f = Cut(l) \o k
    <3>1. /\ Len(f) = Len(Cut(l)) + 1 /\ Len(Cut(l)) \in Nat
          /\ \A i \in 1 .. Len(Cut(l)) + 1 :
               f[i] = IF i <= Len(Cut(l)) THEN Cut(l)[i]
                      ELSE k[i - Len(Cut(l))]
      <4>1. Len(k) = 1
        BY <2>2
      <4> QED
        BY <1>1, <1>8, <2>2, <4>1, ConcatProperties
    <3>2. /\ \A i \in 1 .. Len(Cut(l)) : f[i] = Cut(l)[i]
          /\ f[Len(Cut(l)) + 1] = CR
      <4>1. k[1] = CR /\ (Len(Cut(l)) + 1) - Len(Cut(l)) = 1
        BY <2>2, <3>1
      <4> QED
        BY <3>1, <4>1
    <3>3. CR \notin D
      BY <1>14, <2>2
    <3>4. ASSUME NEW i \in 1 .. Len(f) PROVE f[i] \notin D
      <4>1. i \in 1 .. Len(Cut(l)) \/ i = Len(Cut(l)) + 1
        BY <3>1
      <4>2. i \in 1 .. Len(Cut(l)) => f[i] \notin {CR, LF}
        BY <3>2, CutLine
      <4> QED
        BY <3>2, <3>3, <4>1, <4>2
    <3> QED
      BY <1>6, <3>1, <3>2, <3>4 DEF Shows
  <2> QED
    BY <1>9, <2>1, <2>2
<1>11. \E x \in Seq(Token) : v = f \o x /\ \A i \in 1 .. Len(x) : x[i] \in D
  <2>1. CASE HasNul(l \o k)
    <3>3. v = CString(l \o k)
      BY <1>5, <1>16, <2>1, CStringOfConcat
    <3>1. v = f /\ f \o <<>> = f
      BY <1>6, <3>3, ConcatEmptySeq
    <3>2. <<>> \in Seq(Token) /\ \A i \in 1 .. Len(<<>>) : <<>>[i] \in D
      OBVIOUS
    <3> QED
      BY <3>1, <3>2
  <2>2. CASE ~HasNul(l \o k)
    <3>2. v = (l \o k) \o CString(w)
      BY <1>5, <1>16, <2>2, CStringOfConcat
    <3>1. v = (l \o k) \o CString(w) /\ CString(w) = w /\ f = l \o k
      BY <1>4, <1>5, <1>6, <2>2, <3>2, WholeCString
    <3> QED
      BY <1>2, <3>1
  <2> QED
    BY <2>1, <2>2
<1>12. /\ f = <<>> => Starts(v, D) = {}
       /\ f # <<>> => Starts(v, D) = {1} /\ FieldAt(v, D, 1) = f
  <2>3. PICK x \in Seq(Token) :
               v = f \o x /\ \A i \in 1 .. Len(x) : x[i] \in D
    BY <1>11
  <2>4. \A i \in 1 .. Len(x) : x[i] \in D
    BY <2>3
  <2>5. v = f \o x
    BY <2>3
  <2>1. \A i \in 1 .. Len(f) : f[i] \notin D
    BY <1>10
  <2>2. /\ f = <<>> => Starts(f \o x, D) = {}
        /\ f # <<>> => Starts(f \o x, D) = {1} /\ FieldAt(f \o x, D, 1) = f
    BY <1>6, <2>1, <2>4, OneField
  <2> QED
    BY <2>2, <2>5
<1>13. HasNul(l \o e) <=> HasNul(l)
  <2>1. HasNul(l \o e) <=> HasNul(l \o k) \/ HasNul(w)
    BY <1>5, NulInConcat
  <2>2. HasNul(l \o k) <=> HasNul(l) \/ HasNul(k)
    BY <1>1, <1>3, NulInConcat
  <2> QED
    BY <1>4, <1>18, <2>1, <2>2
<1> QED
  BY <1>6, <1>9, <1>10, <1>12, <1>13, <1>17 DEF f, v

-----------------------------------------------------------------------------
(* The invariant.                                                          *)

\* The first line it sees is the first that is not empty for it.
Leads(i, D) ==
    /\ i \in DOMAIN lines /\ Shown(lines[i], eol, D) # <<>>
    /\ \A j \in 1 .. i - 1 : Shown(lines[j], eol, D) = <<>>
FirstInv(D) ==
    LET c == CString(text)
    IN  /\ Starts(c, D) = {} =>
             \A i \in DOMAIN lines : Shown(lines[i], eol, D) = <<>>
        /\ Starts(c, D) # {} =>
             \E i \in DOMAIN lines :
                Leads(i, D) /\ FirstLine(c, D) = Shown(lines[i], eol, D)

\* The text holds a NUL when a line does.
NulInv == HasNul(text) <=> \E i \in DOMAIN lines : HasNul(lines[i])

\* The last header of each name is that of the last line that gives one.
HeaderInv(D) ==
    LET host == LastHeader(CString(text), D, "Host")
        length == LastHeader(CString(text), D, "Content-Length")
    IN  /\ IF host = Null THEN NoneGives(HostOf)
           ELSE LastGives(HostOf, host)
        /\ IF length = Null THEN NoneGives(LengthOf)
           ELSE LastGives(LengthOf, Number(length))

\* Both copies read the same host, unless an empty line comes first.
SameHost ==
    lines # <<>> /\ lines[1] # <<>> =>
        LastHeader(CString(text), LineDelims, "Host")
            = LastHeader(CString(text), {CR, LF}, "Host")

\* All of it.
ReadInv ==
    /\ TextInv
    /\ lines \in Seq(AnyLine)
    /\ NulInv
    /\ FirstInv(LineDelims) /\ FirstInv({CR, LF})
    /\ Kept(eol, LineDelims) = <<>> => HeaderInv(LineDelims)
    /\ HeaderInv({CR, LF})
    /\ SameHost

LEMMA LinesNext ==
    ASSUME lines \in Seq(AnyLine), NEW l \in AnyLine, Line(l)
    PROVE  /\ lines' \in Seq(AnyLine) /\ Len(lines) \in Nat
           /\ Len(lines') = Len(lines) + 1
           /\ \A i \in 1 .. Len(lines) :
                 lines[i] \in AnyLine /\ lines'[i] = lines[i]
           /\ lines'[Len(lines) + 1] = l /\ eol' = eol
BY DEF Line

LEMMA NulStep ==
    ASSUME TextInv, lines \in Seq(AnyLine), NulInv, NEW l \in AnyLine, Line(l)
    PROVE  NulInv'
<1>1. HasNul(text') <=> HasNul(text) \/ HasNul(l)
  <2>3. text \in Seq(Token) /\ l \o eol \in Seq(Token)
        /\ text' = text \o (l \o eol)
    BY TextLine DEF TextInv
  <2>4. HasNul(text \o (l \o eol)) <=> HasNul(text) \/ HasNul(l \o eol)
    BY <2>3, NulInConcat
  <2>1. HasNul(text') <=> HasNul(text) \/ HasNul(l \o eol)
    BY <2>3, <2>4
  <2>2. HasNul(l \o eol) <=> HasNul(l)
    BY ShownLine DEF TextInv
  <2> QED
    BY <2>1, <2>2
<1>2. (\E i \in 1 .. Len(lines') : HasNul(lines'[i]))
        <=> (\E i \in 1 .. Len(lines) : HasNul(lines[i])) \/ HasNul(l)
  <2>1. \A i : i \in 1 .. Len(lines') <=>
                 i \in 1 .. Len(lines) \/ i = Len(lines) + 1
    BY LinesNext
  <2> QED
    BY <2>1, LinesNext
<1>3. DOMAIN lines = 1 .. Len(lines) /\ DOMAIN lines' = 1 .. Len(lines')
  BY LinesNext
<1>4. HasNul(text)' <=> HasNul(text')
  BY DEF HasNul
<1>5. (\E i \in DOMAIN lines : HasNul(lines[i]))'
        <=> \E i \in DOMAIN lines' : HasNul(lines'[i])
  BY DEF HasNul
<1> QED
  BY <1>1, <1>2, <1>3, <1>4, <1>5 DEF NulInv

\* What the parsers read of the longer text.
LEMMA TextStep ==
    ASSUME TextInv, NEW l \in AnyLine, Line(l), NEW D \in {{LF}, {CR, LF}}
    PROVE  /\ text \in Seq(Token) /\ Complete(text, D)
           /\ CString(l \o eol) \in Seq(Token)
           /\ CString(text') = IF HasNul(text) THEN CString(text)
                               ELSE text \o CString(l \o eol)
           /\ ~HasNul(text) => CString(text) = text
           /\ eol \in {<<LF>>, <<CR, LF>>}
<1>1. /\ text \in Seq(Token) /\ l \o eol \in Seq(Token)
      /\ text' = text \o (l \o eol) /\ eol \in {<<LF>>, <<CR, LF>>}
  BY TextLine DEF TextInv
<1>2. text = <<>> \/ text[Len(text)] = LF
  BY DEF TextInv
<1>3. Complete(text, D)
  <2>1. LF \in D
    OBVIOUS
  <2> QED
    BY <1>2, <2>1 DEF Complete
<1>4. CString(l \o eol) \in Seq(Token)
  BY <1>1, CStringIsSeq
<1>5. CString(text \o (l \o eol)) = IF HasNul(text) THEN CString(text)
                                    ELSE text \o CString(l \o eol)
  BY <1>1, CStringOfConcat
<1>6. ~HasNul(text) => CString(text) = text
  BY <1>1, WholeCString
<1>7. CString(text') = CString(text \o (l \o eol))
  BY <1>1
<1> QED
  BY <1>1, <1>3, <1>4, <1>5, <1>6, <1>7

\* A line that is not empty shows something.
LEMMA ShownIsEmpty ==
    ASSUME NEW l \in AnyLine, NEW e \in {<<LF>>, <<CR, LF>>},
           NEW D \in {{LF}, {CR, LF}}, Shown(l, e, D) = <<>>
    PROVE  l = <<>>
<1>1. Shows(<<>>, Cut(l))
  BY ShownLine
<1>2. l \in Seq(Token)
  BY LinesAreTexts
<1>3. Cut(l) \in Seq(Token)
  BY <1>2, CutLine, CStringIsSeq
<1>4. Len(Cut(l)) = 0
  <2>1. Len(Cut(l)) \in Nat /\ Len(<<>>) = 0
    BY <1>3
  <2> QED
    BY <1>1, <2>1 DEF Shows
<1>5. Cut(l) = <<>>
  BY <1>3, <1>4
<1> QED
  BY <1>5, CutLine

LEMMA LeadsStays ==
    ASSUME TextInv, lines \in Seq(AnyLine), NEW l \in AnyLine, Line(l),
           NEW D, NEW i, Leads(i, D)
    PROVE  /\ Leads(i, D)'
           /\ Shown(lines[i], eol, D)' = Shown(lines[i], eol, D)
<1>1. i \in 1 .. Len(lines) /\ i \in 1 .. Len(lines')
      /\ DOMAIN lines = 1 .. Len(lines) /\ DOMAIN lines' = 1 .. Len(lines')
  BY LinesNext DEF Leads
<1>2. lines'[i] = lines[i] /\ \A j \in 1 .. i - 1 : lines'[j] = lines[j]
  <2>1. Len(lines) \in Nat /\ \A j \in 1 .. Len(lines) : lines'[j] = lines[j]
    BY LinesNext
  <2>2. i \in 1 .. Len(lines)
    BY <1>1
  <2>3. \A j \in 1 .. i - 1 : j \in 1 .. Len(lines)
    BY <2>1, <2>2
  <2> QED
    BY <2>1, <2>2, <2>3
<1>3. /\ Shown(lines'[i], eol', D) = Shown(lines[i], eol, D)
      /\ \A j \in 1 .. i - 1 :
            Shown(lines'[j], eol', D) = Shown(lines[j], eol, D)
  BY <1>2, LinesNext
<1> QED
  BY <1>1, <1>3 DEF Leads

LEMMA FirstStep ==
    ASSUME TextInv, lines \in Seq(AnyLine), NulInv,
           NEW D \in {{LF}, {CR, LF}}, FirstInv(D),
           NEW l \in AnyLine, Line(l)
    PROVE  FirstInv(D)'
<1> DEFINE c == CString(text)
           d == CString(text')
           v == CString(l \o eol)
           f == Shown(l, eol, D)
           n == Len(lines)
<1>1. /\ text \in Seq(Token) /\ Complete(text, D) /\ v \in Seq(Token)
      /\ d = IF HasNul(text) THEN c ELSE text \o v
      /\ ~HasNul(text) => c = text
      /\ eol \in {<<LF>>, <<CR, LF>>}
  BY TextStep
<1>9. eol \in {<<LF>>, <<CR, LF>>}
  BY <1>1
<1>2. /\ f = <<>> => Starts(v, D) = {}
      /\ f # <<>> => Starts(v, D) = {1} /\ FieldAt(v, D, 1) = f
  BY <1>9, ShownLine
<1>3. /\ Starts(c, D) = {} => \A i \in DOMAIN lines :
                                 Shown(lines[i], eol, D) = <<>>
      /\ Starts(c, D) # {} =>
           \E i \in DOMAIN lines :
              Leads(i, D) /\ FirstLine(c, D) = Shown(lines[i], eol, D)
  BY DEF FirstInv
<1>4. SUFFICES
        /\ Starts(d, D) = {} => \A i \in DOMAIN lines' :
                                   Shown(lines'[i], eol', D) = <<>>
        /\ Starts(d, D) # {} =>
             \E i \in DOMAIN lines' :
                Leads(i, D)' /\ FirstLine(d, D) = Shown(lines'[i], eol', D)
  BY DEF FirstInv
<1>5. /\ DOMAIN lines = 1 .. n /\ DOMAIN lines' = 1 .. n + 1 /\ n \in Nat
      /\ \A i \in 1 .. n : lines'[i] = lines[i] /\ lines[i] \in AnyLine
      /\ lines'[n + 1] = l /\ eol' = eol
  BY LinesNext
<1> HIDE DEF c, d, v, f, n
<1>6. CASE Starts(c, D) # {}
  <2>1. Starts(d, D) # {} /\ FirstLine(d, D) = FirstLine(c, D)
    <3>1. CASE HasNul(text)
      BY <1>1, <1>6, <3>1
    <3>2. CASE ~HasNul(text)
      BY <1>1, <1>6, <3>2, FirstLineStays
    <3> QED
      BY <3>1, <3>2
  <2>2. PICK i \in DOMAIN lines :
             Leads(i, D) /\ FirstLine(c, D) = Shown(lines[i], eol, D)
    BY <1>3, <1>6
  <2>3. Leads(i, D)' /\ i \in DOMAIN lines' /\ lines'[i] = lines[i]
    BY <1>5, <2>2, LeadsStays
  <2>4. FirstLine(d, D) = Shown(lines'[i], eol', D)
    BY <1>5, <2>1, <2>2, <2>3
  <2> QED
    BY <2>1, <2>3, <2>4
<1>7. CASE Starts(c, D) = {}
  <2>1. \A i \in 1 .. n : Shown(lines[i], eol, D) = <<>>
    BY <1>3, <1>5, <1>7
  <2>2. ~HasNul(text)
    <3> SUFFICES ASSUME NEW i \in 1 .. n, HasNul(lines[i]) PROVE FALSE
      BY <1>5 DEF NulInv
    <3>1. lines[i] = <<>>
      BY <1>1, <1>5, <2>1, ShownIsEmpty
    <3> QED
      BY <3>1 DEF HasNul
  <2>3. c = text /\ d = text \o v
    BY <1>1, <2>2
  <2>4. \A i \in 1 .. n : Shown(lines'[i], eol', D) = <<>>
    BY <1>5, <2>1
  <2>5. \A i \in Int : i \in Starts(d, D) <=> i - Len(text) \in Starts(v, D)
    BY <1>1, <1>7, <2>3, StartsOfConcat
  <2>6. Len(text) \in Nat /\ d \in Seq(Token) /\ Starts(d, D) \in SUBSET Int
    <3>1. d \in Seq(Token)
      BY <1>1, <2>3, ConcatProperties
    <3>2. Len(d) \in Nat /\ Starts(d, D) \in SUBSET (1 .. Len(d))
      BY <3>1, StartsBound
    <3> QED
      BY <1>1, <3>1, <3>2
  <2>7. CASE f = <<>>
    <3>1. Starts(d, D) = {}
      BY <1>2, <2>5, <2>6, <2>7
    <3>2. Shown(lines'[n + 1], eol', D) = <<>>
      BY <1>5, <2>7 DEF f
    <3>3. \A i \in 1 .. n + 1 : i \in 1 .. n \/ i = n + 1
      BY <1>5
    <3> QED
      BY <1>5, <2>4, <3>1, <3>2, <3>3
  <2>8. CASE f # <<>>
    <3>1. Starts(v, D) = {1} /\ FieldAt(v, D, 1) = f
      BY <1>2, <2>8
    <3>2. Len(text) + 1 \in Starts(d, D)
          /\ \A i \in Starts(d, D) : i = Len(text) + 1
      BY <2>5, <2>6, <3>1
    <3>3. Min(Starts(d, D)) = Len(text) + 1
      BY <2>6, <3>2, MinIs
    <3>4. FieldAt(d, D, Len(text) + 1) = f
      <4>1. text \in Seq(Token) /\ v \in Seq(Token) /\ Complete(text, D)
        BY <1>1
      <4>2. 1 \in Starts(v, D)
        BY <3>1
      <4>3. FieldAt(text \o v, D, Len(text) + 1) = FieldAt(v, D, 1)
        BY <4>1, <4>2, FieldsOfConcat
      <4> QED
        BY <2>3, <3>1, <4>3
    <3>5. FirstLine(d, D) = f
      BY <3>3, <3>4 DEF FirstLine
    <3>6. Shown(lines'[n + 1], eol', D) = f
      BY <1>5 DEF f
    <3>7. PICK k \in Int : k = n + 1
      BY <1>5
    <3>8. k \in DOMAIN lines' /\ k - 1 = n
      BY <1>5, <3>7
    <3>9. Leads(k, D)'
      <4>1. Shown(lines'[k], eol', D) # <<>>
        BY <2>8, <3>6, <3>7
      <4>2. \A j \in 1 .. k - 1 : Shown(lines'[j], eol', D) = <<>>
        BY <2>4, <3>8
      <4> QED
        BY <3>8, <4>1, <4>2 DEF Leads
    <3>10. Starts(d, D) # {} /\ FirstLine(d, D) = Shown(lines'[k], eol', D)
      BY <3>2, <3>5, <3>6, <3>7
    <3> QED
      BY <3>8, <3>9, <3>10
  <2> QED
    BY <2>7, <2>8
<1> QED
  BY <1>6, <1>7

\* What a line makes of a header.
LEMMA HeaderGrows ==
    ASSUME TextInv, NEW l \in AnyLine, Line(l), NEW D \in {{LF}, {CR, LF}},
           NEW key
    PROVE  LET c == CString(text)
               d == CString(text')
               f == Shown(l, eol, D)
           IN  \/ HasNul(text) /\ d = c
               \/ /\ ~HasNul(text) /\ Starts(c, D) = {}
                  /\ LastHeader(d, D, key) = Null
               \/ /\ ~HasNul(text) /\ Starts(c, D) # {} /\ ~HasKey(f, key)
                  /\ LastHeader(d, D, key) = LastHeader(c, D, key)
               \/ /\ ~HasNul(text) /\ Starts(c, D) # {} /\ HasKey(f, key)
                  /\ LastHeader(d, D, key) = Value(f)
                  /\ LastHeader(d, D, key) # Null
<1> DEFINE c == CString(text)
           d == CString(text')
           v == CString(l \o eol)
           f == Shown(l, eol, D)
<1>1. /\ text \in Seq(Token) /\ Complete(text, D) /\ v \in Seq(Token)
      /\ d = IF HasNul(text) THEN c ELSE text \o v
      /\ ~HasNul(text) => c = text
      /\ eol \in {<<LF>>, <<CR, LF>>}
  BY TextStep
<1>9. eol \in {<<LF>>, <<CR, LF>>}
  BY <1>1
<1>2. /\ f \in Seq(Token)
      /\ f = <<>> => Starts(v, D) = {}
      /\ f # <<>> => Starts(v, D) = {1} /\ FieldAt(v, D, 1) = f
  BY <1>9, ShownLine
<1>10. c = CString(text) /\ d = CString(text') /\ f = Shown(l, eol, D)
  OBVIOUS
<1> HIDE DEF c, d, v, f
<1>3. CASE HasNul(text)
  BY <1>1, <1>3, <1>10
<1>4. CASE ~HasNul(text) /\ Starts(c, D) = {}
  <2>1. c = text /\ d = text \o v /\ text \in Seq(Token) /\ v \in Seq(Token)
        /\ Complete(text, D)
    BY <1>1, <1>4
  <2>2. d \in Seq(Token)
    BY <2>1, ConcatProperties
  <2>3. Len(text) \in Nat /\ Starts(d, D) \in SUBSET Int
    <3>1. Len(d) \in Nat /\ Starts(d, D) \in SUBSET (1 .. Len(d))
      BY <2>2, StartsBound
    <3> QED
      BY <2>1, <3>1
  <2>4. \A i \in Starts(d, D) : i = Len(text) + 1
    <3> SUFFICES ASSUME NEW i \in Starts(d, D) PROVE i = Len(text) + 1
      OBVIOUS
    <3>1. i \in Int
      BY <2>3
    <3>2. i \in Starts(text, D) \/ i - Len(text) \in Starts(v, D)
      BY <2>1, <3>1, StartsOfConcat
    <3>3. i - Len(text) = 1
      BY <1>2, <1>4, <2>1, <3>2
    <3> QED
      BY <2>3, <3>1, <3>3
  <2>5. HeaderLines(d, D, key) = {}
    <3> SUFFICES ASSUME NEW i \in HeaderLines(d, D, key) PROVE FALSE
      OBVIOUS
    <3>1. i \in Starts(d, D) /\ i # Min(Starts(d, D))
      BY DEF HeaderLines
    <3>2. Min(Starts(d, D)) \in Starts(d, D)
      BY <2>2, <3>1, StartsLeast
    <3> QED
      BY <2>4, <3>1, <3>2
  <2>6. LastHeader(d, D, key) = Null
    BY <2>5 DEF LastHeader
  <2> QED
    BY <1>4, <1>10, <2>6
<1>5. CASE ~HasNul(text) /\ Starts(c, D) # {} /\ ~HasKey(f, key)
  <2>1. c = text /\ d = text \o v /\ text \in Seq(Token) /\ v \in Seq(Token)
        /\ Complete(text, D) /\ Starts(text, D) # {}
    BY <1>1, <1>5
  <2>2. \A i \in Starts(v, D) : ~HasKey(FieldAt(v, D, i), key)
    BY <1>2, <1>5
  <2>3. LastHeader(text \o v, D, key) = LastHeader(text, D, key)
    BY <2>1, <2>2, HeaderStays
  <2> QED
    BY <1>5, <1>10, <2>1, <2>3
<1>6. CASE ~HasNul(text) /\ Starts(c, D) # {} /\ HasKey(f, key)
  <2>1. c = text /\ d = text \o v /\ text \in Seq(Token) /\ v \in Seq(Token)
        /\ Complete(text, D) /\ Starts(text, D) # {}
    BY <1>1, <1>6
  <2>2. f # <<>>
    <3> SUFFICES ASSUME f = <<>> PROVE FALSE
      OBVIOUS
    <3>1. IndexOf(f, Colon) = 0
      <4>1. \A j \in 1 .. Len(f) : f[j] # Colon
        OBVIOUS
      <4> QED
        BY <1>2, <4>1, IndexIsZero
    <3> QED
      BY <1>6, <3>1 DEF HasKey
  <2>3. Starts(v, D) = {1} /\ FieldAt(v, D, 1) = f
    BY <1>2, <2>2
  <2>4. HasKey(FieldAt(v, D, 1), key)
    BY <1>6, <2>3
  <2>5. LastHeader(text \o v, D, key) = Value(FieldAt(v, D, 1))
    BY <2>1, <2>3, <2>4, HeaderChanges
  <2>6. Value(f) # Null
    BY <1>2, NullIsNoToken, ValueIsSeq
  <2> QED
    BY <1>6, <1>10, <2>1, <2>3, <2>5, <2>6
<1> QED
  BY <1>3, <1>4, <1>5, <1>6, <1>10

-----------------------------------------------------------------------------
(* What a line changes in the reference.                                   *)

\* Read, IsRequestLine, LastGives and NoneGives for any lines.
ReadOf(L) ==
    LET cut == {i \in DOMAIN L : \E j \in DOMAIN L[i] : L[i][j] = NUL}
    IN  {i \in DOMAIN L : \A k \in cut : i <= k}
FirstOf(L, i) ==
    i \in ReadOf(L) /\ L[i] # <<>> /\ \A j \in 1 .. i - 1 : L[j] = <<>>
LastOf(L, table, v) ==
    \E i \in ReadOf(L) :
        /\ v \in table[L[i]]
        /\ \E r \in 1 .. i - 1 : FirstOf(L, r)
        /\ \A j \in ReadOf(L) : j > i => table[L[j]] = {}
NoneOf(L, table) ==
    \A v \in UNION {table[l] : l \in AnyLine} : ~LastOf(L, table, v)

LEMMA ReadOfAppend ==
    ASSUME NEW L \in Seq(AnyLine), NEW M \in Seq(AnyLine), NEW l \in AnyLine,
           Len(M) = Len(L) + 1, M[Len(L) + 1] = l,
           \A i \in 1 .. Len(L) : M[i] = L[i]
    PROVE  /\ (\E i \in 1 .. Len(L) : HasNul(L[i])) => ReadOf(M) = ReadOf(L)
           /\ ~(\E i \in 1 .. Len(L) : HasNul(L[i])) =>
                /\ ReadOf(L) = 1 .. Len(L)
                /\ ReadOf(M) = 1 .. Len(L) + 1
           /\ ReadOf(L) \in SUBSET (1 .. Len(L))
           /\ \A i \in 1 .. Len(L) : FirstOf(M, i) <=> FirstOf(L, i)
<1> DEFINE n == Len(L)
<1>1. n \in Nat /\ DOMAIN L = 1 .. n /\ DOMAIN M = 1 .. n + 1
  OBVIOUS
<1>2. /\ \A i \in 1 .. n : L[i] \in Seq(Token) /\ DOMAIN L[i] = 1 .. Len(L[i])
      /\ \A i \in 1 .. n + 1 : M[i] \in Seq(Token)
                               /\ DOMAIN M[i] = 1 .. Len(M[i])
  <2>1. ASSUME NEW i \in 1 .. n
        PROVE  L[i] \in Seq(Token) /\ DOMAIN L[i] = 1 .. Len(L[i])
    <3>1. L[i] \in AnyLine
      BY <2>1
    <3>2. L[i] \in Seq(Token)
      BY <3>1, LinesAreTexts
    <3> QED
      BY <3>2
  <2>2. ASSUME NEW i \in 1 .. n + 1
        PROVE  M[i] \in Seq(Token) /\ DOMAIN M[i] = 1 .. Len(M[i])
    <3>1. M[i] \in AnyLine
      BY <2>2, <1>1
    <3>2. M[i] \in Seq(Token)
      BY <3>1, LinesAreTexts
    <3> QED
      BY <3>2
  <2> QED
    BY <2>1, <2>2
<1>3. ReadOf(L) = {i \in 1 .. n : \A k \in 1 .. n : HasNul(L[k]) => i <= k}
  BY <1>1, <1>2 DEF ReadOf, HasNul
<1>4. ReadOf(M) =
        {i \in 1 .. n + 1 : \A k \in 1 .. n + 1 : HasNul(M[k]) => i <= k}
  BY <1>1, <1>2 DEF ReadOf, HasNul
<1>5. \A k : k \in 1 .. n + 1 <=> k \in 1 .. n \/ k = n + 1
  BY <1>1
<1>6. \A i \in 1 .. n : M[i] = L[i]
  OBVIOUS
<1>12. n = Len(L)
  OBVIOUS
<1> HIDE DEF n
<1>7. ASSUME NEW i \in 1 .. n PROVE i \in ReadOf(M) <=> i \in ReadOf(L)
  <2>1. i \in 1 .. n + 1 /\ i <= n + 1
    BY <1>1
  <2> QED
    BY <1>3, <1>4, <1>5, <1>6, <2>1
<1>8. ASSUME NEW k \in 1 .. n, HasNul(L[k]) PROVE n + 1 \notin ReadOf(M)
  <2>1. k \in 1 .. n + 1 /\ HasNul(M[k]) /\ ~(n + 1 <= k)
    BY <1>1, <1>6, <1>8
  <2> QED
    BY <1>4, <2>1
<1>9. ASSUME \A k \in 1 .. n : ~HasNul(L[k])
      PROVE  ReadOf(L) = 1 .. n /\ ReadOf(M) = 1 .. n + 1
  <2>1. ReadOf(L) = 1 .. n
    BY <1>3, <1>9
  <2>2. \A i \in 1 .. n + 1 : i <= n + 1
    BY <1>1
  <2> QED
    BY <1>4, <1>5, <1>6, <1>9, <2>1, <2>2
<1>10. ASSUME NEW i \in 1 .. n PROVE FirstOf(M, i) <=> FirstOf(L, i)
  <2>1. \A j \in 1 .. i - 1 : j \in 1 .. n
    BY <1>1
  <2> QED
    BY <1>6, <1>7, <2>1 DEF FirstOf
<1>11. ReadOf(L) \in SUBSET (1 .. n) /\ ReadOf(M) \in SUBSET (1 .. n + 1)
  BY <1>3, <1>4
<1>13. (\E k \in 1 .. n : HasNul(L[k])) => ReadOf(M) = ReadOf(L)
  BY <1>5, <1>7, <1>8, <1>11
<1> QED
  BY <1>9, <1>10, <1>11, <1>12, <1>13

\* Read, and what a header table gives, when a line comes.
LEMMA LastOfAppend ==
    ASSUME NEW L \in Seq(AnyLine), NEW M \in Seq(AnyLine), NEW l \in AnyLine,
           Len(M) = Len(L) + 1, M[Len(L) + 1] = l,
           \A i \in 1 .. Len(L) : M[i] = L[i], NEW table
    PROVE  /\ \/ \E i \in 1 .. Len(L) : HasNul(L[i])
              \/ table[l] = {}
              => \A v : LastOf(M, table, v) <=> LastOf(L, table, v)
           /\ ~(\E i \in 1 .. Len(L) : FirstOf(L, i))
              => \A v : ~LastOf(M, table, v)
           /\ ~(\E i \in 1 .. Len(L) : HasNul(L[i]))
              => \A v : v \in table[l]
                        /\ (\E i \in 1 .. Len(L) : FirstOf(L, i))
                          => LastOf(M, table, v)
<1> DEFINE n == Len(L)
           nul == \E i \in 1 .. Len(L) : HasNul(L[i])
<1>1. /\ nul => ReadOf(M) = ReadOf(L)
      /\ ~nul => ReadOf(L) = 1 .. n /\ ReadOf(M) = 1 .. n + 1
      /\ ReadOf(L) \in SUBSET (1 .. n)
      /\ \A i \in 1 .. n : FirstOf(M, i) <=> FirstOf(L, i)
  BY ReadOfAppend
<1>2. n \in Nat /\ M[n + 1] = l /\ \A i \in 1 .. n : M[i] = L[i]
  OBVIOUS
<1>3. n = Len(L) /\ (nul <=> \E i \in 1 .. Len(L) : HasNul(L[i]))
  OBVIOUS
<1> HIDE DEF n, nul
<1>4. ASSUME NEW i \in 1 .. n + 1
      PROVE  (\E r \in 1 .. i - 1 : FirstOf(M, r))
               <=> (\E r \in 1 .. i - 1 : FirstOf(L, r))
  <2>1. \A r \in 1 .. i - 1 : r \in 1 .. n
    BY <1>2
  <2> QED
    BY <1>1, <2>1
<1>5. ASSUME nul, NEW v PROVE LastOf(M, table, v) <=> LastOf(L, table, v)
  <2>1. ReadOf(M) = ReadOf(L)
    BY <1>1, <1>5
  <2>2. \A i \in ReadOf(L) : i \in 1 .. n /\ i \in 1 .. n + 1 /\ M[i] = L[i]
    BY <1>1, <1>2
  <2>3. \A i \in ReadOf(L) : (\E r \in 1 .. i - 1 : FirstOf(M, r))
                              <=> (\E r \in 1 .. i - 1 : FirstOf(L, r))
    BY <1>4, <2>2
  <2>4. \A i \in ReadOf(L) : table[M[i]] = table[L[i]]
    BY <2>2
  <2> QED
    BY <2>1, <2>3, <2>4 DEF LastOf
<1>6. ASSUME ~nul, table[l] = {}, NEW v
      PROVE  LastOf(M, table, v) <=> LastOf(L, table, v)
  <2>1. ReadOf(L) = 1 .. n /\ ReadOf(M) = 1 .. n + 1
    BY <1>1, <1>6
  <2>2. \A i : i \in 1 .. n + 1 <=> i \in 1 .. n \/ i = n + 1
    BY <1>2
  <2>3. table[M[n + 1]] = {} /\ \A i \in 1 .. n : table[M[i]] = table[L[i]]
    BY <1>2, <1>6
  <2>4. \A i \in 1 .. n : (\E r \in 1 .. i - 1 : FirstOf(M, r))
                            <=> (\E r \in 1 .. i - 1 : FirstOf(L, r))
    BY <1>4, <2>2
  <2> QED
    BY <2>1, <2>2, <2>3, <2>4 DEF LastOf
<1>7. ASSUME ~(\E i \in 1 .. n : FirstOf(L, i)), NEW v
      PROVE  ~LastOf(M, table, v)
  <2> SUFFICES ASSUME NEW i \in ReadOf(M),
                      \E r \in 1 .. i - 1 : FirstOf(M, r)
               PROVE  FALSE
    BY DEF LastOf
  <2>1. i \in 1 .. n + 1
    BY <1>1, <1>2
  <2>2. PICK r \in 1 .. i - 1 : FirstOf(L, r)
    BY <1>4, <2>1
  <2>3. r \in 1 .. n
    BY <1>2, <2>1
  <2> QED
    BY <1>7, <2>2, <2>3
<1>8. ASSUME ~nul, NEW v, v \in table[l], \E i \in 1 .. n : FirstOf(L, i)
      PROVE  LastOf(M, table, v)
  <2>1. n + 1 \in ReadOf(M) /\ \A j \in ReadOf(M) : ~(j > n + 1)
    BY <1>1, <1>2, <1>8
  <2>2. v \in table[M[n + 1]]
    BY <1>2, <1>8
  <2>3. (n + 1) - 1 = n /\ n + 1 \in 1 .. n + 1
    BY <1>2
  <2>4. \E r \in 1 .. (n + 1) - 1 : FirstOf(M, r)
    BY <1>1, <1>8, <2>3
  <2> QED
    BY <2>1, <2>2, <2>4 DEF LastOf
<1> QED
  BY <1>3, <1>5, <1>6, <1>7, <1>8

\* The first line the parsers see is the request line of the reference.
LEMMA FirstIsRead ==
    ASSUME TextInv, lines \in Seq(AnyLine), NEW D \in {{LF}, {CR, LF}},
           FirstInv(D), Kept(eol, D) = <<>>
    PROVE  IF Starts(CString(text), D) = {}
           THEN \A i : ~FirstOf(lines, i)
           ELSE \E i \in 1 .. Len(lines) :
                   /\ FirstOf(lines, i)
                   /\ FirstLine(CString(text), D) = Cut(lines[i])
                   /\ \A j : FirstOf(lines, j) => j = i
<1> DEFINE n == Len(lines)
<1>1. /\ n \in Nat /\ DOMAIN lines = 1 .. n
      /\ \A i \in 1 .. n : lines[i] \in AnyLine
  OBVIOUS
<1>2. eol \in {<<LF>>, <<CR, LF>>}
  BY DEF TextInv
<1>3. ASSUME NEW i \in 1 .. n
      PROVE  /\ Shown(lines[i], eol, D) = Cut(lines[i])
             /\ Cut(lines[i]) = <<>> <=> lines[i] = <<>>
  <2>1. lines[i] \in AnyLine
    BY <1>1
  <2> QED
    BY <1>2, <2>1, ShownLine, CutLine
<1>4. \A i : FirstOf(lines, i) => i \in 1 .. n
  BY <1>1 DEF FirstOf, ReadOf
<1>9. n = Len(lines)
  OBVIOUS
<1> HIDE DEF n
<1>5. CASE Starts(CString(text), D) = {}
  <2>1. \A i \in 1 .. n : lines[i] = <<>>
    BY <1>1, <1>3, <1>5 DEF FirstInv
  <2> QED
    BY <1>4, <1>5, <2>1 DEF FirstOf
<1>6. CASE Starts(CString(text), D) # {}
  <2>1. PICK i \in 1 .. n : Leads(i, D)
                /\ FirstLine(CString(text), D) = Shown(lines[i], eol, D)
    BY <1>1, <1>6 DEF FirstInv
  <2>2. /\ lines[i] # <<>> /\ \A j \in 1 .. i - 1 : j \in 1 .. n
        /\ FirstLine(CString(text), D) = Cut(lines[i])
    BY <1>1, <1>3, <2>1 DEF Leads
  <2>3. \A j \in 1 .. i - 1 : lines[j] = <<>>
    BY <1>3, <2>1, <2>2 DEF Leads
  <2>4. ASSUME NEW k \in 1 .. n, k < i
        PROVE  ~(\E j \in DOMAIN lines[k] : lines[k][j] = NUL)
    <3>1. k \in 1 .. i - 1
      BY <1>1, <2>4
    <3>2. lines[k] = <<>>
      BY <2>3, <3>1
    <3> QED
      BY <3>2
  <2>5. i \in ReadOf(lines)
    <3>1. \A k \in 1 .. n : ~(k < i) => i <= k
      BY <1>1
    <3> QED
      BY <1>1, <2>4, <3>1 DEF ReadOf
  <2>6. FirstOf(lines, i)
    BY <2>2, <2>3, <2>5 DEF FirstOf
  <2>7. ASSUME NEW j, FirstOf(lines, j) PROVE j = i
    <3>1. j \in 1 .. n /\ lines[j] # <<>>
      BY <1>4, <2>7 DEF FirstOf
    <3>2. i \notin 1 .. j - 1
      BY <2>2, <2>7 DEF FirstOf
    <3>3. j \notin 1 .. i - 1
      BY <2>3, <3>1
    <3> QED
      BY <1>1, <3>1, <3>2, <3>3
  <2> QED
    BY <1>6, <1>9, <2>2, <2>6, <2>7
<1> QED
  BY <1>5, <1>6

\* What a line that comes changes for one header of the reference.
LEMMA ReferenceStep ==
    ASSUME TextInv, lines \in Seq(AnyLine), NulInv,
           NEW D \in {{LF}, {CR, LF}}, FirstInv(D), Kept(eol, D) = <<>>,
           NEW l \in AnyLine, Line(l), NEW table
    PROVE  /\ HasNul(text) \/ table[l] = {}
              => /\ \A v : LastOf(lines', table, v) <=> LastOf(lines, table, v)
                 /\ NoneOf(lines', table) <=> NoneOf(lines, table)
           /\ Starts(CString(text), D) = {} => NoneOf(lines', table)
           /\ ~HasNul(text) /\ Starts(CString(text), D) # {}
              => \A v \in table[l] : LastOf(lines', table, v)
<1>1. /\ lines \in Seq(AnyLine) /\ lines' \in Seq(AnyLine)
      /\ Len(lines') = Len(lines) + 1 /\ lines'[Len(lines) + 1] = l
      /\ \A i \in 1 .. Len(lines) : lines'[i] = lines[i]
  BY LinesNext
<1>2. HasNul(text) <=> \E i \in 1 .. Len(lines) : HasNul(lines[i])
  <2>1. DOMAIN lines = 1 .. Len(lines)
    BY <1>1
  <2> QED
    BY <2>1 DEF NulInv
<1>3. Starts(CString(text), D) = {}
        <=> ~(\E i \in 1 .. Len(lines) : FirstOf(lines, i))
  BY FirstIsRead
<1>4. /\ \/ \E i \in 1 .. Len(lines) : HasNul(lines[i])
         \/ table[l] = {}
         => \A v : LastOf(lines', table, v) <=> LastOf(lines, table, v)
      /\ ~(\E i \in 1 .. Len(lines) : FirstOf(lines, i))
         => \A v : ~LastOf(lines', table, v)
      /\ ~(\E i \in 1 .. Len(lines) : HasNul(lines[i]))
         => \A v : v \in table[l]
                   /\ (\E i \in 1 .. Len(lines) : FirstOf(lines, i))
                     => LastOf(lines', table, v)
  BY <1>1, LastOfAppend
<1>5. HasNul(text) \/ table[l] = {}
        => \A v : LastOf(lines', table, v) <=> LastOf(lines, table, v)
  BY <1>2, <1>4
<1>6. HasNul(text) \/ table[l] = {}
        => (NoneOf(lines', table) <=> NoneOf(lines, table))
  BY <1>5 DEF NoneOf
<1>7. Starts(CString(text), D) = {} => NoneOf(lines', table)
  BY <1>3, <1>4 DEF NoneOf
<1>8. ~HasNul(text) /\ Starts(CString(text), D) # {}
        => \A v \in table[l] : LastOf(lines', table, v)
  BY <1>2, <1>3, <1>4
<1> QED
  BY <1>5, <1>6, <1>7, <1>8

\* HeaderInv, of any lines and headers.
Agree(L, host, length) ==
    /\ IF host = Null THEN NoneOf(L, HostOf) ELSE LastOf(L, HostOf, host)
    /\ IF length = Null THEN NoneOf(L, LengthOf)
       ELSE LastOf(L, LengthOf, Number(length))

LEMMA LastIsLastOf ==
    ASSUME NEW table
    PROVE  /\ \A v : LastGives(table, v) <=> LastOf(lines, table, v)
           /\ NoneGives(table) <=> NoneOf(lines, table)
<1>1. Read = ReadOf(lines)
  BY DEF Read, ReadOf
<1>2. \A i : IsRequestLine(i) <=> FirstOf(lines, i)
  BY <1>1 DEF IsRequestLine, FirstOf
<1>3. \A v : LastGives(table, v) <=> LastOf(lines, table, v)
  BY <1>1, <1>2 DEF LastGives, LastOf
<1> QED
  BY <1>3 DEF NoneGives, NoneOf

LEMMA HeaderIsAgree ==
    ASSUME NEW D
    PROVE  HeaderInv(D) <=>
             Agree(lines, LastHeader(CString(text), D, "Host"),
                   LastHeader(CString(text), D, "Content-Length"))
BY LastIsLastOf DEF HeaderInv, Agree

LEMMA HeaderIsAgreeNext ==
    ASSUME NEW D
    PROVE  HeaderInv(D)' <=>
             Agree(lines', LastHeader(CString(text'), D, "Host"),
                   LastHeader(CString(text'), D, "Content-Length"))
<1>1. Read' = ReadOf(lines')
  BY DEF Read, ReadOf
<1>2. \A i : IsRequestLine(i)' <=> FirstOf(lines', i)
  BY <1>1 DEF IsRequestLine, FirstOf
<1>3. ASSUME NEW table
      PROVE  /\ \A v : LastGives(table, v)' <=> LastOf(lines', table, v)
             /\ NoneGives(table)' <=> NoneOf(lines', table)
  <2>1. \A v : LastGives(table, v)' <=> LastOf(lines', table, v)
    BY <1>1, <1>2 DEF LastGives, LastOf
  <2> QED
    BY <2>1 DEF NoneGives, NoneOf
<1>4. PICK host : host = LastHeader(CString(text'), D, "Host")
  OBVIOUS
<1>5. PICK length : length = LastHeader(CString(text'), D, "Content-Length")
  OBVIOUS
<1> QED
  BY <1>3, <1>4, <1>5 DEF HeaderInv, Agree

\* What a line shows gives the headers that the tables say.
LEMMA ShownGives ==
    ASSUME TextInv, NEW l \in AnyLine, NEW D \in {{LF}, {CR, LF}}
    PROVE  Gives(Shown(l, eol, D), HostOf[l], LengthOf[l])
<1>1. eol \in {<<LF>>, <<CR, LF>>}
  BY DEF TextInv
<1>2. Shows(Shown(l, eol, D), Cut(l))
  BY <1>1, ShownLine
<1>3. LineSeen(Shown(l, eol, D), l)
  BY <1>2, LineIsSeen
<1> QED
  BY <1>3 DEF LineSeen

LEMMA HeaderStep ==
    ASSUME TextInv, lines \in Seq(AnyLine), NulInv,
           NEW D \in {{LF}, {CR, LF}}, FirstInv(D), Kept(eol, D) = <<>>,
           HeaderInv(D), NEW l \in AnyLine, Line(l)
    PROVE  HeaderInv(D)'
<1> DEFINE c == CString(text)
           d == CString(text')
           f == Shown(l, eol, D)
           h == LastHeader(c, D, "Host")
           n == LastHeader(c, D, "Content-Length")
           i == LastHeader(d, D, "Host")
           o == LastHeader(d, D, "Content-Length")
<1>1. \/ HasNul(text) /\ d = c
      \/ ~HasNul(text) /\ Starts(c, D) = {} /\ i = Null
      \/ ~HasNul(text) /\ Starts(c, D) # {} /\ ~HasKey(f, "Host") /\ i = h
      \/ /\ ~HasNul(text) /\ Starts(c, D) # {} /\ HasKey(f, "Host")
         /\ i = Value(f) /\ i # Null
  BY HeaderGrows
<1>2. \/ HasNul(text) /\ d = c
      \/ ~HasNul(text) /\ Starts(c, D) = {} /\ o = Null
      \/ /\ ~HasNul(text) /\ Starts(c, D) # {} /\ ~HasKey(f, "Content-Length")
         /\ o = n
      \/ /\ ~HasNul(text) /\ Starts(c, D) # {} /\ HasKey(f, "Content-Length")
         /\ o = Value(f) /\ o # Null
  BY HeaderGrows
<1>3. Gives(f, HostOf[l], LengthOf[l])
  BY ShownGives
<1>4. Agree(lines, h, n)
  BY HeaderIsAgree
<1>5. HeaderInv(D)' <=> Agree(lines', i, o)
  BY HeaderIsAgreeNext
<1>6. /\ HasNul(text) \/ HostOf[l] = {}
         => /\ \A v : LastOf(lines', HostOf, v) <=> LastOf(lines, HostOf, v)
            /\ NoneOf(lines', HostOf) <=> NoneOf(lines, HostOf)
      /\ Starts(c, D) = {} => NoneOf(lines', HostOf)
      /\ ~HasNul(text) /\ Starts(c, D) # {}
         => \A v \in HostOf[l] : LastOf(lines', HostOf, v)
  BY ReferenceStep
<1>7. /\ HasNul(text) \/ LengthOf[l] = {}
         => /\ \A v :
                 LastOf(lines', LengthOf, v) <=> LastOf(lines, LengthOf, v)
            /\ NoneOf(lines', LengthOf) <=> NoneOf(lines, LengthOf)
      /\ Starts(c, D) = {} => NoneOf(lines', LengthOf)
      /\ ~HasNul(text) /\ Starts(c, D) # {}
         => \A v \in LengthOf[l] : LastOf(lines', LengthOf, v)
  BY ReferenceStep
<1>8. d = c => i = h /\ o = n
  OBVIOUS
<1> HIDE DEF c, d, f, h, n, i, o
<1>9. IF i = Null THEN NoneOf(lines', HostOf) ELSE LastOf(lines', HostOf, i)
  <2>1. IF h = Null THEN NoneOf(lines, HostOf) ELSE LastOf(lines, HostOf, h)
    BY <1>4 DEF Agree
  <2>2. CASE i = h /\ (HasNul(text) \/ HostOf[l] = {})
    BY <1>6, <2>1, <2>2
  <2>3. CASE i = Null /\ Starts(c, D) = {}
    BY <1>6, <2>3
  <2>4. CASE /\ ~HasNul(text) /\ Starts(c, D) # {} /\ HasKey(f, "Host")
             /\ i = Value(f) /\ i # Null
    <3>1. i \in HostOf[l]
      BY <1>3, <2>4 DEF Gives
    <3> QED
      BY <1>6, <2>4, <3>1
  <2>5. ~HasKey(f, "Host") => HostOf[l] = {}
    BY <1>3 DEF Gives
  <2> QED
    BY <1>1, <1>8, <2>2, <2>3, <2>4, <2>5
<1>10. IF o = Null THEN NoneOf(lines', LengthOf)
       ELSE LastOf(lines', LengthOf, Number(o))
  <2>1. IF n = Null THEN NoneOf(lines, LengthOf)
        ELSE LastOf(lines, LengthOf, Number(n))
    BY <1>4 DEF Agree
  <2>2. CASE o = n /\ (HasNul(text) \/ LengthOf[l] = {})
    BY <1>7, <2>1, <2>2
  <2>3. CASE o = Null /\ Starts(c, D) = {}
    BY <1>7, <2>3
  <2>4. CASE /\ ~HasNul(text) /\ Starts(c, D) # {}
             /\ HasKey(f, "Content-Length") /\ o = Value(f) /\ o # Null
    <3>1. Number(o) \in LengthOf[l]
      BY <1>3, <2>4 DEF Gives
    <3> QED
      BY <1>7, <2>4, <3>1
  <2>5. ~HasKey(f, "Content-Length") => LengthOf[l] = {}
    BY <1>3 DEF Gives
  <2> QED
    BY <1>2, <1>8, <2>2, <2>3, <2>4, <2>5
<1> QED
  BY <1>5, <1>9, <1>10 DEF Agree

\* After a line that is not empty every line is a header for both copies.
LEMMA BeginsWithInk ==
    ASSUME TextInv, lines \in Seq(AnyLine), NEW D \in {{LF}, {CR, LF}},
           FirstInv(D), lines # <<>>, lines[1] # <<>>
    PROVE  /\ lines[1] \in AnyLine /\ Starts(CString(text), D) # {}
           /\ FirstLine(CString(text), D) = Shown(lines[1], eol, D)
<1>1. 1 \in DOMAIN lines /\ DOMAIN lines \in SUBSET Nat /\ lines[1] \in AnyLine
  OBVIOUS
<1>2. eol \in {<<LF>>, <<CR, LF>>}
  BY DEF TextInv
<1>3. Shown(lines[1], eol, D) # <<>>
  BY <1>1, <1>2, ShownIsEmpty
<1>4. Starts(CString(text), D) # {}
  BY <1>1, <1>3 DEF FirstInv
<1>5. PICK i \in DOMAIN lines : Leads(i, D)
              /\ FirstLine(CString(text), D) = Shown(lines[i], eol, D)
  BY <1>4 DEF FirstInv
<1>6. 1 \notin 1 .. i - 1 /\ i \in 1 .. Len(lines)
  BY <1>3, <1>5 DEF Leads
<1>7. i = 1
  BY <1>6
<1> QED
  BY <1>1, <1>4, <1>5, <1>7

LEMMA SameHostStep ==
    ASSUME TextInv, lines \in Seq(AnyLine), NulInv,
           FirstInv(LineDelims), FirstInv({CR, LF}), SameHost,
           NEW l \in AnyLine, Line(l)
    PROVE  SameHost'
<1> DEFINE c == CString(text)
           d == CString(text')
           f(D) == Shown(l, eol, D)
           h(D) == LastHeader(c, D, "Host")
           i(D) == LastHeader(d, D, "Host")
           Ds == {{LF}, {CR, LF}}
<1>1. LineDelims \in Ds /\ {CR, LF} \in Ds
  BY LineDelimsAssumption
<1>2. ASSUME NEW D \in Ds
      PROVE  \/ HasNul(text) /\ d = c
             \/ ~HasNul(text) /\ Starts(c, D) = {} /\ i(D) = Null
             \/ /\ ~HasNul(text) /\ Starts(c, D) # {}
                /\ ~HasKey(f(D), "Host") /\ i(D) = h(D)
             \/ /\ ~HasNul(text) /\ Starts(c, D) # {}
                /\ HasKey(f(D), "Host") /\ i(D) = Value(f(D))
  BY HeaderGrows
<1>3. ASSUME NEW D \in Ds
      PROVE  /\ HasKey(f(D), "Host") <=> HostOf[l] # {}
             /\ HasKey(f(D), "Host") => HostOf[l] = {Value(f(D))}
  BY ShownGives DEF Gives
<1>4. d = c => \A D \in Ds : i(D) = h(D)
  OBVIOUS
<1>5. SUFFICES ASSUME lines' # <<>>, lines'[1] # <<>>
               PROVE  i(LineDelims) = i({CR, LF})
  BY DEF SameHost
<1>6. CASE lines = <<>>
  <2>1. ~HasNul(text)
    BY <1>6 DEF NulInv
  <2>2. Starts(c, LineDelims) = {} /\ Starts(c, {CR, LF}) = {}
    BY <1>6 DEF FirstInv
  <2> HIDE DEF c, d, f, h, i, Ds
  <2> QED
    BY <1>1, <1>2, <2>1, <2>2
<1>7. CASE lines # <<>>
  <2>1. lines'[1] = lines[1]
    <3>1. 1 \in 1 .. Len(lines)
      BY <1>7
    <3> QED
      BY <3>1, LinesNext
  <2>2. lines[1] # <<>>
    BY <1>5, <2>1
  <2>3. Starts(c, LineDelims) # {} /\ Starts(c, {CR, LF}) # {}
    BY <1>1, <1>7, <2>2, BeginsWithInk
  <2>4. h(LineDelims) = h({CR, LF})
    BY <1>7, <2>2 DEF SameHost
  <2> HIDE DEF c, d, f, h, i, Ds
  <2>5. CASE HasNul(text)
    <3>1. d = c
      BY <1>1, <1>2, <2>5
    <3> QED
      BY <1>1, <1>4, <2>4, <3>1
  <2>6. CASE ~HasNul(text) /\ HostOf[l] = {}
    BY <1>1, <1>2, <1>3, <2>3, <2>4, <2>6
  <2>7. CASE ~HasNul(text) /\ HostOf[l] # {}
    BY <1>1, <1>2, <1>3, <2>3, <2>7
  <2> QED
    BY <2>5, <2>6, <2>7
<1> QED
  BY <1>6, <1>7

LEMMA ReadInit == Init => ReadInv
<1> SUFFICES ASSUME Init PROVE ReadInv
  OBVIOUS
<1>1. TextInv /\ lines = <<>> /\ text = <<>> /\ DOMAIN lines = {}
  BY TextInit DEF Init
<1>2. CString(text) = <<>> /\ ~HasNul(text)
  <2>1. <<>> \in Seq(Token) /\ ~HasNul(<<>>)
    BY DEF HasNul
  <2>2. CString(<<>>) = <<>>
    BY <2>1, WholeCString
  <2> QED
    BY <1>1, <2>1, <2>2
<1>3. \A D : Starts(<<>>, D) = {}
  BY DEF Starts
<1>4. \A D, key : LastHeader(<<>>, D, key) = Null
  BY <1>3 DEF LastHeader, HeaderLines
<1>5. \A table : NoneOf(lines, table)
  BY <1>1 DEF NoneOf, LastOf, ReadOf
<1>6. ASSUME NEW D PROVE FirstInv(D) /\ HeaderInv(D)
  <2>1. FirstInv(D)
    BY <1>1, <1>2, <1>3 DEF FirstInv
  <2>2. Agree(lines, LastHeader(CString(text), D, "Host"),
              LastHeader(CString(text), D, "Content-Length"))
    BY <1>2, <1>4, <1>5 DEF Agree
  <2> QED
    BY <2>1, <2>2, HeaderIsAgree
<1>7. NulInv /\ SameHost /\ lines \in Seq(AnyLine)
  BY <1>1, <1>2 DEF NulInv, SameHost
<1> QED
  BY <1>1, <1>6, <1>7 DEF ReadInv

LEMMA ReadNext == ReadInv /\ [Next]_vars => ReadInv'
<1>1. ASSUME ReadInv, NEW l \in AnyLine, Line(l) PROVE ReadInv'
  <2> DEFINE Ds == {{LF}, {CR, LF}}
  <2>1. /\ TextInv /\ lines \in Seq(AnyLine) /\ NulInv /\ SameHost
        /\ FirstInv(LineDelims) /\ FirstInv({CR, LF}) /\ HeaderInv({CR, LF})
        /\ Kept(eol, LineDelims) = <<>> => HeaderInv(LineDelims)
    BY <1>1 DEF ReadInv
  <2>2. LineDelims \in Ds /\ {CR, LF} \in Ds
    BY LineDelimsAssumption
  <2>3. TextInv'
    BY <1>1, <2>1, TextLine
  <2>4. lines' \in Seq(AnyLine) /\ eol' = eol
    BY <1>1, <2>1, LinesNext
  <2>5. NulInv'
    BY <1>1, <2>1, NulStep
  <2>6. FirstInv(LineDelims)'
    BY <1>1, <2>1, <2>2, FirstStep
  <2>7. FirstInv({CR, LF})'
    BY <1>1, <2>1, <2>2, FirstStep
  <2>8. (Kept(eol, LineDelims) = <<>>)' <=> Kept(eol, LineDelims) = <<>>
    BY <2>4 DEF Kept
  <2>9. Kept(eol, LineDelims) = <<>> => HeaderInv(LineDelims)'
    BY <1>1, <2>1, <2>2, HeaderStep
  <2>10. Kept(eol, {CR, LF}) = <<>>
    BY DEF Kept
  <2>11. HeaderInv({CR, LF})'
    BY <1>1, <2>1, <2>2, <2>10, HeaderStep
  <2>12. SameHost'
    BY <1>1, <2>1, SameHostStep
  <2> QED
    BY <2>3, <2>4, <2>5, <2>6, <2>7, <2>8, <2>9, <2>11, <2>12 DEF ReadInv
<1>2. ASSUME ReadInv, UNCHANGED vars PROVE ReadInv'
  <2>1. TextInv'
    BY <1>2, TextNext DEF ReadInv
  <2>2. lines' = lines /\ text' = text /\ eol' = eol
    BY <1>2 DEF vars
  <2>3. NulInv' <=> NulInv
    BY <2>2 DEF NulInv
  <2>4. SameHost' <=> SameHost
    BY <2>2 DEF SameHost
  <2>5. ASSUME NEW D PROVE FirstInv(D)' <=> FirstInv(D)
    BY <2>2 DEF FirstInv, Leads
  <2>6. ASSUME NEW D PROVE HeaderInv(D)' <=> HeaderInv(D)
    BY <2>2, HeaderIsAgree, HeaderIsAgreeNext
  <2>7. (Kept(eol, LineDelims) = <<>>)' <=> Kept(eol, LineDelims) = <<>>
    BY <2>2 DEF Kept
  <2> QED
    BY <1>2, <2>1, <2>2, <2>3, <2>4, <2>5, <2>6, <2>7 DEF ReadInv
<1> QED
  BY <1>1, <1>2 DEF Next

LEMMA ReadAlways == Spec => []ReadInv
BY ReadInit, ReadNext, PTL DEF Spec

-----------------------------------------------------------------------------
(* What is read.                                                           *)

\* A reading is what a copy makes of the text that cuts every line whole.
LEMMA ReadingIs ==
    ASSUME ReadInv, NEW r \in Readings
    PROVE  \E D \in {{LF}, {CR, LF}} :
              /\ r = RequestOf(CString(text), D) /\ Kept(eol, D) = <<>>
              /\ FirstInv(D) /\ HeaderInv(D)
<1>1. CASE r = provided
  <2>1. Kept(eol, {CR, LF}) = <<>>
    BY DEF Kept
  <2> QED
    BY <1>1, <2>1 DEF ReadInv, TextInv, ParseProvided
<1>2. CASE r = parsed /\ eol = <<LF>>
  <2>1. <<LF>> # <<CR, LF>>
    OBVIOUS
  <2>2. Kept(eol, LineDelims) = <<>>
    BY <1>2, <2>1 DEF Kept
  <2> QED
    BY <1>2, <2>2, LineDelimsAssumption DEF ReadInv, TextInv, Parse
<1> QED
  BY <1>1, <1>2 DEF Readings

\* The host of a request is the last one that its lines give, for any number
\* of lines, whole when it has a colon of its own and without blanks, though
\* http_request_parse looks at the lines one by one and never at the header
\* that came before.
THEOREM HostIsRead == Spec => []HostRead
<1>1. ASSUME ReadInv PROVE HostRead
  <2> SUFFICES ASSUME NEW r \in Readings, r # NoRequest
               PROVE  IF r.header_host = Null THEN NoneGives(HostOf)
                      ELSE LastGives(HostOf, r.header_host)
    BY DEF HostRead
  <2>1. PICK D \in {{LF}, {CR, LF}} :
               r = RequestOf(CString(text), D) /\ HeaderInv(D)
    BY <1>1, ReadingIs
  <2>2. r.header_host = LastHeader(CString(text), D, "Host")
    BY <2>1, RequestFields
  <2> QED
    BY <2>1, <2>2 DEF HeaderInv
<1> QED
  BY <1>1, ReadAlways, PTL

\* The content length of a request is the number of the last header of that
\* name, and a request without such a header has none, for any number of
\* lines.
THEOREM LengthIsRead == Spec => []LengthRead
<1>1. ASSUME ReadInv PROVE LengthRead
  <2> SUFFICES ASSUME NEW r \in Readings, r # NoRequest
               PROVE  IF r.has_content_length
                      THEN LastGives(LengthOf, r.content_length)
                      ELSE NoneGives(LengthOf)
    BY DEF LengthRead
  <2>1. PICK D \in {{LF}, {CR, LF}} :
               r = RequestOf(CString(text), D) /\ HeaderInv(D)
    BY <1>1, ReadingIs
  <2> DEFINE h == LastHeader(CString(text), D, "Content-Length")
  <2>2. /\ r.has_content_length = (h # Null)
        /\ r.content_length = Number(h)
    BY <2>1, RequestFields
  <2> QED
    BY <2>1, <2>2 DEF HeaderInv
<1> QED
  BY <1>1, ReadAlways, PTL

\* A request is found exactly when the first line that is not empty has three
\* words, and its method, target and version are those words, for any number
\* of lines: no later line is ever taken for the request line.
THEOREM RequestLineIsRead == Spec => []RequestLineRead
<1>1. ASSUME ReadInv PROVE RequestLineRead
  <2> DEFINE c == CString(text)
             found(i) == IsRequestLine(i) /\ WordsOf[lines[i]] # <<>>
  <2> SUFFICES ASSUME NEW r \in Readings
               PROVE  /\ r # NoRequest <=> \E i \in DOMAIN lines : found(i)
                      /\ \A i \in DOMAIN lines : found(i) =>
                           /\ r.method = WordsOf[lines[i]][1]
                           /\ r.target = <<WordsOf[lines[i]][2]>>
                           /\ r.version = <<WordsOf[lines[i]][3]>>
    BY DEF RequestLineRead
  <2>1. PICK D \in {{LF}, {CR, LF}} :
               /\ r = RequestOf(c, D) /\ Kept(eol, D) = <<>> /\ FirstInv(D)
    BY <1>1, ReadingIs
  <2>2. TextInv /\ lines \in Seq(AnyLine)
    BY <1>1 DEF ReadInv
  <2>3. \A i : IsRequestLine(i) <=> FirstOf(lines, i)
    <3>1. Read = ReadOf(lines)
      BY DEF Read, ReadOf
    <3> QED
      BY <3>1 DEF IsRequestLine, FirstOf
  <2>4. IF Starts(c, D) = {}
        THEN \A i : ~FirstOf(lines, i)
        ELSE \E i \in 1 .. Len(lines) :
                /\ FirstOf(lines, i) /\ FirstLine(c, D) = Cut(lines[i])
                /\ \A j : FirstOf(lines, j) => j = i
    BY <2>1, <2>2, FirstIsRead
  <2>5. /\ ~HasRequest(c, D) => r = NoRequest
        /\ HasRequest(c, D) =>
             /\ r # NoRequest
             /\ r.method = Method(Word(FirstLine(c, D), 1))
             /\ r.target = Word(FirstLine(c, D), 2)
             /\ r.version = Word(FirstLine(c, D), 3)
    BY <2>1, RequestFields
  <2>6. CASE Starts(c, D) = {}
    <3>1. ~HasRequest(c, D)
      BY <2>6 DEF HasRequest
    <3> QED
      BY <2>3, <2>4, <2>5, <2>6, <3>1
  <2>7. CASE Starts(c, D) # {}
    <3>1. PICK i \in 1 .. Len(lines) :
                 /\ FirstOf(lines, i) /\ FirstLine(c, D) = Cut(lines[i])
                 /\ \A j : FirstOf(lines, j) => j = i
      BY <2>4, <2>7
    <3> DEFINE g == Cut(lines[i])
               w == WordsOf[lines[i]]
    <3>2. i \in DOMAIN lines /\ lines[i] \in AnyLine
      BY <2>2
    <3>3. Shows(g, Cut(lines[i]))
      <4>1. eol \in {<<LF>>, <<CR, LF>>}
        BY <2>2 DEF TextInv
      <4>2. /\ Shows(Shown(lines[i], eol, D), Cut(lines[i]))
            /\ Kept(eol, D) = <<>> => Shown(lines[i], eol, D) = Cut(lines[i])
        BY <3>2, <4>1, ShownLine
      <4> QED
        BY <2>1, <4>2
    <3>4. LineSeen(g, lines[i])
      BY <3>2, <3>3, LineIsSeen
    <3>5. HasRequest(c, D) <=> w # <<>>
      BY <2>7, <3>1, <3>4 DEF HasRequest, LineSeen, Asks
    <3>6. w # <<>> => /\ Method(Word(g, 1)) = w[1]
                      /\ Word(g, 2) = <<w[2]>> /\ Word(g, 3) = <<w[3]>>
      BY <3>4 DEF LineSeen, Asks
    <3>7. \A j : found(j) <=> j = i /\ w # <<>>
      BY <2>3, <3>1
    <3> QED
      BY <2>5, <3>1, <3>2, <3>5, <3>6, <3>7
  <2> QED
    BY <2>6, <2>7
<1> QED
  BY <1>1, ReadAlways, PTL

\* Of lines that end with CR LF and do not begin with an empty one, both
\* copies of http_request_parse read the same method, target and host; the
\* copy that cuts lines at LF alone keeps the CR in the version.
THEOREM CrStays == Spec => []CrStaysInVersion
<1>1. ASSUME ReadInv PROVE CrStaysInVersion
  <2> DEFINE c == CString(text)
             l == lines[1]
             w == WordsOf[l]
             f(D) == FirstLine(c, D)
             Ds == {{LF}, {CR, LF}}
  <2> SUFFICES ASSUME lines # <<>>, l # <<>>
               PROVE  /\ parsed = NoRequest <=> provided = NoRequest
                      /\ parsed # NoRequest =>
                           /\ parsed.method = provided.method
                           /\ parsed.target = provided.target
                           /\ parsed.version \in {provided.version,
                                                  provided.version \o <<CR>>}
                           /\ parsed.header_host = provided.header_host
    BY DEF CrStaysInVersion
  <2>1. /\ TextInv /\ lines \in Seq(AnyLine)
        /\ FirstInv(LineDelims) /\ FirstInv({CR, LF})
        /\ LineDelims \in Ds /\ {CR, LF} \in Ds
    BY <1>1, LineDelimsAssumption DEF ReadInv
  <2>2. ASSUME NEW D \in Ds, FirstInv(D)
        PROVE  /\ l \in AnyLine /\ Starts(c, D) # {}
               /\ f(D) = Shown(l, eol, D)
    BY <2>1, <2>2, BeginsWithInk
  <2>3. ASSUME NEW D \in Ds, FirstInv(D)
        PROVE  /\ Shows(f(D), Cut(l))
               /\ Kept(eol, D) = <<>> => f(D) = Cut(l)
    <3>1. eol \in {<<LF>>, <<CR, LF>>}
      BY <2>1 DEF TextInv
    <3>2. l \in AnyLine /\ f(D) = Shown(l, eol, D)
      BY <2>2, <2>3
    <3>3. /\ Shows(Shown(l, eol, D), Cut(l))
          /\ Kept(eol, D) = <<>> => Shown(l, eol, D) = Cut(l)
      BY <3>1, <3>2, ShownLine
    <3> QED
      BY <3>2, <3>3
  <2>4. ASSUME NEW D \in Ds, FirstInv(D)
        PROVE  /\ HasRequest(c, D) <=> w # <<>>
               /\ w # <<>> => Asks(f(D), Cut(l), w)
    <3>1. LineSeen(f(D), l)
      BY <2>2, <2>3, <2>4, LineIsSeen
    <3>2. Starts(c, D) # {}
      BY <2>2, <2>4
    <3> QED
      BY <3>1, <3>2 DEF HasRequest, LineSeen, Asks
  <2>5. parsed = RequestOf(c, LineDelims) /\ provided = RequestOf(c, {CR, LF})
    BY <2>1 DEF TextInv, Parse, ParseProvided
  <2>6. ASSUME NEW D \in Ds
        PROVE  LET r == RequestOf(c, D)
               IN  /\ ~HasRequest(c, D) => r = NoRequest
                   /\ HasRequest(c, D) =>
                        /\ r # NoRequest
                        /\ r.method = Method(Word(f(D), 1))
                        /\ r.target = Word(f(D), 2)
                        /\ r.version = Word(f(D), 3)
                        /\ r.header_host = LastHeader(c, D, "Host")
    BY RequestFields
  <2>7. LastHeader(c, LineDelims, "Host") = LastHeader(c, {CR, LF}, "Host")
    BY <1>1 DEF ReadInv, SameHost
  <2>8. f({CR, LF}) = Cut(l)
    <3>1. Kept(eol, {CR, LF}) = <<>>
      BY DEF Kept
    <3> QED
      BY <2>1, <2>3, <3>1
  <2>9. <<w[3]>> \o <<CR>> = <<w[3], CR>>
    BY TwoTokens
  <2> HIDE DEF c, f, l, w, Ds
  <2>10. CASE w = <<>>
    BY <2>1, <2>4, <2>5, <2>6, <2>10
  <2>11. CASE w # <<>>
    <3>1. Asks(f(LineDelims), Cut(l), w) /\ Asks(Cut(l), Cut(l), w)
      BY <2>1, <2>4, <2>8, <2>11
    <3>2. /\ HasRequest(c, LineDelims) /\ HasRequest(c, {CR, LF})
      BY <2>1, <2>4, <2>11
    <3>3. /\ parsed # NoRequest /\ provided # NoRequest
          /\ parsed.method = w[1] /\ provided.method = w[1]
          /\ parsed.target = <<w[2]>> /\ provided.target = <<w[2]>>
          /\ parsed.version \in {<<w[3]>>, <<w[3], CR>>}
          /\ provided.version = <<w[3]>>
      BY <2>1, <2>5, <2>6, <2>8, <3>1, <3>2 DEF Asks
    <3>4. parsed.header_host = provided.header_host
      BY <2>1, <2>5, <2>6, <2>7, <3>2
    <3> QED
      BY <2>9, <3>3, <3>4
  <2> QED
    BY <2>10, <2>11
<1> QED
  BY <1>1, ReadAlways, PTL
=============================================================================
