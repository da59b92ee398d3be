--------------------------- MODULE RequestProofs ---------------------------
(***************************************************************************)
(* Lemmas about the operators of Request: the fields strtok_r finds in a   *)
(* text that grows, the words of a line, the key and the value of a        *)
(* header, and what http_request_parse makes of them.                      *)
(***************************************************************************)
EXTENDS Request, SequenceTheorems, FiniteSetTheorems, TLAPS

-----------------------------------------------------------------------------
(* The least and the greatest number of a set.                             *)

LEMMA MinIs ==
    ASSUME NEW S \in SUBSET Int, NEW m \in S, \A i \in S : m <= i
    PROVE  Min(S) = m
<1>1. Min(S) \in S /\ \A i \in S : Min(S) <= i
  BY Zenon DEF Min
<1>2. Min(S) \in Int /\ m \in Int /\ Min(S) <= m /\ m <= Min(S)
  BY <1>1
<1> QED
  BY <1>2

LEMMA MaxIs ==
    ASSUME NEW S \in SUBSET Int, NEW m \in S, \A i \in S : m >= i
    PROVE  Max(S) = m
<1>1. Max(S) \in S /\ \A i \in S : Max(S) >= i
  BY Zenon DEF Max
<1>2. Max(S) \in Int /\ m \in Int /\ Max(S) >= m /\ m >= Max(S)
  BY <1>1
<1> QED
  BY <1>2

LEMMA LeastNumber ==
    ASSUME NEW S \in SUBSET Nat, S # {}
    PROVE  \E m \in S : \A i \in S : m <= i
<1> DEFINE R == {p \in Nat \X Nat : p[1] < p[2]}
<1>1. IsWellFoundedOn(R, Nat)
  <2>1. R = OpToRel(<, Nat)
    BY DEF OpToRel
  <2> QED BY <2>1, NatLessThanWellFounded
<1> HIDE DEF R
<1>2. PICK m \in S : \A j \in S : ~(<<j, m>> \in R)
  BY <1>1, WFMin
<1>3. SUFFICES ASSUME NEW j \in S PROVE m <= j
  OBVIOUS
<1>4. m \in Nat /\ j \in Nat /\ <<j, m>> \in Nat \X Nat /\ ~(<<j, m>> \in R)
  BY <1>2
<1> QED
  BY <1>4 DEF R

\* A non-empty set of numbers up to n has a least and a greatest one.
LEMMA Extremes ==
    ASSUME NEW n \in Nat, NEW S \in SUBSET (1 .. n), S # {}
    PROVE  /\ Min(S) \in S /\ \A i \in S : Min(S) <= i
           /\ Max(S) \in S /\ \A i \in S : Max(S) >= i
<1>1. PICK m \in S : \A i \in S : m <= i
  BY LeastNumber
<1>2. PICK k \in {n - i : i \in S} : \A j \in {n - i : i \in S} : k <= j
  <2>1. {n - i : i \in S} \in SUBSET Nat /\ {n - i : i \in S} # {}
    OBVIOUS
  <2> QED
    BY <2>1, LeastNumber
<1>3. PICK g \in S : k = n - g
  BY <1>2
<1>4. \A i \in S : g >= i
  <2> SUFFICES ASSUME NEW i \in S PROVE g >= i
    OBVIOUS
  <2>1. n - g <= n - i
    BY <1>2, <1>3
  <2> QED
    BY <2>1
<1>5. S \in SUBSET Int
  OBVIOUS
<1>6. Min(S) = m
  BY <1>1, <1>5, MinIs
<1>7. Max(S) = g
  BY <1>3, <1>4, <1>5, MaxIs
<1> QED
  BY <1>1, <1>3, <1>4, <1>6, <1>7

-----------------------------------------------------------------------------
(* The fields of a text.                                                   *)

\* The field of s that begins at i ends at e, before the first token of D.
Spans(s, D, i, e) ==
    /\ e \in i .. Len(s)
    /\ e = Len(s) \/ s[e + 1] \in D
    /\ \A j \in i + 1 .. e : s[j] \notin D

LEMMA FieldIs ==
    ASSUME NEW T, NEW D, NEW s \in Seq(T), NEW i \in 1 .. Len(s),
           NEW e \in Int, Spans(s, D, i, e)
    PROVE  FieldAt(s, D, i) = SubSeq(s, i, e)
<1>6. /\ e \in i .. Len(s) /\ (e = Len(s) \/ s[e + 1] \in D)
      /\ \A j \in i + 1 .. e : s[j] \notin D
  BY DEF Spans
<1> DEFINE E == {j \in i .. Len(s) : j = Len(s) \/ s[j + 1] \in D}
<1>1. i \in Nat /\ Len(s) \in Nat
  OBVIOUS
<1>2. E \in SUBSET Int
  BY <1>1
<1>3. e \in E
  BY <1>6
<1>4. ASSUME NEW j \in E PROVE e <= j
  <2>1. j \in Int /\ j >= i /\ j <= Len(s)
    BY <1>1
  <2>2. j = Len(s) \/ s[j + 1] \in D
    OBVIOUS
  <2> HIDE DEF E
  <2>3. SUFFICES ASSUME j < e PROVE FALSE
    BY <1>1, <1>6, <2>1
  <2>4. j + 1 \in i + 1 .. e /\ s[j + 1] \in D
    BY <1>1, <1>6, <2>1, <2>2, <2>3
  <2> QED
    BY <1>6, <2>4
<1>5. Min(E) = e
  <2> HIDE DEF E
  <2> QED
    BY <1>2, <1>3, <1>4, MinIs
<1> QED
  BY <1>5 DEF FieldAt

LEMMA FieldEnds ==
    ASSUME NEW T, NEW D, NEW s \in Seq(T), NEW i \in 1 .. Len(s)
    PROVE  \E e \in Int : Spans(s, D, i, e)
<1> DEFINE E == {j \in i .. Len(s) : j = Len(s) \/ s[j + 1] \in D}
<1>1. i \in Nat \ {0} /\ Len(s) \in Nat /\ i <= Len(s)
  OBVIOUS
<1>2. E \in SUBSET (1 .. Len(s)) /\ Len(s) \in E /\ E # {}
  BY <1>1
<1>3. Min(E) \in E /\ \A j \in E : Min(E) <= j
  BY <1>1, <1>2, Extremes
<1> DEFINE e == Min(E)
<1>4. e \in i .. Len(s) /\ (e = Len(s) \/ s[e + 1] \in D)
  BY <1>3
<1>5. \A j \in i + 1 .. e : s[j] \notin D
  <2> SUFFICES ASSUME NEW j \in i + 1 .. e, s[j] \in D PROVE FALSE
    OBVIOUS
  <2> HIDE DEF e, E
  <2>1. j - 1 \in i .. Len(s) /\ s[(j - 1) + 1] \in D
    BY <1>1, <1>4
  <2>2. j - 1 \in E
    BY <2>1 DEF E
  <2>3. e <= j - 1
    BY <1>3, <2>2 DEF e
  <2> QED
    BY <1>1, <1>4, <2>3
<1> HIDE DEF e
<1> QED
  BY <1>1, <1>4, <1>5 DEF Spans

\* A text is complete when no field of it can grow.
Complete(s, D) == s = <<>> \/ s[Len(s)] \in D

\* The fields of a complete text stay when a text follows, and the fields of
\* that text come after them.
LEMMA StartsOfConcat ==
    ASSUME NEW T, NEW D, NEW s \in Seq(T), NEW t \in Seq(T), Complete(s, D)
    PROVE  \A i \in Int :
              i \in Starts(s \o t, D) <=>
                  i \in Starts(s, D) \/ i - Len(s) \in Starts(t, D)
<1> DEFINE u == s \o t
<1>1. /\ Len(s) \in Nat /\ Len(t) \in Nat /\ Len(u) = Len(s) + Len(t)
      /\ DOMAIN s = 1 .. Len(s) /\ DOMAIN t = 1 .. Len(t)
      /\ DOMAIN u = 1 .. Len(s) + Len(t)
      /\ \A i \in 1 .. Len(s) + Len(t) :
            u[i] = IF i <= Len(s) THEN s[i] ELSE t[i - Len(s)]
  BY ConcatProperties
<1> HIDE DEF u
<1> SUFFICES ASSUME NEW i \in Int
             PROVE  i \in Starts(u, D) <=>
                      i \in Starts(s, D) \/ i - Len(s) \in Starts(t, D)
  BY DEF u
<1>2. CASE i \in 1 .. Len(s)
  <2>1. u[i] = s[i] /\ (i # 1 => u[i - 1] = s[i - 1])
    BY <1>1, <1>2
  <2>2. i \in DOMAIN u /\ i \in DOMAIN s /\ i - Len(s) \notin DOMAIN t
    BY <1>1, <1>2
  <2> QED
    BY <2>1, <2>2 DEF Starts
<1>3. CASE i \in Len(s) + 1 .. Len(s) + Len(t)
  <2> DEFINE k == i - Len(s)
  <2>1. k \in DOMAIN t /\ i \in DOMAIN u /\ i \notin DOMAIN s
    BY <1>1, <1>3
  <2>2. u[i] = t[k]
    BY <1>1, <1>3
  <2>3. CASE k = 1
    <3>1. i = Len(s) + 1
      BY <1>1, <1>3, <2>3
    <3>2. i = 1 \/ u[i - 1] \in D
      <4>1. CASE s = <<>>
        BY <3>1, <4>1
      <4>2. CASE s # <<>>
        <5>1. Len(s) >= 1 /\ i - 1 = Len(s) /\ u[Len(s)] = s[Len(s)]
          BY <1>1, <3>1, <4>2
        <5> QED
          BY <4>2, <5>1 DEF Complete
      <4> QED
        BY <4>1, <4>2
    <3> QED
      BY <2>1, <2>2, <2>3, <3>2 DEF Starts
  <2>4. CASE k # 1
    <3>1. i # 1 /\ u[i - 1] = t[k - 1]
      BY <1>1, <1>3, <2>4
    <3> QED
      BY <2>1, <2>2, <2>4, <3>1 DEF Starts
  <2> QED
    BY <2>3, <2>4
<1>4. CASE i \notin 1 .. Len(s) + Len(t)
  <2>1. i \notin DOMAIN u /\ i \notin DOMAIN s /\ i - Len(s) \notin DOMAIN t
    BY <1>1, <1>4
  <2> QED
    BY <2>1 DEF Starts
<1> QED
  BY <1>1, <1>2, <1>3, <1>4

LEMMA FieldsOfConcat ==
    ASSUME NEW T, NEW D, NEW s \in Seq(T), NEW t \in Seq(T), Complete(s, D)
    PROVE  /\ \A i \in Starts(s, D) :
                FieldAt(s \o t, D, i) = FieldAt(s, D, i)
           /\ \A i \in Starts(t, D) :
                FieldAt(s \o t, D, Len(s) + i) = FieldAt(t, D, i)
<1> DEFINE u == s \o t
<1>1. Len(s) \in Nat /\ Len(t) \in Nat /\ Len(u) = Len(s) + Len(t)
  BY ConcatProperties
<1>4. u \in Seq(T)
  BY ConcatProperties
<1>5. \A i \in 1 .. Len(s) : u[i] = s[i]
  BY <1>1, ConcatProperties
<1>6. ASSUME NEW i \in 1 .. Len(t) PROVE u[Len(s) + i] = t[i]
  <2>1. Len(s) + i \in 1 .. Len(s) + Len(t) /\ ~(Len(s) + i <= Len(s))
        /\ (Len(s) + i) - Len(s) = i
    BY <1>1
  <2> QED
    BY <2>1, ConcatProperties
<1>2. ASSUME NEW i \in Starts(s, D) PROVE FieldAt(u, D, i) = FieldAt(s, D, i)
  <2>1. i \in 1 .. Len(s) /\ s[i] \notin D
    BY DEF Starts
  <2>2. PICK e \in Int : Spans(s, D, i, e)
    BY <2>1, FieldEnds
  <2>3. s[Len(s)] \in D
    BY <2>1 DEF Complete
  <2>4. e # Len(s)
    <3> SUFFICES ASSUME e = Len(s) PROVE FALSE
      OBVIOUS
    <3>1. CASE i = e
      BY <2>1, <2>3, <3>1
    <3>2. CASE i # e
      BY <1>1, <2>1, <2>2, <2>3, <3>2 DEF Spans
    <3> QED
      BY <3>1, <3>2
  <2> HIDE DEF u
  <2>5. Spans(u, D, i, e)
    BY <1>1, <1>5, <2>1, <2>2, <2>4 DEF Spans
  <2>6. FieldAt(u, D, i) = SubSeq(u, i, e)
    <3>1. i \in 1 .. Len(u)
      BY <1>1, <2>1
    <3> QED
      BY <1>4, <2>5, <3>1, FieldIs
  <2>7. SubSeq(u, i, e) = SubSeq(s, i, e)
    BY <1>1, <2>1, <2>2, SubSeqOfConcat1 DEF u, Spans
  <2>8. FieldAt(s, D, i) = SubSeq(s, i, e)
    BY <2>1, <2>2, FieldIs
  <2> QED
    BY <2>6, <2>7, <2>8
<1>3. ASSUME NEW i \in Starts(t, D)
      PROVE  FieldAt(u, D, Len(s) + i) = FieldAt(t, D, i)
  <2>1. i \in 1 .. Len(t)
    BY DEF Starts
  <2>2. PICK e \in Int : Spans(t, D, i, e)
    BY <2>1, FieldEnds
  <2> DEFINE n == Len(s)
  <2> HIDE DEF u
  <2>3. \A j \in 1 .. Len(t) : u[n + j] = t[j]
    BY <1>6
  <2>4. /\ n + i \in 1 .. Len(u) /\ n + e \in n + i .. Len(u)
        /\ n + e = Len(u) \/ u[(n + e) + 1] \in D
    <3>1. e \in i .. Len(t) /\ (e = Len(t) \/ t[e + 1] \in D)
      BY <2>2 DEF Spans
    <3>2. e # Len(t) => u[n + (e + 1)] = t[e + 1]
      BY <1>1, <2>1, <2>3, <3>1
    <3> QED
      BY <1>1, <2>1, <3>1, <3>2
  <2>5. ASSUME NEW j \in (n + i) + 1 .. n + e PROVE u[j] \notin D
    <3>1. j - n \in i + 1 .. e /\ n + (j - n) = j
      BY <1>1, <2>1, <2>2
    <3>2. j - n \in 1 .. Len(t)
      BY <1>1, <2>1, <2>2, <3>1 DEF Spans
    <3> QED
      BY <2>2, <2>3, <3>1, <3>2 DEF Spans
  <2>6. Spans(u, D, n + i, n + e)
    BY <2>4, <2>5 DEF Spans
  <2>7. FieldAt(u, D, n + i) = SubSeq(u, n + i, n + e)
    <3>1. n + i \in 1 .. Len(u) /\ n + e \in Int
      BY <1>1, <2>1, <2>4
    <3> HIDE DEF n
    <3> QED
      BY <1>4, <2>6, <3>1, FieldIs
  <2>8. SubSeq(u, n + i, n + e) = SubSeq(t, (n + i) - n, (n + e) - n)
    BY <1>1, <2>1, <2>2, SubSeqOfConcat2 DEF u, Spans
  <2>9. (n + i) - n = i /\ (n + e) - n = e
    BY <1>1, <2>1, <2>2
  <2>10. FieldAt(t, D, i) = SubSeq(t, i, e)
    BY <2>1, <2>2, FieldIs
  <2> QED
    BY <2>7, <2>8, <2>9, <2>10
<1> QED
  BY <1>2, <1>3

LEMMA StartsBound ==
    ASSUME NEW T, NEW D, NEW s \in Seq(T)
    PROVE  Len(s) \in Nat /\ Starts(s, D) \in SUBSET (1 .. Len(s))
BY DEF Starts

LEMMA StartsLeast ==
    ASSUME NEW T, NEW D, NEW s \in Seq(T), Starts(s, D) # {}
    PROVE  /\ Min(Starts(s, D)) \in Starts(s, D)
           /\ \A i \in Starts(s, D) : Min(Starts(s, D)) <= i
BY StartsBound, Extremes

\* The first line of a text.
FirstLine(s, D) == FieldAt(s, D, Min(Starts(s, D)))

\* Once a text has a first line, it keeps it.
LEMMA FirstLineStays ==
    ASSUME NEW T, NEW D, NEW s \in Seq(T), NEW t \in Seq(T), Complete(s, D),
           Starts(s, D) # {}
    PROVE  /\ Starts(s \o t, D) # {}
           /\ Min(Starts(s \o t, D)) = Min(Starts(s, D))
           /\ FirstLine(s \o t, D) = FirstLine(s, D)
<1> DEFINE m == Min(Starts(s, D))
           U == Starts(s \o t, D)
<1>1. m \in Starts(s, D) /\ m \in 1 .. Len(s) /\ Len(s) \in Nat
      /\ \A i \in Starts(s, D) : m <= i
  BY StartsLeast, StartsBound
<1>2. m \in U
  BY <1>1, StartsOfConcat
<1>3. s \o t \in Seq(T) /\ U \in SUBSET Int
  <2>1. s \o t \in Seq(T)
    BY ConcatProperties
  <2>2. Len(s \o t) \in Nat /\ U \in SUBSET (1 .. Len(s \o t))
    BY <2>1, StartsBound
  <2> QED
    BY <2>1, <2>2
<1>4. ASSUME NEW i \in U PROVE m <= i
  <2>1. i \in Int /\ (i \in Starts(s, D) \/ i - Len(s) \in Starts(t, D))
    BY <1>3, StartsOfConcat
  <2>2. i - Len(s) \in Starts(t, D) => i - Len(s) >= 1
    BY StartsBound
  <2> HIDE DEF m, U
  <2> QED
    BY <1>1, <2>1, <2>2
<1>5. Min(U) = m
  <2> HIDE DEF m, U
  <2> QED
    BY <1>2, <1>3, <1>4, MinIs
<1>6. FieldAt(s \o t, D, m) = FieldAt(s, D, m)
  BY <1>1, FieldsOfConcat
<1> QED
  BY <1>2, <1>5, <1>6 DEF FirstLine

\* Then every line that follows may be a header.
LEMMA HeadersOfConcat ==
    ASSUME NEW T, NEW D, NEW s \in Seq(T), NEW t \in Seq(T), Complete(s, D),
           Starts(s, D) # {}, NEW key, NEW i \in Int
    PROVE  i \in HeaderLines(s \o t, D, key) <=>
             \/ i \in HeaderLines(s, D, key)
             \/ /\ i - Len(s) \in Starts(t, D)
                /\ HasKey(FieldAt(t, D, i - Len(s)), key)
<1> DEFINE m == Min(Starts(s, D))
           u == s \o t
<1>1. m \in 1 .. Len(s) /\ Len(s) \in Nat
  BY StartsLeast, StartsBound
<1>2. Min(Starts(u, D)) = m
  BY FirstLineStays
<1>3. i \in Starts(u, D) <=> i \in Starts(s, D) \/ i - Len(s) \in Starts(t, D)
  BY StartsOfConcat
<1>4. i \in Starts(s, D) =>
        FieldAt(u, D, i) = FieldAt(s, D, i) /\ i - Len(s) \notin Starts(t, D)
  <2>1. i \in Starts(s, D) => i <= Len(s)
    BY <1>1, StartsBound
  <2>2. i - Len(s) \in Starts(t, D) => i - Len(s) >= 1
    BY StartsBound
  <2>3. i \in Starts(s, D) => FieldAt(u, D, i) = FieldAt(s, D, i)
    BY FieldsOfConcat
  <2> QED
    BY <1>1, <2>1, <2>2, <2>3
<1>5. i - Len(s) \in Starts(t, D) =>
        FieldAt(u, D, i) = FieldAt(t, D, i - Len(s)) /\ i # m
  <2> SUFFICES ASSUME i - Len(s) \in Starts(t, D)
               PROVE  FieldAt(u, D, i) = FieldAt(t, D, i - Len(s)) /\ i # m
    OBVIOUS
  <2>1. i - Len(s) >= 1
    BY StartsBound
  <2>2. Len(s) + (i - Len(s)) = i
    BY <1>1
  <2>3. FieldAt(u, D, Len(s) + (i - Len(s))) = FieldAt(t, D, i - Len(s))
    BY FieldsOfConcat
  <2>4. i # m
    BY <1>1, <2>1
  <2> QED
    BY <2>2, <2>3, <2>4
<1> HIDE DEF u, m
<1>6. i \in HeaderLines(u, D, key) <=>
        i \in Starts(u, D) /\ i # m /\ HasKey(FieldAt(u, D, i), key)
  BY <1>2 DEF HeaderLines
<1>7. i \in HeaderLines(s, D, key) <=>
        i \in Starts(s, D) /\ i # m /\ HasKey(FieldAt(s, D, i), key)
  BY DEF HeaderLines, m
<1>8. i \in HeaderLines(u, D, key) <=>
             \/ i \in HeaderLines(s, D, key)
             \/ /\ i - Len(s) \in Starts(t, D)
                /\ HasKey(FieldAt(t, D, i - Len(s)), key)
  BY <1>3, <1>4, <1>5, <1>6, <1>7
<1> QED
  BY <1>8 DEF u

LEMMA HeaderLinesBound ==
    ASSUME NEW T, NEW D, NEW s \in Seq(T), NEW key
    PROVE  /\ HeaderLines(s, D, key) \in SUBSET Starts(s, D)
           /\ HeaderLines(s, D, key) \in SUBSET (1 .. Len(s))
           /\ HeaderLines(s, D, key) \in SUBSET Int
<1>1. HeaderLines(s, D, key) \in SUBSET Starts(s, D)
  BY DEF HeaderLines
<1>2. HeaderLines(s, D, key) \in SUBSET (1 .. Len(s))
  BY <1>1, StartsBound
<1> QED
  BY <1>1, <1>2

LEMMA HeaderLinesMost ==
    ASSUME NEW T, NEW D, NEW s \in Seq(T), NEW key,
           HeaderLines(s, D, key) # {}
    PROVE  /\ Max(HeaderLines(s, D, key)) \in HeaderLines(s, D, key)
           /\ \A i \in HeaderLines(s, D, key) :
                Max(HeaderLines(s, D, key)) >= i
BY HeaderLinesBound, StartsBound, Extremes

\* Lines without the key leave the header as it is.
LEMMA HeaderStays ==
    ASSUME NEW T, NEW D, NEW s \in Seq(T), NEW t \in Seq(T), Complete(s, D),
           Starts(s, D) # {}, NEW key,
           \A i \in Starts(t, D) : ~HasKey(FieldAt(t, D, i), key)
    PROVE  LastHeader(s \o t, D, key) = LastHeader(s, D, key)
<1> DEFINE u == s \o t
           H == HeaderLines(s, D, key)
<1>1. u \in Seq(T)
  BY ConcatProperties
<1>2. HeaderLines(u, D, key) = H
  <2>1. HeaderLines(u, D, key) \in SUBSET Int /\ H \in SUBSET Int
    BY <1>1, HeaderLinesBound
  <2>2. \A i \in Int : i \in HeaderLines(u, D, key) <=> i \in H
    BY HeadersOfConcat
  <2> HIDE DEF u, H
  <2> QED
    BY <2>1, <2>2
<1>3. H # {} => FieldAt(u, D, Max(H)) = FieldAt(s, D, Max(H))
  BY HeaderLinesMost, HeaderLinesBound, FieldsOfConcat
<1> QED
  BY <1>2, <1>3 DEF LastHeader

\* A line with the key gives the header.
LEMMA HeaderChanges ==
    ASSUME NEW T, NEW D, NEW s \in Seq(T), NEW t \in Seq(T), Complete(s, D),
           Starts(s, D) # {}, NEW key, NEW p, Starts(t, D) = {p},
           HasKey(FieldAt(t, D, p), key)
    PROVE  LastHeader(s \o t, D, key) = Value(FieldAt(t, D, p))
<1> DEFINE u == s \o t
           H == HeaderLines(u, D, key)
           q == Len(s) + p
<1>1. u \in Seq(T)
  BY ConcatProperties
<1>2. Len(s) \in Nat /\ p \in Nat \ {0} /\ q \in Int /\ q - Len(s) = p
  BY StartsBound
<1>3. H \in SUBSET Int
  BY <1>1, HeaderLinesBound
<1>4. q \in H
  BY <1>2, HeadersOfConcat
<1>5. ASSUME NEW i \in H PROVE q >= i
  <2>1. i \in Int /\ (i \in HeaderLines(s, D, key) \/ i - Len(s) = p)
    BY <1>3, HeadersOfConcat
  <2>2. i \in HeaderLines(s, D, key) => i <= Len(s)
    BY HeaderLinesBound, StartsBound
  <2> HIDE DEF H
  <2> QED
    BY <1>2, <2>1, <2>2
<1>6. Max(H) = q
  <2> HIDE DEF H, q
  <2> QED
    BY <1>3, <1>4, <1>5, MaxIs
<1>7. FieldAt(u, D, q) = FieldAt(t, D, p)
  BY FieldsOfConcat
<1> QED
  BY <1>4, <1>6, <1>7 DEF LastHeader

-----------------------------------------------------------------------------
(* The first occurrence of a token.                                        *)

LEMMA IndexIs ==
    ASSUME NEW T, NEW s \in Seq(T), NEW x, NEW i \in 1 .. Len(s), s[i] = x,
           \A j \in 1 .. i - 1 : s[j] # x
    PROVE  IndexOf(s, x) = i
<1> DEFINE I == {j \in DOMAIN s : s[j] = x}
<1>1. i \in I
  OBVIOUS
<1>2. ASSUME NEW j \in I PROVE j \in Int /\ i <= j
  <2>1. j \in 1 .. Len(s) /\ s[j] = x /\ i \in Nat /\ Len(s) \in Nat
    OBVIOUS
  <2>2. j < i => j \in 1 .. i - 1
    BY <2>1
  <2> QED
    BY <2>1, <2>2
<1>3. Min(I) = i
  <2> HIDE DEF I
  <2> QED
    BY <1>1, <1>2, MinIs
<1> QED
  BY <1>1, <1>3 DEF IndexOf

LEMMA IndexIsZero ==
    ASSUME NEW T, NEW s \in Seq(T), NEW x, \A j \in 1 .. Len(s) : s[j] # x
    PROVE  IndexOf(s, x) = 0
BY DEF IndexOf

LEMMA IndexIsFirst ==
    ASSUME NEW T, NEW s \in Seq(T), NEW x
    PROVE  \/ /\ IndexOf(s, x) = 0
              /\ \A j \in 1 .. Len(s) : s[j] # x
           \/ /\ IndexOf(s, x) \in 1 .. Len(s) /\ s[IndexOf(s, x)] = x
              /\ \A j \in 1 .. IndexOf(s, x) - 1 : s[j] # x
<1> DEFINE I == {j \in DOMAIN s : s[j] = x}
<1>1. Len(s) \in Nat /\ I \in SUBSET (1 .. Len(s))
  OBVIOUS
<1>2. CASE I = {}
  <2>1. \A j \in 1 .. Len(s) : s[j] # x
    BY <1>2
  <2> QED
    BY <2>1, IndexIsZero
<1>3. CASE I # {}
  <2> DEFINE m == Min(I)
  <2>1. m \in I /\ \A j \in I : m <= j
    BY <1>1, <1>3, Extremes
  <2>2. m \in 1 .. Len(s) /\ s[m] = x
    BY <2>1
  <2>3. ASSUME NEW j \in 1 .. m - 1 PROVE s[j] # x
    <3> HIDE DEF m
    <3>1. j \in 1 .. Len(s) /\ ~(m <= j)
      BY <1>1, <2>2
    <3> QED
      BY <2>1, <3>1
  <2> HIDE DEF m
  <2>4. IndexOf(s, x) = m
    BY <2>2, <2>3, IndexIs
  <2> QED
    BY <2>2, <2>3, <2>4
<1> QED
  BY <1>2, <1>3

\* strdup stops at the first NUL.
HasNul(s) == \E i \in 1 .. Len(s) : s[i] = NUL

LEMMA WholeCString ==
    ASSUME NEW T, NEW s \in Seq(T), ~HasNul(s)
    PROVE  CString(s) = s
BY IndexIsZero DEF HasNul, CString

LEMMA CStringIsSeq ==
    ASSUME NEW T, NEW s \in Seq(T)
    PROVE  /\ CString(s) \in Seq(T)
           /\ \A i \in 1 .. Len(CString(s)) : CString(s)[i] # NUL
<1>1. CASE ~HasNul(s)
  BY <1>1, WholeCString DEF HasNul
<1>2. CASE HasNul(s)
  <2> DEFINE n == IndexOf(s, NUL)
  <2>1. n \in 1 .. Len(s) /\ \A j \in 1 .. n - 1 : s[j] # NUL
    BY <1>2, IndexIsFirst DEF HasNul
  <2>2. CString(s) = SubSeq(s, 1, n - 1)
    BY <2>1 DEF CString
  <2> HIDE DEF n
  <2>3. n - 1 \in 0 .. Len(s) /\ Len(s) \in Nat
    BY <2>1
  <2>4. /\ SubSeq(s, 1, n - 1) \in Seq(T) /\ Len(SubSeq(s, 1, n - 1)) = n - 1
        /\ \A i \in 1 .. n - 1 : SubSeq(s, 1, n - 1)[i] = s[i]
    BY <2>3
  <2> QED
    BY <2>1, <2>2, <2>4
<1> QED
  BY <1>1, <1>2

LEMMA CStringOfConcat ==
    ASSUME NEW T, NEW s \in Seq(T), NEW t \in Seq(T)
    PROVE  CString(s \o t) = IF HasNul(s) THEN CString(s) ELSE s \o CString(t)
<1> DEFINE u == s \o t
           n == Len(s)
<1>1. /\ n \in Nat /\ Len(t) \in Nat /\ Len(u) = n + Len(t) /\ u \in Seq(T)
      /\ \A i \in 1 .. n + Len(t) : u[i] = IF i <= n THEN s[i] ELSE t[i - n]
  BY ConcatProperties
<1>2. \A i \in 1 .. n : i \in 1 .. Len(u) /\ u[i] = s[i]
  BY <1>1
<1> HIDE DEF u, n
<1>3. CASE HasNul(s)
  <2> DEFINE m == IndexOf(s, NUL)
  <2>1. /\ m \in 1 .. n /\ s[m] = NUL
        /\ \A j \in 1 .. m - 1 : s[j] # NUL
    BY <1>3, IndexIsFirst DEF HasNul, n
  <2> HIDE DEF m
  <2>2. m \in 1 .. Len(u) /\ u[m] = NUL
    BY <1>2, <2>1
  <2>6. ASSUME NEW j \in 1 .. m - 1 PROVE u[j] # NUL
    <3>1. n \in Nat /\ j \in 1 .. n
      BY <1>1, <2>1
    <3> QED
      BY <1>2, <2>1, <3>1
  <2>3. IndexOf(u, NUL) = m
    BY <1>1, <2>2, <2>6, IndexIs
  <2>4. CString(u) = SubSeq(u, 1, m - 1) /\ CString(s) = SubSeq(s, 1, m - 1)
    BY <2>1, <2>3 DEF CString, m
  <2>5. SubSeq(u, 1, m - 1) = SubSeq(s, 1, m - 1)
    <3>1. CASE m = 1
      BY <3>1, SubSeqEmpty
    <3>2. CASE m # 1
      BY <1>1, <2>1, <3>2, SubSeqOfConcat1 DEF u, n
    <3> QED
      BY <3>1, <3>2
  <2> QED
    BY <1>3, <2>4, <2>5 DEF u
<1>4. CASE ~HasNul(s) /\ ~HasNul(t)
  <2>1. ASSUME NEW i \in 1 .. Len(u) PROVE u[i] # NUL
    <3>1. CASE i <= n
      BY <1>1, <1>4, <3>1 DEF HasNul, n
    <3>2. CASE ~(i <= n)
      <4>1. u[i] = t[i - n] /\ i - n \in 1 .. Len(t)
        BY <1>1, <3>2
      <4> QED
        BY <1>4, <4>1 DEF HasNul
    <3> QED
      BY <3>1, <3>2
  <2>2. CString(u) = u
    BY <1>1, <2>1, WholeCString DEF HasNul
  <2>3. CString(t) = t
    BY <1>4, WholeCString
  <2> QED
    BY <1>4, <2>2, <2>3 DEF u
<1>5. CASE ~HasNul(s) /\ HasNul(t)
  <2> DEFINE m == IndexOf(t, NUL)
  <2>1. /\ m \in 1 .. Len(t) /\ t[m] = NUL
        /\ \A j \in 1 .. m - 1 : t[j] # NUL
    BY <1>5, IndexIsFirst DEF HasNul
  <2> HIDE DEF m
  <2>2. n + m \in 1 .. Len(u) /\ u[n + m] = NUL
    BY <1>1, <2>1
  <2>3. ASSUME NEW j \in 1 .. (n + m) - 1 PROVE u[j] # NUL
    <3>1. CASE j <= n
      BY <1>1, <1>2, <1>5, <3>1 DEF HasNul, n
    <3>2. CASE ~(j <= n)
      <4>1. u[j] = t[j - n] /\ j - n \in 1 .. m - 1
        BY <1>1, <2>1, <3>2
      <4> QED
        BY <2>1, <4>1
    <3> QED
      BY <3>1, <3>2
  <2>4. IndexOf(u, NUL) = n + m
    BY <1>1, <2>2, <2>3, IndexIs
  <2>5. /\ CString(u) = SubSeq(u, 1, (n + m) - 1)
        /\ CString(t) = SubSeq(t, 1, m - 1)
    BY <1>1, <2>1, <2>4 DEF CString, m
  <2> DEFINE v == SubSeq(t, 1, m - 1)
             w == SubSeq(u, 1, (n + m) - 1)
  <2>6. /\ v \in Seq(T) /\ Len(v) = m - 1
        /\ \A i \in 1 .. m - 1 : v[i] = t[i]
    BY <2>1
  <2>7. /\ w \in Seq(T) /\ Len(w) = (n + m) - 1
        /\ \A i \in 1 .. (n + m) - 1 : w[i] = u[i]
    BY <1>1, <2>2
  <2> HIDE DEF v, w
  <2>8. /\ s \o v \in Seq(T) /\ Len(s \o v) = (n + m) - 1
        /\ \A i \in 1 .. (n + m) - 1 :
              (s \o v)[i] = IF i <= n THEN s[i] ELSE v[i - n]
    <3>1. n + Len(v) = (n + m) - 1
      BY <1>1, <2>1, <2>6
    <3>2. /\ s \o v \in Seq(T) /\ Len(s \o v) = n + Len(v)
          /\ \A i \in 1 .. n + Len(v) :
                (s \o v)[i] = IF i <= n THEN s[i] ELSE v[i - n]
      BY <2>6, ConcatProperties DEF n
    <3> QED
      BY <3>1, <3>2
  <2>9. ASSUME NEW i \in 1 .. (n + m) - 1 PROVE w[i] = (s \o v)[i]
    <3>1. i \in 1 .. n + Len(t) /\ (~(i <= n) => i - n \in 1 .. m - 1)
      BY <1>1, <2>1
    <3> QED
      BY <1>1, <2>6, <2>7, <2>8, <3>1
  <2>10. w = s \o v
    BY <2>7, <2>8, <2>9, SeqEqual
  <2> QED
    BY <1>5, <2>5, <2>10 DEF u, v, w
<1> QED
  BY <1>3, <1>4, <1>5

-----------------------------------------------------------------------------
(* The request in a text.                                                  *)

LEMMA PartIsSeq ==
    ASSUME NEW T, NEW s \in Seq(T), NEW i \in 1 .. Len(s) + 1,
           NEW j \in 0 .. Len(s)
    PROVE  SubSeq(s, i, j) \in Seq(T)
<1>1. \A k \in i .. j : s[k] \in T
  <2> SUFFICES ASSUME NEW k \in i .. j PROVE s[k] \in T
    OBVIOUS
  <2>1. k \in 1 .. Len(s)
    OBVIOUS
  <2> QED
    BY <2>1, ElementOfSeq
<1>2. i \in Int /\ j \in Int
  OBVIOUS
<1> QED
  BY <1>1, <1>2, SubSeqProperties

LEMMA FieldIsSeq ==
    ASSUME NEW T, NEW D, NEW s \in Seq(T), NEW i \in Starts(s, D)
    PROVE  FieldAt(s, D, i) \in Seq(T)
<1>1. i \in 1 .. Len(s) /\ Len(s) \in Nat
  BY StartsBound
<1>2. PICK e \in Int : Spans(s, D, i, e)
  BY <1>1, FieldEnds
<1>3. FieldAt(s, D, i) = SubSeq(s, i, e)
  BY <1>1, <1>2, FieldIs
<1>4. i \in 1 .. Len(s) + 1 /\ e \in 0 .. Len(s)
  BY <1>1, <1>2 DEF Spans
<1> QED
  BY <1>3, <1>4, PartIsSeq

LEMMA TrimIsSeq ==
    ASSUME NEW T, NEW s \in Seq(T) PROVE Trim(s) \in Seq(T)
<1> DEFINE ink == {i \in DOMAIN s : s[i] \notin Blanks}
<1>1. Len(s) \in Nat /\ ink \in SUBSET (1 .. Len(s))
  OBVIOUS
<1>2. CASE ink = {}
  BY <1>2 DEF Trim
<1>3. CASE ink # {}
  <2>1. Min(ink) \in 1 .. Len(s) /\ Max(ink) \in 1 .. Len(s)
    BY <1>1, <1>3, Extremes
  <2>2. Trim(s) = SubSeq(s, Min(ink), Max(ink))
    BY <1>3 DEF Trim
  <2> HIDE DEF ink
  <2>3. Min(ink) \in 1 .. Len(s) + 1 /\ Max(ink) \in 0 .. Len(s)
    BY <1>1, <2>1
  <2> QED
    BY <2>2, <2>3, PartIsSeq
<1> QED
  BY <1>2, <1>3

\* A value is a string, though it may be the empty one.
LEMMA ValueIsSeq ==
    ASSUME NEW T, NEW s \in Seq(T), "NULL" \notin T
    PROVE  Value(s) \in Seq(T) /\ Value(s) # Null
<1>1. IndexOf(s, Colon) + 1 \in 1 .. Len(s) + 1 /\ Len(s) \in 0 .. Len(s)
  <2>1. IndexOf(s, Colon) \in 0 .. Len(s) /\ Len(s) \in Nat
    BY IndexIsFirst
  <2> QED
    BY <2>1
<1>2. SubSeq(s, IndexOf(s, Colon) + 1, Len(s)) \in Seq(T)
  BY <1>1, PartIsSeq
<1>3. Value(s) \in Seq(T)
  BY <1>2, TrimIsSeq DEF Value
<1>4. Null \notin Seq(T)
  <2> SUFFICES ASSUME Null \in Seq(T) PROVE FALSE
    OBVIOUS
  <2>1. Null[1] \in T /\ Null[1] = "NULL"
    BY DEF Null
  <2> QED
    BY <2>1
<1> QED
  BY <1>3, <1>4

\* A header that a text has is not NULL.
LEMMA HeaderIsNull ==
    ASSUME NEW T, NEW D, NEW s \in Seq(T), "NULL" \notin T, NEW key
    PROVE  LastHeader(s, D, key) = Null <=> HeaderLines(s, D, key) = {}
<1> DEFINE H == HeaderLines(s, D, key)
<1>1. H # {} => Max(H) \in Starts(s, D)
  BY HeaderLinesMost, HeaderLinesBound
<1>2. H # {} => FieldAt(s, D, Max(H)) \in Seq(T)
  BY <1>1, FieldIsSeq
<1>3. H # {} => LastHeader(s, D, key) # Null
  BY <1>2, ValueIsSeq DEF LastHeader
<1> QED
  BY <1>3 DEF LastHeader

\* A text has a request when its first line has three words.
HasRequest(s, D) ==
    Starts(s, D) # {} /\ ~(Cardinality(Starts(FirstLine(s, D), {SP})) < 3)

LEMMA RequestFields ==
    ASSUME NEW s, NEW D
    PROVE  LET r == RequestOf(s, D)
               l == FirstLine(s, D)
           IN  /\ ~HasRequest(s, D) => r = NoRequest
               /\ HasRequest(s, D) =>
                    /\ r # NoRequest
                    /\ r.method = Method(Word(l, 1))
                    /\ r.target = Word(l, 2) /\ r.version = Word(l, 3)
                    /\ r.header_host = LastHeader(s, D, "Host")
                    /\ r.has_content_length =
                         (LastHeader(s, D, "Content-Length") # Null)
                    /\ r.content_length =
                         Number(LastHeader(s, D, "Content-Length"))
<1> DEFINE r == RequestOf(s, D)
           l == FirstLine(s, D)
<1>1. ~HasRequest(s, D) => r = NoRequest
  BY DEF RequestOf, HasRequest, FirstLine
<1>2. ASSUME HasRequest(s, D)
      PROVE  r = [ method |-> Method(Word(l, 1)),
                   target |-> Word(l, 2),
                   version |-> Word(l, 3),
                   header_host |-> LastHeader(s, D, "Host"),
                   has_content_length |->
                       LastHeader(s, D, "Content-Length") # Null,
                   content_length |->
                       Number(LastHeader(s, D, "Content-Length")) ]
  BY <1>2 DEF RequestOf, HasRequest, FirstLine
<1>3. Method(Word(l, 1)) # "NULL" /\ NoRequest.method = "NULL"
  BY DEF Method, NoRequest
<1> HIDE DEF r, l
<1>4. HasRequest(s, D) => r.method # NoRequest.method
  BY <1>2, <1>3
<1>5. HasRequest(s, D) => r # NoRequest
  BY <1>4
<1>6. r = RequestOf(s, D) /\ l = FirstLine(s, D)
  BY DEF r, l
<1> QED
  BY <1>1, <1>2, <1>5, <1>6

-----------------------------------------------------------------------------
(* The words of a line.                                                    *)

LEMMA FewWords ==
    ASSUME NEW g, NEW a, NEW b, Starts(g, {SP}) \in SUBSET {a, b}
    PROVE  Cardinality(Starts(g, {SP})) < 3
<1> DEFINE W == Starts(g, {SP})
<1>1. IsFiniteSet({a, b}) /\ Cardinality({a, b}) <= 2
  <2>1. IsFiniteSet({a}) /\ Cardinality({a}) = 1
    BY FS_Singleton
  <2>2. {a, b} = {a} \cup {b}
    OBVIOUS
  <2> QED
    BY <2>1, <2>2, FS_AddElement
<1>2. IsFiniteSet(W) /\ Cardinality(W) <= Cardinality({a, b})
  BY <1>1, FS_Subset
<1>3. Cardinality(W) \in Nat /\ Cardinality({a, b}) \in Nat
  BY <1>1, <1>2, FS_CardinalityType
<1> QED
  BY <1>1, <1>2, <1>3

\* The k-th start of a set of starts is the one with k starts up to it.
LEMMA ThirdStart ==
    ASSUME NEW n \in Nat, NEW W \in SUBSET (1 .. n),
           NEW a \in W, NEW b \in W, NEW c \in W, a < b, b < c,
           \A i \in W : i \in {a, b, c} \/ i > c
    PROVE  /\ ~(Cardinality(W) < 3)
           /\ (CHOOSE i \in W : Cardinality({j \in W : j <= i}) = 1) = a
           /\ (CHOOSE i \in W : Cardinality({j \in W : j <= i}) = 2) = b
           /\ (CHOOSE i \in W : Cardinality({j \in W : j <= i}) = 3) = c
<1> DEFINE U(i) == {j \in W : j <= i}
<1>1. \A i \in W : i \in Int
  OBVIOUS
<1>10. a \in Int /\ b \in Int /\ c \in Int /\ a < b /\ b < c /\ a < c
  BY <1>1
<1>2. U(a) = {a} /\ U(b) = {a, b} /\ U(c) = {a, b, c}
  <2>1. \A j \in W : j \in Int /\ (j \in {a, b, c} \/ j > c)
    BY <1>1
  <2>2. \A j \in W : j <= a <=> j \in {a}
    BY <1>10, <2>1
  <2>3. \A j \in W : j <= b <=> j \in {a, b}
    BY <1>10, <2>1
  <2>4. \A j \in W : j <= c <=> j \in {a, b, c}
    BY <1>10, <2>1
  <2>5. \A x : x \in U(a) <=> x \in {a}
    BY <2>2
  <2>6. \A x : x \in U(b) <=> x \in {a, b}
    BY <2>3
  <2>7. \A x : x \in U(c) <=> x \in {a, b, c}
    BY <2>4
  <2> QED
    BY <2>5, <2>6, <2>7
<1>3. /\ Cardinality({a}) = 1 /\ Cardinality({a, b}) = 2
      /\ Cardinality({a, b, c}) = 3
      /\ IsFiniteSet({a, b, c})
  <2>1. IsFiniteSet({a}) /\ Cardinality({a}) = 1
    BY FS_Singleton
  <2>2. {a, b} = {a} \cup {b} /\ b \notin {a} /\ {a, b, c} = {a, b} \cup {c}
        /\ c \notin {a, b}
    BY <1>10
  <2>3. IsFiniteSet({a, b}) /\ Cardinality({a, b}) = 2
    BY <2>1, <2>2, FS_AddElement
  <2>4. IsFiniteSet({a, b, c}) /\ Cardinality({a, b, c}) = 2 + 1
    BY <2>2, <2>3, FS_AddElement
  <2> QED
    BY <2>1, <2>3, <2>4
<1>4. IsFiniteSet(W) /\ \A i \in W : IsFiniteSet(U(i))
  <2>1. IsFiniteSet(1 .. n)
    BY FS_Interval
  <2>2. \A i \in W : U(i) \in SUBSET (1 .. n)
    OBVIOUS
  <2> HIDE DEF U
  <2> QED
    BY <2>1, <2>2, FS_Subset
<1>5. Cardinality(W) >= 3
  <2>1. {a, b, c} \in SUBSET W
    OBVIOUS
  <2> QED
    BY <1>3, <1>4, <2>1, FS_Subset
<1>6. ASSUME NEW i \in W, i \notin {a, b, c} PROVE Cardinality(U(i)) > 3
  <2>1. i > c /\ {a, b, c} \cup {i} \in SUBSET U(i)
    BY <1>1, <1>6
  <2>2. /\ IsFiniteSet({a, b, c} \cup {i})
        /\ Cardinality({a, b, c} \cup {i}) = 3 + 1
    <3> DEFINE S == {a, b, c}
    <3>1. IsFiniteSet(S) /\ Cardinality(S) = 3 /\ i \notin S
      BY <1>3, <1>6
    <3> HIDE DEF S
    <3>2. IsFiniteSet(S \cup {i}) /\ Cardinality(S \cup {i}) = 3 + 1
      BY <3>1, FS_AddElement
    <3> QED
      BY <3>2 DEF S
  <2>3. Cardinality({a, b, c} \cup {i}) <= Cardinality(U(i))
        /\ Cardinality(U(i)) \in Nat
    <3> HIDE DEF U
    <3> QED
      BY <1>4, <2>1, FS_Subset, FS_CardinalityType
  <2> QED
    BY <2>2, <2>3
<1>7. \A i \in W : /\ Cardinality(U(i)) = 1 <=> i = a
                   /\ Cardinality(U(i)) = 2 <=> i = b
                   /\ Cardinality(U(i)) = 3 <=> i = c
  <2> HIDE DEF U
  <2> QED
    BY <1>1, <1>2, <1>3, <1>6
<1>8. Cardinality(W) \in Nat
  BY <1>4, FS_CardinalityType
<1>9. /\ (CHOOSE i \in W : Cardinality(U(i)) = 1) = a
      /\ (CHOOSE i \in W : Cardinality(U(i)) = 2) = b
      /\ (CHOOSE i \in W : Cardinality(U(i)) = 3) = c
  <2> HIDE DEF U
  <2> QED
    BY <1>7
<1>11. ~(Cardinality(W) < 3)
  BY <1>5, <1>8
<1> QED
  BY <1>9, <1>11, Zenon

LEMMA OneToken ==
    ASSUME NEW T, NEW g \in Seq(T), NEW i \in 1 .. Len(g)
    PROVE  SubSeq(g, i, i) = <<g[i]>>
<1> DEFINE p == SubSeq(g, i, i)
           q == <<g[i]>>
<1>1. i \in 1 .. Len(g) + 1 /\ i \in 0 .. Len(g) /\ i \in Int
  OBVIOUS
<1>2. p \in Seq(T) /\ Len(p) = 1 /\ p[1] = g[i]
  BY <1>1, PartIsSeq
<1>3. q \in Seq(T) /\ Len(q) = 1 /\ q[1] = g[i]
  OBVIOUS
<1> HIDE DEF p, q
<1>4. \A k \in 1 .. Len(p) : p[k] = q[k]
  BY <1>2, <1>3
<1>5. p = q
  BY <1>2, <1>3, <1>4, SeqEqual
<1> QED
  BY <1>5 DEF p, q

\* The first three words of a line are the tokens at a, b and c, but for a
\* last token that sticks to the third.
WordsAt(g, a, b, c) ==
    /\ a + 1 < b /\ b + 1 < c
    /\ \A i \in 1 .. c : i \in {a, b, c} <=> g[i] # SP
    /\ c = Len(g) \/ g[c + 1] = SP \/ c + 1 = Len(g)

LEMMA ThreeWords ==
    ASSUME NEW T, NEW g \in Seq(T),
           NEW a \in 1 .. Len(g), NEW b \in 1 .. Len(g), NEW c \in 1 .. Len(g),
           WordsAt(g, a, b, c)
    PROVE  /\ ~(Cardinality(Starts(g, {SP})) < 3)
           /\ Word(g, 1) = <<g[a]>> /\ Word(g, 2) = <<g[b]>>
           /\ Word(g, 3) = IF c = Len(g) \/ g[c + 1] = SP
                           THEN <<g[c]>> ELSE <<g[c], g[c + 1]>>
<1> DEFINE W == Starts(g, {SP})
<1>1. /\ Len(g) \in Nat /\ a \in Nat /\ b \in Nat /\ c \in Nat
      /\ 1 <= a /\ a + 1 < b /\ b + 1 < c /\ c <= Len(g)
  BY DEF WordsAt
<1>2. a \in W /\ b \in W /\ c \in W
  <2>1. g[a] # SP /\ g[b] # SP /\ g[c] # SP
    BY <1>1 DEF WordsAt
  <2>2. /\ a # 1 => a - 1 \in 1 .. c /\ a - 1 \notin {a, b, c}
        /\ b - 1 \in 1 .. c /\ b - 1 \notin {a, b, c}
        /\ c - 1 \in 1 .. c /\ c - 1 \notin {a, b, c}
    BY <1>1
  <2>3. (a # 1 => g[a - 1] = SP) /\ g[b - 1] = SP /\ g[c - 1] = SP
    BY <2>2 DEF WordsAt
  <2> QED
    BY <2>1, <2>3 DEF Starts
<1>4. W \in SUBSET (1 .. Len(g))
  BY StartsBound
<1>3. ASSUME NEW i \in W PROVE i \in {a, b, c} \/ i > c
  <2>1. i \in 1 .. Len(g)
    BY <1>4
  <2>2. g[i] # SP
    BY DEF Starts
  <2> HIDE DEF W
  <2>3. i \in 1 .. c \/ i > c
    BY <1>1, <2>1
  <2> QED
    BY <2>2, <2>3 DEF WordsAt
<1>5. /\ ~(Cardinality(W) < 3)
      /\ Word(g, 1) = FieldAt(g, {SP}, a)
      /\ Word(g, 2) = FieldAt(g, {SP}, b)
      /\ Word(g, 3) = FieldAt(g, {SP}, c)
  <2> HIDE DEF W
  <2>1. a < b /\ b < c
    BY <1>1
  <2>2. /\ ~(Cardinality(W) < 3)
        /\ (CHOOSE i \in W : Cardinality({j \in W : j <= i}) = 1) = a
        /\ (CHOOSE i \in W : Cardinality({j \in W : j <= i}) = 2) = b
        /\ (CHOOSE i \in W : Cardinality({j \in W : j <= i}) = 3) = c
    BY <1>1, <1>2, <1>3, <1>4, <2>1, ThirdStart
  <2> QED
    BY <2>2 DEF Word, W
<1> DEFINE D == {SP}
<1>6. ASSUME NEW i \in {a, b} PROVE FieldAt(g, D, i) = <<g[i]>>
  <2>1. i \in 1 .. Len(g) /\ i + 1 \in 1 .. c /\ i + 1 \notin {a, b, c}
    BY <1>1
  <2>2. g[i + 1] = SP
    BY <2>1 DEF WordsAt
  <2>3. i \in Int /\ Spans(g, D, i, i)
    BY <2>1, <2>2 DEF Spans
  <2> HIDE DEF D
  <2>4. i \in 1 .. Len(g)
    BY <2>1
  <2>5. FieldAt(g, D, i) = SubSeq(g, i, i)
    BY <2>3, <2>4, FieldIs
  <2> QED
    BY <2>4, <2>5, OneToken
<1>7. CASE c = Len(g) \/ g[c + 1] = SP
  <2>1. c \in Int /\ Spans(g, D, c, c)
    BY <1>1, <1>7 DEF Spans
  <2> HIDE DEF D
  <2>2. FieldAt(g, D, c) = SubSeq(g, c, c)
    BY <2>1, FieldIs
  <2>3. FieldAt(g, D, c) = <<g[c]>>
    BY <2>2, OneToken
  <2> QED
    BY <1>5, <1>6, <1>7, <2>3 DEF D
<1>8. CASE ~(c = Len(g) \/ g[c + 1] = SP)
  <2>1. c + 1 = Len(g) /\ c + 1 \in Int
    BY <1>1, <1>8 DEF WordsAt
  <2>2. Spans(g, D, c, c + 1)
    BY <1>1, <1>8, <2>1 DEF Spans
  <2> HIDE DEF D
  <2>3. FieldAt(g, D, c) = SubSeq(g, c, c + 1)
    BY <2>1, <2>2, FieldIs
  <2>4. SubSeq(g, c, c + 1) = <<g[c], g[c + 1]>>
    <3> DEFINE p == SubSeq(g, c, c + 1)
               q == <<g[c], g[c + 1]>>
    <3>1. p \in Seq(T) /\ Len(p) = 2 /\ p[1] = g[c] /\ p[2] = g[c + 1]
      BY <1>1, <2>1
    <3>2. g[c] \in T /\ g[c + 1] \in T
      BY <1>1, <2>1
    <3>3. q \in Seq(T) /\ Len(q) = 2 /\ q[1] = g[c] /\ q[2] = g[c + 1]
      BY <3>2
    <3> HIDE DEF p, q
    <3>4. \A k \in 1 .. Len(p) : p[k] = q[k]
      BY <3>1, <3>3
    <3>5. p = q
      BY <3>1, <3>3, <3>4, SeqEqual
    <3> QED
      BY <3>5 DEF p, q
  <2> QED
    BY <1>5, <1>6, <1>8, <2>3, <2>4 DEF D
<1> QED
  BY <1>7, <1>8

-----------------------------------------------------------------------------
(* The key and the value of a line.                                        *)

\* The text from a to b is all that is no blank, after the first colon at c.
InkAt(g, c, a, b) ==
    /\ g[c] = Colon /\ \A j \in 1 .. c - 1 : g[j] # Colon
    /\ a \in c + 1 .. b /\ b \in a .. Len(g)
    /\ g[a] \notin Blanks /\ g[b] \notin Blanks
    /\ \A j \in c + 1 .. a - 1 : g[j] \in Blanks
    /\ \A j \in b + 1 .. Len(g) : g[j] \in Blanks

LEMMA RestOfLine ==
    ASSUME NEW T, NEW g \in Seq(T), NEW c \in 1 .. Len(g)
    PROVE  LET r == SubSeq(g, c + 1, Len(g))
           IN  /\ r \in Seq(T) /\ Len(r) = Len(g) - c
               /\ \A i \in 1 .. Len(g) - c : r[i] = g[c + i]
<1> DEFINE m == c + 1
           n == Len(g)
           r == SubSeq(g, m, n)
<1>1. c \in Int /\ m \in Int /\ n \in Int /\ m = c + 1 /\ c <= n /\ 1 <= c
  OBVIOUS
<1>2. ASSUME NEW i \in m .. n PROVE g[i] \in T
  <2>1. i \in 1 .. Len(g)
    OBVIOUS
  <2> QED
    BY <2>1, ElementOfSeq
<1>6. n = Len(g)
  OBVIOUS
<1> HIDE DEF m, n
<1>3. /\ r \in Seq(T) /\ Len(r) = (IF m <= n THEN n - m + 1 ELSE 0)
      /\ \A i \in 1 .. n - m + 1 : r[i] = g[m + i - 1]
  BY <1>1, <1>2, SubSeqProperties
<1>4. Len(r) = n - c
  BY <1>1, <1>3
<1>5. ASSUME NEW i \in 1 .. n - c PROVE r[i] = g[c + i]
  <2>1. i \in 1 .. n - m + 1 /\ m + i - 1 = c + i
    BY <1>1
  <2> QED
    BY <1>3, <2>1
<1> QED
  BY <1>3, <1>4, <1>5 DEF m, n

LEMMA ValueIs ==
    ASSUME NEW T, NEW g \in Seq(T), NEW c \in 1 .. Len(g),
           NEW a \in Int, NEW b \in Int, InkAt(g, c, a, b)
    PROVE  Value(g) = SubSeq(g, a, b)
<1> DEFINE r == SubSeq(g, c + 1, Len(g))
           ink == {i \in DOMAIN r : r[i] \notin Blanks}
<1>1. r \in Seq(T) /\ Len(r) = Len(g) - c
      /\ \A i \in 1 .. Len(g) - c : r[i] = g[c + i]
  BY RestOfLine
<1>2. c \in Nat /\ Len(g) \in Nat /\ a \in c + 1 .. b /\ b \in a .. Len(g)
  BY DEF InkAt
<1> HIDE DEF r
<1>3. \A i \in ink : i \in 1 .. Len(g) - c /\ g[c + i] \notin Blanks
  BY <1>1
<1>4. a - c \in ink /\ b - c \in ink
  <2>1. a - c \in 1 .. Len(g) - c /\ b - c \in 1 .. Len(g) - c
        /\ c + (a - c) = a /\ c + (b - c) = b
    BY <1>2
  <2>2. r[a - c] = g[a] /\ r[b - c] = g[b]
    BY <1>1, <2>1
  <2> QED
    BY <1>1, <2>1, <2>2 DEF InkAt
<1>5. ASSUME NEW i \in ink PROVE i \in Int /\ a - c <= i /\ b - c >= i
  <2>1. i \in 1 .. Len(g) - c /\ g[c + i] \notin Blanks
    BY <1>3
  <2>2. c + i \notin c + 1 .. a - 1 /\ c + i \notin b + 1 .. Len(g)
    BY <2>1 DEF InkAt
  <2> HIDE DEF ink
  <2> QED
    BY <1>2, <2>1, <2>2
<1>6. Min(ink) = a - c /\ Max(ink) = b - c
  <2> HIDE DEF ink
  <2> QED
    BY <1>4, <1>5, MinIs, MaxIs
<1>7. Trim(r) = SubSeq(r, a - c, b - c)
  BY <1>4, <1>6 DEF Trim
<1>8. SubSeq(r, a - c, b - c) = SubSeq(g, (c + 1) + (a - c) - 1,
                                       (c + 1) + (b - c) - 1)
  <2>1. /\ c + 1 \in 1 .. Len(g) /\ Len(g) \in 1 .. Len(g)
        /\ a - c \in 1 .. Len(g) - (c + 1) + 1
        /\ b - c \in 1 .. Len(g) - (c + 1) + 1
    BY <1>2
  <2> QED
    BY <2>1, SubSeqOfSubSeq DEF r
<1>9. (c + 1) + (a - c) - 1 = a /\ (c + 1) + (b - c) - 1 = b
  BY <1>2
<1>10. IndexOf(g, Colon) = c
  BY IndexIs DEF InkAt
<1> QED
  BY <1>7, <1>8, <1>9, <1>10 DEF Value, r

LEMMA EmptyValue ==
    ASSUME NEW T, NEW g \in Seq(T), NEW c \in 1 .. Len(g), g[c] = Colon,
           \A j \in 1 .. c - 1 : g[j] # Colon,
           \A j \in c + 1 .. Len(g) : g[j] \in Blanks
    PROVE  Value(g) = <<>>
<1> DEFINE r == SubSeq(g, c + 1, Len(g))
           ink == {i \in DOMAIN r : r[i] \notin Blanks}
<1>1. r \in Seq(T) /\ Len(r) = Len(g) - c
      /\ \A i \in 1 .. Len(g) - c : r[i] = g[c + i]
  BY RestOfLine
<1>2. IndexOf(g, Colon) = c
  BY IndexIs
<1> HIDE DEF r
<1>3. \A i \in 1 .. Len(r) : r[i] \in Blanks
  <2> SUFFICES ASSUME NEW i \in 1 .. Len(r) PROVE r[i] \in Blanks
    OBVIOUS
  <2>1. i \in 1 .. Len(g) - c /\ c + i \in c + 1 .. Len(g)
    BY <1>1
  <2> QED
    BY <1>1, <2>1
<1>4. ink = {}
  BY <1>1, <1>3
<1> QED
  BY <1>2, <1>4 DEF Value, Trim, r

LEMMA KeyIs ==
    ASSUME NEW T, NEW g \in Seq(T), NEW c \in 1 .. Len(g), g[c] = Colon,
           \A j \in 1 .. c - 1 : g[j] # Colon, NEW key
    PROVE  HasKey(g, key) <=> c = 2 /\ g[1] = key
<1>1. IndexOf(g, Colon) = c
  BY IndexIs
<1>2. HasKey(g, key) <=> SubSeq(g, 1, c - 1) = <<key>>
  BY <1>1 DEF HasKey
<1>3. CASE c = 2
  <2>1. SubSeq(g, 1, c - 1) = <<g[1]>>
    BY <1>3, OneToken
  <2> QED
    BY <1>2, <1>3, <2>1
<1>4. CASE c # 2
  <2>1. 1 \in 1 .. Len(g) + 1 /\ c - 1 \in 0 .. Len(g) /\ c - 1 # 1
        /\ c - 1 \in Int /\ Len(g) \in Nat
    BY <1>4
  <2>2. \A i \in 1 .. c - 1 : g[i] \in T
    <3> SUFFICES ASSUME NEW i \in 1 .. c - 1 PROVE g[i] \in T
      OBVIOUS
    <3>1. i \in 1 .. Len(g)
      BY <2>1
    <3> QED
      BY <3>1, ElementOfSeq
  <2>3. Len(SubSeq(g, 1, c - 1)) =
            IF 1 <= c - 1 THEN (c - 1) - 1 + 1 ELSE 0
    BY <2>1, <2>2, SubSeqProperties
  <2>4. Len(SubSeq(g, 1, c - 1)) # 1
    BY <2>1, <2>3
  <2>5. Len(<<key>>) = 1
    OBVIOUS
  <2> QED
    BY <1>2, <1>4, <2>4, <2>5
<1> QED
  BY <1>3, <1>4

LEMMA NoKey ==
    ASSUME NEW T, NEW g \in Seq(T), \A j \in 1 .. Len(g) : g[j] # Colon,
           NEW key
    PROVE  ~HasKey(g, key)
BY IndexIsZero DEF HasKey

-----------------------------------------------------------------------------
(* Texts put together.                                                     *)

\* Two texts of one token.
LEMMA TwoTokens ==
    ASSUME NEW a, NEW b PROVE <<a>> \o <<b>> = <<a, b>>
<1> DEFINE p == <<a>> \o <<b>>
           q == <<a, b>>
           T == {a, b}
<1>1. <<a>> \in Seq(T) /\ <<b>> \in Seq(T) /\ Len(<<a>>) = 1
      /\ Len(<<b>>) = 1 /\ <<a>>[1] = a /\ <<b>>[1] = b
  OBVIOUS
<1>2. p \in Seq(T) /\ Len(p) = 2 /\ p[1] = a /\ p[2] = b
  BY <1>1, ConcatProperties
<1>3. q \in Seq(T) /\ Len(q) = 2 /\ q[1] = a /\ q[2] = b
  OBVIOUS
<1> HIDE DEF p, q, T
<1>4. \A i \in 1 .. Len(p) : p[i] = q[i]
  BY <1>2, <1>3
<1>5. p = q
  BY <1>2, <1>3, <1>4, SeqEqual
<1> QED
  BY <1>5 DEF p, q

LEMMA NulInConcat ==
    ASSUME NEW T, NEW s \in Seq(T), NEW t \in Seq(T)
    PROVE  HasNul(s \o t) <=> HasNul(s) \/ HasNul(t)
<1> DEFINE u == s \o t
           n == Len(s)
           m == Len(t)
<1>1. n \in Nat /\ m \in Nat /\ Len(u) = n + m
  BY ConcatProperties
<1>5. \A i \in 1 .. n + m : u[i] = IF i <= n THEN s[i] ELSE t[i - n]
  BY ConcatProperties
<1>6. /\ HasNul(s) <=> \E i \in 1 .. n : s[i] = NUL
      /\ HasNul(t) <=> \E i \in 1 .. m : t[i] = NUL
      /\ HasNul(s \o t) <=> \E i \in 1 .. n + m : u[i] = NUL
  BY <1>1 DEF HasNul
<1> HIDE DEF u, n, m
<1>2. ASSUME NEW i \in 1 .. n PROVE i \in 1 .. n + m /\ u[i] = s[i]
  <2>1. i \in 1 .. n + m /\ i <= n
    BY <1>1
  <2> QED
    BY <1>5, <2>1
<1>3. ASSUME NEW i \in 1 .. m PROVE n + i \in 1 .. n + m /\ u[n + i] = t[i]
  <2>1. n + i \in 1 .. n + m /\ ~(n + i <= n) /\ (n + i) - n = i
    BY <1>1
  <2> QED
    BY <1>5, <2>1
<1>4. ASSUME NEW i \in 1 .. n + m, u[i] = NUL
      PROVE  (\E j \in 1 .. n : s[j] = NUL) \/ (\E j \in 1 .. m : t[j] = NUL)
  <2>1. CASE i <= n
    <3>1. i \in 1 .. n
      BY <1>1, <2>1
    <3> QED
      BY <1>2, <1>4, <3>1
  <2>2. CASE ~(i <= n)
    <3>1. i - n \in 1 .. m /\ n + (i - n) = i
      BY <1>1, <2>2
    <3> QED
      BY <1>3, <1>4, <3>1
  <2> QED
    BY <2>1, <2>2
<1> QED
  BY <1>2, <1>3, <1>4, <1>6

\* A line without ends and NUL, and its end.
LEMMA OneField ==
    ASSUME NEW T, NEW D, NEW f \in Seq(T), NEW w \in Seq(T),
           \A i \in 1 .. Len(f) : f[i] \notin D,
           \A i \in 1 .. Len(w) : w[i] \in D
    PROVE  /\ f = <<>> => Starts(f \o w, D) = {}
           /\ f # <<>> => Starts(f \o w, D) = {1} /\ FieldAt(f \o w, D, 1) = f
<1> DEFINE u == f \o w
           n == Len(f)
<1>1. n \in Nat /\ Len(w) \in Nat /\ Len(u) = n + Len(w) /\ u \in Seq(T)
  BY ConcatProperties
<1>2. \A i \in 1 .. n + Len(w) : u[i] = IF i <= n THEN f[i] ELSE w[i - n]
  BY ConcatProperties
<1>3. DOMAIN u = 1 .. n + Len(w)
  BY <1>1
<1>4. (f = <<>> <=> n = 0) /\ n = Len(f)
  OBVIOUS
<1>5. ASSUME NEW i \in 1 .. n PROVE u[i] \notin D
  BY <1>1, <1>2
<1>6. ASSUME NEW i \in n + 1 .. n + Len(w) PROVE u[i] \in D
  <2> HIDE DEF u
  <2>1. i - n \in 1 .. Len(w) /\ i \in 1 .. n + Len(w) /\ ~(i <= n)
    BY <1>1
  <2> QED
    BY <1>2, <2>1
<1> HIDE DEF u, n
<1>7. ASSUME NEW i \in Starts(u, D) PROVE i = 1 /\ n # 0
  <2>1. i \in 1 .. n + Len(w) /\ u[i] \notin D /\ (i = 1 \/ u[i - 1] \in D)
    BY <1>3 DEF Starts
  <2>2. i \in 1 .. n
    BY <1>1, <1>6, <2>1
  <2>3. i # 1 => i - 1 \in 1 .. n
    BY <1>1, <2>2
  <2> QED
    BY <1>1, <1>5, <2>1, <2>2, <2>3
<1>8. n # 0 => 1 \in Starts(u, D)
  <2> SUFFICES ASSUME n # 0 PROVE 1 \in Starts(u, D)
    OBVIOUS
  <2>1. 1 \in 1 .. n /\ 1 \in 1 .. n + Len(w)
    BY <1>1
  <2> QED
    BY <1>3, <1>5, <2>1 DEF Starts
<1>9. n # 0 => FieldAt(u, D, 1) = f
  <2> SUFFICES ASSUME n # 0 PROVE FieldAt(u, D, 1) = f
    OBVIOUS
  <2>1. 1 \in 1 .. Len(u) /\ n \in 1 .. Len(u) /\ n \in Int
    BY <1>1
  <2>2. n = Len(u) \/ u[n + 1] \in D
    BY <1>1, <1>6
  <2>3. Spans(u, D, 1, n)
    BY <1>1, <1>5, <2>1, <2>2 DEF Spans
  <2>4. FieldAt(u, D, 1) = SubSeq(u, 1, n)
    BY <1>1, <2>1, <2>3, FieldIs
  <2>5. 1 \in 1 .. Len(f) /\ n \in 1 .. Len(f)
    BY <1>1, <1>4
  <2>6. SubSeq(u, 1, n) = SubSeq(f, 1, n)
    BY <2>5, SubSeqOfConcat1 DEF u
  <2> QED
    BY <1>4, <2>4, <2>6, SubSeqFull
<1> QED
  BY <1>4, <1>7, <1>8, <1>9 DEF u
=============================================================================
