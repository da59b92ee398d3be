-------------------------- MODULE StringBufProofs --------------------------
(***************************************************************************)
(* A struct string holds the bytes it was given, for all bytes and sizes.  *)
(***************************************************************************)
EXTENDS StringBuf, SequenceTheorems, WellFoundedInduction, TLAPS

BytesInv ==
    /\ bytes \in Seq(Byte)
    /\ HoldsBytes

\* Cutting the terminator off gives the bytes back.
LEMMA FrontOfTerminated ==
    ASSUME NEW s \in Seq(Byte)
    PROVE  SubSeq(Terminated(s), 1, Len(s)) = s
<1> DEFINE t == Terminated(s)
<1>1. t \in Seq(Byte) /\ Len(t) = Len(s) + 1 /\ Len(s) \in Nat
  BY ByteAssumption DEF Terminated
<1>2. \A i \in 1 .. Len(s) : t[i] = s[i]
  BY DEF Terminated
<1> QED
  BY <1>1, <1>2

LEMMA TextsAreSeqs ==
    ASSUME NEW s \in Texts(MaxSize) PROVE s \in Seq(Byte)
<1>1. PICK k \in 0 .. MaxSize : s \in [1 .. k -> Byte]
  BY DEF Texts
<1> QED
  BY <1>1, MaxSizeAssumption

LEMMA EmptyText == <<>> \in Seq(Byte) /\ Len(<<>>) = 0
OBVIOUS

LEMMA BytesInit == Init => BytesInv
BY EmptyText DEF Init, BytesInv, HoldsBytes

LEMMA BytesCreate ==
    ASSUME BytesInv, NEW s \in Texts(MaxSize), Create(s) PROVE BytesInv'
BY TextsAreSeqs DEF Create, BytesInv, HoldsBytes, StringCreate

LEMMA BytesExtend ==
    ASSUME BytesInv, NEW s \in Texts(MaxSize), Extend(s) PROVE BytesInv'
<1>1. s \in Seq(Byte) /\ bytes \in Seq(Byte)
  BY TextsAreSeqs DEF BytesInv
<1>2. bytes' = bytes \o s /\ bytes' \in Seq(Byte)
  BY <1>1 DEF Extend
<1>3. Len(bytes') = Len(bytes) + Len(s) /\ bytes' # <<>>
  BY <1>1, <1>2 DEF Extend
<1>4. str.size = Len(bytes)
  BY DEF BytesInv, HoldsBytes, Extend
<1>5. SubSeq(str.data, 1, str.size) = bytes
  <2>1. CASE bytes = <<>>
    <3>1. str.data = <<>> /\ str.size = 0
      BY <1>4, <2>1 DEF BytesInv, HoldsBytes, Extend, NullData
    <3> QED
      BY <2>1, <3>1
  <2>2. CASE bytes # <<>>
    <3>1. str.data = Terminated(bytes)
      BY <2>2 DEF BytesInv, HoldsBytes, Extend
    <3> QED
      BY <1>1, <1>4, <3>1, FrontOfTerminated
  <2> QED
    BY <2>1, <2>2
<1>6. str' = [size |-> Len(bytes'), data |-> Terminated(bytes')]
  BY <1>2, <1>3, <1>4, <1>5 DEF Extend, Concat
<1> QED
  BY <1>2, <1>3, <1>6 DEF BytesInv, HoldsBytes

LEMMA BytesNext == BytesInv /\ [Next]_<<str, bytes>> => BytesInv'
<1> SUFFICES ASSUME BytesInv, [Next]_<<str, bytes>> PROVE BytesInv'
  OBVIOUS
<1>1. ASSUME NEW s \in Texts(MaxSize), Create(s) PROVE BytesInv'
  BY <1>1, BytesCreate
<1>2. ASSUME NEW s \in Texts(MaxSize), Extend(s) PROVE BytesInv'
  BY <1>2, BytesExtend
<1>3. CASE Destroy
  BY <1>3, EmptyText DEF Destroy, BytesInv, HoldsBytes
<1>4. CASE UNCHANGED <<str, bytes>>
  BY <1>4 DEF BytesInv, HoldsBytes
<1> QED
  BY <1>1, <1>2, <1>3, <1>4 DEF Next

\* Whatever is concatenated in whatever pieces, a string holds exactly the
\* bytes given to it and a terminator its size does not count (string.c).
THEOREM BytesKept == Spec => []HoldsBytes
<1>1. BytesInv => HoldsBytes
  BY DEF BytesInv
<1> QED
  BY BytesInit, BytesNext, <1>1, PTL DEF Spec

-----------------------------------------------------------------------------
(* The comparison.                                                         *)

LEMMA Least ==
    ASSUME NEW D \in SUBSET Nat, D # {}
    PROVE  \E i \in D : \A j \in D : i <= j
<1> DEFINE R == {p \in Nat \X Nat : p[1] < p[2]}
<1>1. IsWellFoundedOn(R, Nat)
  <2>1. R = OpToRel(<, Nat)
    BY DEF OpToRel
  <2> QED BY <2>1, NatLessThanWellFounded
<1> HIDE DEF R
<1>2. PICK i \in D : \A j \in D : ~(<<j, i>> \in R)
  BY <1>1, WFMin
<1>3. \A j \in D : i <= j
  <2> SUFFICES ASSUME NEW j \in D PROVE i <= j
    OBVIOUS
  <2>1. i \in Nat /\ j \in Nat /\ <<j, i>> \in Nat \X Nat
    OBVIOUS
  <2>2. ~(j < i)
    BY <1>2, <2>1 DEF R
  <2> QED BY <2>1, <2>2
<1> QED BY <1>3

LeastOf(D) == CHOOSE i \in D : \A j \in D : i <= j

\* The least of those up to m, if there is one, is the least of all.
LEMMA SameLeast ==
    ASSUME NEW D \in SUBSET Nat, NEW E \in SUBSET Nat, NEW m \in Nat,
           D # {}, \A i \in Nat : i \in D <=> i \in E /\ i <= m
    PROVE  LeastOf(D) = LeastOf(E)
<1> DEFINE d == LeastOf(D)
           e == LeastOf(E)
<1>1. d \in D /\ \A j \in D : d <= j
  BY Least DEF LeastOf
<1>2. e \in E /\ \A j \in E : e <= j
  BY Least DEF LeastOf
<1> HIDE DEF d, e
<1>3. d \in E /\ e <= d
  BY <1>1, <1>2
<1>4. e \in D
  BY <1>1, <1>2, <1>3
<1>5. d = e
  BY <1>1, <1>2, <1>3, <1>4
<1> QED BY <1>5 DEF d, e

\* A struct string s without NUL compares with the char * t on n bytes as
\* strncmp does (string.c).
LEMMA CompareIsStrNCmp ==
    ASSUME NEW s \in Seq(Byte), \A i \in DOMAIN s : s[i] # 0,
           NEW text \in Seq(Byte), NEW n \in Nat, n <= Len(text) + 1,
           NEW st, st.size = Len(s), s # <<>> => st.data = Terminated(s)
    PROVE  CompareN(st, Terminated(text), n) = StrNCmp(s, Terminated(text), n)
<1> DEFINE t == Terminated(text)
           m == IF Len(s) < n THEN Len(s) ELSE n
           D == {i \in 1 .. m : st.data[i] # t[i]}
           E == {i \in 1 .. n : At(s, i) # At(t, i)
                    /\ \A j \in 1 .. i - 1 : At(s, j) # 0}
<1>1. /\ Len(s) \in Nat /\ m \in Nat /\ m <= n /\ m <= Len(s)
      /\ \A i \in 1 .. Len(s) : s[i] \in Nat \ {0}
  <2>1. \A i \in 1 .. Len(s) : s[i] \in Byte /\ s[i] # 0
    OBVIOUS
  <2>2. \A i \in 1 .. Len(s) : s[i] \in Nat \ {0}
    BY <2>1, ByteAssumption
  <2>3. Len(s) \in Nat
    OBVIOUS
  <2>4. m \in Nat /\ m <= n /\ m <= Len(s)
    BY <2>3
  <2> QED BY <2>2, <2>3, <2>4
<1>2. \A i \in 1 .. n : t[i] \in Nat /\ At(t, i) = t[i]
  <2>1. t \in Seq(Byte) /\ Len(t) = Len(text) + 1 /\ Len(text) \in Nat
    BY ByteAssumption DEF Terminated
  <2> HIDE DEF t
  <2> SUFFICES ASSUME NEW i \in 1 .. n
               PROVE  t[i] \in Nat /\ At(t, i) = t[i]
    OBVIOUS
  <2>2. i \in 1 .. Len(t)
    BY <2>1
  <2>3. t[i] \in Byte /\ i <= Len(t)
    BY <2>1, <2>2
  <2> QED BY <2>3, ByteAssumption DEF At
<1>3. \A i \in 1 .. m : st.data[i] = s[i] /\ At(s, i) = s[i]
  <2> SUFFICES ASSUME NEW i \in 1 .. m
               PROVE  st.data[i] = s[i] /\ At(s, i) = s[i]
    OBVIOUS
  <2>1. i \in 1 .. Len(s) /\ s # <<>>
    BY <1>1
  <2>2. Terminated(s)[i] = s[i]
    BY <2>1 DEF Terminated
  <2> QED BY <2>1, <2>2 DEF At
<1>4. \A i \in Nat : At(s, i) # 0 => i <= Len(s)
  BY <1>1 DEF At
<1> HIDE DEF t
<1>5. D = {i \in E : i <= m}
  <2>1. ASSUME NEW i \in 1 .. m, NEW j \in 1 .. i - 1
        PROVE  At(s, j) # 0
    <3>1. j \in 1 .. Len(s)
      BY <1>1, <2>1
    <3> QED BY <1>1, <3>1 DEF At
  <2>2. ASSUME NEW i \in 1 .. m PROVE i \in D <=> i \in E
    BY <1>1, <1>2, <1>3, <2>1
  <2> QED BY <1>1, <2>2
<1>6. /\ D \in SUBSET (1 .. m) /\ E \in SUBSET (1 .. n)
      /\ D \in SUBSET Nat /\ E \in SUBSET Nat
      /\ \A i \in D : st.data[i] # t[i]
  BY <1>1
<1>7. MemCmp(st.data, t, m) =
        IF D = {} THEN 0
        ELSE LET i == CHOOSE i \in D : \A j \in D : i <= j
             IN  IF st.data[i] < t[i] THEN -1 ELSE 1
  BY DEF MemCmp
<1>8. StrNCmp(s, t, n) =
        IF E = {} THEN 0
        ELSE LET i == CHOOSE i \in E : \A j \in E : i <= j
             IN  IF At(s, i) < At(t, i) THEN -1 ELSE 1
  BY DEF StrNCmp
<1>9. \A i \in 1 .. n : i \in E <=> /\ At(s, i) # t[i]
                                    /\ \A j \in 1 .. i - 1 : At(s, j) # 0
  BY <1>2
<1>10. CompareN(st, t, n) =
         IF /\ MemCmp(st.data, t, m) = 0 /\ Len(s) < n
            /\ t[Len(s) + 1] # 0
         THEN -1 ELSE MemCmp(st.data, t, m)
  BY DEF CompareN
<1> HIDE DEF D, E, m
<1>11. CASE D # {}
  <2> DEFINE d == LeastOf(D)
             e == LeastOf(E)
  <2>1. d = e
    <3>1. \A i \in Nat : i \in D <=> i \in E /\ i <= m
      BY <1>5, <1>6
    <3> QED BY <1>1, <1>6, <1>11, <3>1, SameLeast
  <2>2. d \in D
    BY <1>6, <1>11, Least DEF LeastOf
  <2> HIDE DEF d, e
  <2>3. /\ d \in 1 .. m /\ d \in 1 .. n /\ E # {}
        /\ st.data[d] = At(s, d) /\ t[d] = At(t, d)
    BY <1>1, <1>2, <1>3, <1>5, <1>6, <2>2
  <2>4. MemCmp(st.data, t, m) = IF At(s, d) < At(t, d) THEN -1 ELSE 1
    BY <1>7, <1>11, <2>3 DEF d, LeastOf
  <2>5. StrNCmp(s, t, n) = IF At(s, d) < At(t, d) THEN -1 ELSE 1
    BY <1>8, <2>1, <2>3 DEF e, LeastOf
  <2> QED BY <1>10, <2>4, <2>5 DEF t
<1>12. CASE D = {}
  <2> DEFINE k == Len(s) + 1
  <2>1. MemCmp(st.data, t, m) = 0
    BY <1>7, <1>12
  <2>2. \A i \in E : i = k /\ Len(s) < n
    <3> SUFFICES ASSUME NEW i \in E PROVE i = k /\ Len(s) < n
      OBVIOUS
    <3>1. i \in 1 .. n /\ m < i
      BY <1>1, <1>5, <1>6, <1>12
    <3>2. Len(s) < n /\ k <= i
      BY <1>1, <3>1 DEF m
    <3>3. k # i => k \in 1 .. i - 1 /\ At(s, k) = 0
      BY <1>1, <3>1, <3>2 DEF At
    <3> QED BY <1>9, <3>1, <3>2, <3>3
  <2>3. Len(s) < n => (k \in E <=> t[k] # 0)
    <3> SUFFICES ASSUME Len(s) < n PROVE k \in E <=> t[k] # 0
      OBVIOUS
    <3>1. k \in 1 .. n /\ At(s, k) = 0
      BY <1>1 DEF At
    <3>2. \A j \in 1 .. k - 1 : At(s, j) # 0
      BY <1>1 DEF At
    <3> QED BY <1>9, <3>1, <3>2
  <2>4. CASE E = {}
    BY <1>8, <1>10, <2>1, <2>3, <2>4 DEF t
  <2>5. CASE E # {}
    <3> DEFINE e == CHOOSE i \in E : \A j \in E : i <= j
    <3>1. e \in E
      BY <1>6, <2>5, Least
    <3> HIDE DEF e
    <3>2. e = k /\ Len(s) < n /\ k \in E /\ k \in 1 .. n
      BY <1>6, <2>2, <3>1
    <3>3. t[k] # 0 /\ t[k] \in Nat /\ At(t, k) = t[k] /\ At(s, k) = 0
      BY <1>1, <1>2, <2>3, <3>2 DEF At
    <3>4. StrNCmp(s, t, n) = -1
      <4>1. StrNCmp(s, t, n) = IF At(s, e) < At(t, e) THEN -1 ELSE 1
        BY <1>8, <2>5 DEF e
      <4> QED BY <3>2, <3>3, <4>1
    <3>5. CompareN(st, t, n) = -1
      BY <1>10, <2>1, <3>2, <3>3
    <3> QED BY <3>4, <3>5 DEF t
  <2> QED BY <2>4, <2>5
<1> QED BY <1>11, <1>12

\* Of a string without NUL, string_compare_n_str says what strncmp says,
\* whatever the bytes and sizes.
THEOREM ComparesLikeStrNCmp == Spec => []ComparesAsStrNCmp
<1>1. ASSUME BytesInv PROVE ComparesAsStrNCmp
  <2> SUFFICES ASSUME str # NullString, \A i \in DOMAIN bytes : bytes[i] # 0,
                      NEW tn \in Comparable
               PROVE  CompareN(str, Terminated(tn[1]), tn[2])
                        = StrNCmp(bytes, Terminated(tn[1]), tn[2])
    BY DEF ComparesAsStrNCmp
  <2>1. tn[1] \in Seq(Byte) /\ tn[2] \in Nat /\ tn[2] <= Len(tn[1]) + 1
    BY TextsAreSeqs, MaxSizeAssumption DEF Comparable
  <2>2. /\ bytes \in Seq(Byte) /\ str.size = Len(bytes)
        /\ bytes # <<>> => str.data = Terminated(bytes)
    BY <1>1 DEF BytesInv, HoldsBytes
  <2> QED BY <2>1, <2>2, CompareIsStrNCmp
<1>2. Spec => []BytesInv
  BY BytesInit, BytesNext, PTL DEF Spec
<1> QED BY <1>1, <1>2, PTL

=============================================================================
