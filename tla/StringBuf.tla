------------------------------ MODULE StringBuf ------------------------------
(***************************************************************************)
(* struct string: bytes with their size, which may hold NUL.  A string is  *)
(* created, grows by concatenation, and is compared with a char *.         *)
(***************************************************************************)
EXTENDS Integers, Sequences

CONSTANTS Byte,     \* bytes, among them 0, that char * uses as its end
          MaxSize   \* bound on the size of a string and of what is added

ASSUME ByteAssumption == Byte \subseteq Nat /\ 0 \in Byte
ASSUME MaxSizeAssumption == MaxSize \in Nat

VARIABLES str,      \* the struct: size and data, or NULL
          bytes     \* what its owner has put into it, in order

NullData == <<>>
NullString == [size |-> -1, data |-> NullData]

Texts(n) == UNION {[1 .. k -> Byte] : k \in 0 .. n}
Terminated(s) == Append(s, 0)

-----------------------------------------------------------------------------
\* string_create: a copy and a terminator, but no data at all for size 0.
StringCreate(s) ==
    [size |-> Len(s), data |-> IF s = <<>> THEN NullData ELSE Terminated(s)]

\* Mutant: the addition is written after the terminator.
ConcatAfterTerminator(s, added) ==
    [size |-> s.size + Len(added), data |-> Terminated(s.data \o added)]

\* string_concat_str, when realloc succeeds and the size is not 0.
Concat(s, added) ==
    [size |-> s.size + Len(added),
     data |-> Terminated(SubSeq(s.data, 1, s.size) \o added)]

\* The sign of memcmp on n bytes.
MemCmp(s, t, n) ==
    LET D == {i \in 1 .. n : s[i] # t[i]}
        i == CHOOSE i \in D : \A j \in D : i <= j
    IN  IF D = {} THEN 0 ELSE IF s[i] < t[i] THEN -1 ELSE 1

\* Mutant: a string that is a prefix of the other is taken for equal.
ComparePrefix(s, t, n) ==
    MemCmp(s.data, t, IF s.size < n THEN s.size ELSE n)

\* string_compare_n_str: memcmp, and a shorter string comes first.
CompareN(s, t, n) ==
    LET res == MemCmp(s.data, t, IF s.size < n THEN s.size ELSE n)
    IN  IF res = 0 /\ s.size < n /\ t[s.size + 1] # 0 THEN -1 ELSE res

-----------------------------------------------------------------------------
Init == str = NullString /\ bytes = <<>>

Create(s) ==
    /\ str = NullString
    /\ str' = StringCreate(s)
    /\ bytes' = s

\* Nothing to add, or no memory for it, leaves the string as it was.
Extend(added) ==
    /\ str # NullString /\ str.size + Len(added) <= MaxSize
    /\ added # <<>>
    /\ str' = Concat(str, added)
    /\ bytes' = bytes \o added

Destroy ==
    /\ str # NullString
    /\ str' = NullString /\ bytes' = <<>>

Next == \/ \E s \in Texts(MaxSize) : Create(s) \/ Extend(s)
        \/ Destroy

Spec == Init /\ [][Next]_<<str, bytes>>

-----------------------------------------------------------------------------
\* However it was put together, a string holds the bytes given to it, NULs
\* among them, and a terminator behind them that its size does not count.
HoldsBytes ==
    str # NullString =>
        /\ str.size = Len(bytes)
        /\ str.data = IF bytes = <<>> THEN NullData ELSE Terminated(bytes)

\* strncmp(3): the first difference decides, bytes after a NUL do not count.
At(s, i) == IF i <= Len(s) THEN s[i] ELSE 0
StrNCmp(s, t, n) ==
    LET D == {i \in 1 .. n : At(s, i) # At(t, i)
                  /\ \A j \in 1 .. i - 1 : At(s, j) # 0}
    IN  IF D = {} THEN 0
        ELSE LET i == CHOOSE i \in D : \A j \in D : i <= j
             IN  IF At(s, i) < At(t, i) THEN -1 ELSE 1

\* What the caller may pass: n bytes of t and its terminator are there.
Comparable == {tn \in Texts(MaxSize) \X (0 .. MaxSize + 1) :
                 tn[2] <= Len(tn[1]) + 1}

\* Of a string without NUL, string_compare_n_str says what strncmp says, as
\* string.h promises, even when the other goes on after a NUL.
ComparesAsStrNCmp ==
    str # NullString /\ (\A i \in DOMAIN bytes : bytes[i] # 0) =>
        \A tn \in Comparable :
            CompareN(str, Terminated(tn[1]), tn[2])
                = StrNCmp(bytes, Terminated(tn[1]), tn[2])

=============================================================================
