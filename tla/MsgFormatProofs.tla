--------------------------- MODULE MsgFormatProofs ---------------------------
(***************************************************************************)
(* What the functions of MsgFormat compute, for every message and buffer.  *)
(***************************************************************************)
EXTENDS MsgFormat, Integers, TLAPS, SequenceTheorems, NaturalsInduction,
        WellFoundedInduction

-----------------------------------------------------------------------------
(* Sequences of sequences *)

\* A set of natural numbers that is not empty has a least one.
LEMMA LeastOne ==
  ASSUME NEW T, T \subseteq Nat, T # {}
  PROVE  \E m \in T : \A k \in T : m <= k
<1>1. PICK m \in T : \A k \in T : <<k, m>> \notin OpToRel(<, Nat)
  BY NatLessThanWellFounded, WFMin
<1>2. \A k \in T : ~ (k < m)
  BY <1>1 DEF OpToRel
<1>3. QED
  BY <1>2

\* Induction over sequences, with the set of those for which a formula holds.
LEMMA EverySequence ==
  ASSUME NEW S, NEW G, <<>> \in G,
         \A s \in Seq(S), x \in S : s \in G => Append(s, x) \in G
  PROVE  Seq(S) \subseteq G
<1> DEFINE T == {n \in Nat : \E s \in Seq(S) : Len(s) = n /\ s \notin G}
<1>1. SUFFICES ASSUME T # {} PROVE FALSE
  <2>1. SUFFICES ASSUME NEW s \in Seq(S), s \notin G PROVE T # {}
    BY <1>1
  <2>2. Len(s) \in T
    BY <2>1, LenProperties
  <2>3. QED
    BY <2>2
<1>2. PICK m \in T : \A k \in T : m <= k
  BY <1>1, LeastOne
<1>3. PICK s \in Seq(S) : Len(s) = m /\ s \notin G
  OBVIOUS
<1>4. CASE s = <<>>
  BY <1>3, <1>4
<1>5. CASE s # <<>>
  <2>1. PICK t \in Seq(S), x \in S : s = Append(t, x)
    BY <1>5, SequenceEmptyOrAppend
  <2>2. Len(t) \in Nat /\ Len(s) = Len(t) + 1
    BY <2>1, AppendProperties
  <2>3. Len(t) \notin T
    BY <1>2, <1>3, <2>2
  <2>4. t \in G
    BY <2>2, <2>3
  <2>5. QED
    BY <1>3, <2>1, <2>4
<1>6. QED
  BY <1>4, <1>5

\* h[i] joins the first i of the sequences in s.
Joins(s, n, h) ==
  h = [i \in 1 .. n |-> IF i = 1 THEN s[i] ELSE h[i - 1] \o s[i]]

\* They can be joined, so that FlattenSeq is what its definition says.
LEMMA JoinsExist == ASSUME NEW s, NEW n \in Nat PROVE \E h : Joins(s, n, h)
<1> DEFINE T == {k \in Nat : ~ \E h : Joins(s, k, h)}
<1>1. T = {}
  <2>1. SUFFICES ASSUME T # {} PROVE FALSE
    OBVIOUS
  <2>2. PICK m \in T : \A k \in T : m <= k
    BY <2>1, LeastOne
  <2>3. m # 0
    <3> DEFINE g == [i \in 1 .. 0 |-> s[i]]
    <3>1. Joins(s, 0, g)
      BY DEF Joins
    <3>2. QED
      BY <3>1
  <2>4. m \in Nat /\ m > 0 /\ m - 1 \in Nat
    BY <2>2, <2>3
  <2>5. PICK h : Joins(s, m - 1, h)
    BY <2>2, <2>4
  <2> DEFINE g == [i \in 1 .. m |-> IF i = 1 THEN s[i] ELSE h[i - 1] \o s[i]]
  <2>6. ASSUME NEW i \in 1 .. m - 1 PROVE g[i] = h[i]
    <3>1. i \in 1 .. m
      BY <2>4
    <3>2. h[i] = IF i = 1 THEN s[i] ELSE h[i - 1] \o s[i]
      BY <2>5, Zenon DEF Joins
    <3>3. QED
      BY <3>1, <3>2, Zenon
  <2>7. ASSUME NEW i \in 1 .. m, i # 1 PROVE g[i - 1] = h[i - 1]
    <3>1. i - 1 \in 1 .. m - 1
      BY <2>4, <2>7
    <3>2. QED
      BY <2>6, <3>1, Zenon
  <2>8. Joins(s, m, g)
    BY <2>7, Zenon DEF Joins
  <2>9. QED
    BY <2>2, <2>8
<1>2. QED
  BY <1>1

\* What the last of them is.
LEMMA FlattenIs ==
  ASSUME NEW s, Len(s) \in Nat, Len(s) > 0
  PROVE  \E h : /\ FlattenSeq(s) = h[Len(s)] /\ h[1] = s[1]
                /\ \A i \in 2 .. Len(s) : h[i] = h[i - 1] \o s[i]
<1> DEFINE h == CHOOSE g : Joins(s, Len(s), g)
<1>1. Joins(s, Len(s), h)
  <2>1. \E g : Joins(s, Len(s), g)
    BY JoinsExist, Zenon
  <2>2. QED
    BY <2>1, Zenon
<1>2. FlattenSeq(s) = h[Len(s)]
  BY DEF FlattenSeq, Joins
<1> HIDE DEF h
<1>3. h[1] = s[1]
  <2>1. 1 \in 1 .. Len(s)
    OBVIOUS
  <2>2. QED
    BY <1>1, <2>1, Zenon DEF Joins
<1>4. ASSUME NEW i \in 2 .. Len(s) PROVE h[i] = h[i - 1] \o s[i]
  <2>1. i \in 1 .. Len(s) /\ i # 1
    OBVIOUS
  <2>2. QED
    BY <1>1, <2>1, Zenon DEF Joins
<1>5. QED
  BY <1>2, <1>3, <1>4

\* The joined sequences of a longer sequence.
LEMMA FlattenAppend ==
  ASSUME NEW S, NEW s \in Seq(Seq(S)), NEW x \in Seq(S)
  PROVE  FlattenSeq(Append(s, x)) = FlattenSeq(s) \o x
<1> DEFINE t == Append(s, x)
           n == Len(s)
<1>1. /\ n \in Nat /\ t \in Seq(Seq(S)) /\ Len(t) = n + 1
      /\ \A i \in 1 .. n : t[i] = s[i]
      /\ t[n + 1] = x
  BY AppendProperties
<1> HIDE DEF t, n
<1>2. PICK h : /\ FlattenSeq(t) = h[n + 1] /\ h[1] = t[1]
               /\ \A i \in 2 .. n + 1 : h[i] = h[i - 1] \o t[i]
  <2>1. Len(t) \in Nat /\ Len(t) > 0
    BY <1>1
  <2>2. PICK h : /\ FlattenSeq(t) = h[Len(t)] /\ h[1] = t[1]
                 /\ \A i \in 2 .. Len(t) : h[i] = h[i - 1] \o t[i]
    BY <2>1, FlattenIs, Zenon
  <2>3. QED
    BY <1>1, <2>2, Zenon
<1>3. CASE n = 0
  <2>1. FlattenSeq(s) = s /\ s = <<>>
    BY <1>3, EmptySeq DEF FlattenSeq, n
  <2>2. FlattenSeq(t) = x
    BY <1>1, <1>2, <1>3
  <2>3. <<>> \o x = x
    BY ConcatEmptySeq
  <2>4. QED
    BY <2>1, <2>2, <2>3 DEF t
<1>4. CASE n # 0
  <2>1. PICK g : /\ FlattenSeq(s) = g[n] /\ g[1] = s[1]
                 /\ \A i \in 2 .. n : g[i] = g[i - 1] \o s[i]
    <3>1. Len(s) \in Nat /\ Len(s) > 0
      BY <1>1, <1>4 DEF n
    <3>2. QED
      BY <3>1, FlattenIs, Zenon DEF n
  <2> DEFINE T == {i \in Nat : i \in 1 .. n /\ h[i] # g[i]}
  <2>2. T = {}
    <3>1. SUFFICES ASSUME T # {} PROVE FALSE
      OBVIOUS
    <3>2. PICK m \in T : \A k \in T : m <= k
      BY <3>1, LeastOne
    <3>3. m # 1
      BY <1>1, <1>2, <2>1, <3>2
    <3>4. m \in 2 .. n /\ m \in 2 .. n + 1 /\ m - 1 \in 1 .. n /\ m - 1 \notin T
      BY <1>1, <3>2, <3>3
    <3>5. h[m - 1] = g[m - 1] /\ t[m] = s[m]
      BY <1>1, <3>4
    <3>6. h[m] = g[m]
      BY <1>2, <2>1, <3>4, <3>5
    <3>7. QED
      BY <3>2, <3>6
  <2>3. h[n] = g[n]
    BY <1>1, <1>4, <2>2
  <2>4. n + 1 \in 2 .. n + 1 /\ (n + 1) - 1 = n
    BY <1>1, <1>4
  <2>5. h[n + 1] = h[n] \o t[n + 1]
    <3>1. \A i \in 2 .. n + 1 : h[i] = h[i - 1] \o t[i]
      BY <1>2
    <3>2. h[n + 1] = h[(n + 1) - 1] \o t[n + 1]
      BY <2>4, <3>1, Zenon
    <3>3. QED
      BY <2>4, <3>2, Zenon
  <2>6. QED
    BY <1>1, <1>2, <2>1, <2>3, <2>5, Zenon DEF t
<1>5. QED
  BY <1>3, <1>4

\* Nothing, or one sequence, joined.
LEMMA FlattenFew ==
  ASSUME NEW S, NEW x \in Seq(S)
  PROVE  FlattenSeq(<<>>) = <<>> /\ FlattenSeq(<<x>>) = x
<1>1. FlattenSeq(<<>>) = <<>> /\ <<>> \in Seq(Seq(S))
  BY EmptySeq DEF FlattenSeq
<1>2. FlattenSeq(Append(<<>>, x)) = <<>> \o x
  BY <1>1, FlattenAppend, Zenon
<1>3. <<>> \o x = x /\ Append(<<>>, x) = <<x>>
  BY ConcatEmptySeq
<1>4. QED
  BY <1>1, <1>2, <1>3

\* Joined sequences are a sequence of their elements.
LEMMA FlattenType ==
  ASSUME NEW S, NEW s \in Seq(Seq(S)) PROVE FlattenSeq(s) \in Seq(S)
<1> DEFINE G == {t \in Seq(Seq(S)) : FlattenSeq(t) \in Seq(S)}
<1>1. <<>> \in G
  BY FlattenFew, EmptySeq
<1>2. ASSUME NEW t \in Seq(Seq(S)), NEW x \in Seq(S), t \in G
      PROVE  Append(t, x) \in G
  <2>1. FlattenSeq(Append(t, x)) = FlattenSeq(t) \o x
    BY FlattenAppend
  <2>2. FlattenSeq(t) \o x \in Seq(S)
    BY <1>2, ConcatProperties
  <2>3. QED
    BY <2>1, <2>2, AppendProperties
<1> HIDE DEF G
<1>3. Seq(Seq(S)) \subseteq G
  BY <1>1, <1>2, EverySequence, Zenon
<1>4. QED
  BY <1>3 DEF G

\* The first of them comes first.
LEMMA FlattenCons ==
  ASSUME NEW S, NEW s \in Seq(Seq(S)), NEW x \in Seq(S)
  PROVE  FlattenSeq(<<x>> \o s) = x \o FlattenSeq(s)
<1> DEFINE G == {t \in Seq(Seq(S)) : FlattenSeq(<<x>> \o t) = x \o FlattenSeq(t)}
<1>1. <<>> \in G
  <2>1. <<x>> \o <<>> = <<x>> /\ x \o <<>> = x /\ <<>> \in Seq(Seq(S))
    BY ConcatEmptySeq, EmptySeq
  <2>2. QED
    BY <2>1, FlattenFew
<1>2. ASSUME NEW t \in Seq(Seq(S)), NEW y \in Seq(S), t \in G
      PROVE  Append(t, y) \in G
  <2>1. FlattenSeq(Append(t, y)) = FlattenSeq(t) \o y /\ Append(t, y) \in Seq(Seq(S))
    BY FlattenAppend, AppendProperties
  <2>2. <<x>> \in Seq(Seq(S)) /\ <<x>> \o t \in Seq(Seq(S))
    BY ConcatProperties
  <2>3. <<x>> \o Append(t, y) = Append(<<x>> \o t, y)
    <3>1. <<y>> \in Seq(Seq(S))
      OBVIOUS
    <3>2. (<<x>> \o t) \o <<y>> = <<x>> \o (t \o <<y>>)
      BY <2>2, <3>1, ConcatAssociative
    <3>3. Append(t, y) = t \o <<y>> /\ Append(<<x>> \o t, y) = (<<x>> \o t) \o <<y>>
      BY <2>2, AppendIsConcat
    <3>4. QED
      BY <3>2, <3>3, Zenon
  <2>4. FlattenSeq(Append(<<x>> \o t, y)) = FlattenSeq(<<x>> \o t) \o y
    BY <2>2, FlattenAppend, Zenon
  <2>5. FlattenSeq(<<x>> \o t) = x \o FlattenSeq(t)
    BY <1>2
  <2>6. (x \o FlattenSeq(t)) \o y = x \o (FlattenSeq(t) \o y)
    <3> DEFINE f == FlattenSeq(t)
    <3>1. f \in Seq(S)
      BY FlattenType
    <3> HIDE DEF f
    <3>2. (x \o f) \o y = x \o (f \o y)
      BY <3>1, ConcatAssociative, SMTT(30)
    <3>3. QED
      BY <3>2 DEF f
  <2>7. FlattenSeq(<<x>> \o Append(t, y)) = x \o FlattenSeq(Append(t, y))
    BY <2>1, <2>3, <2>4, <2>5, <2>6, Zenon
  <2>8. QED
    BY <2>1, <2>7
<1> HIDE DEF G
<1>3. Seq(Seq(S)) \subseteq G
  BY <1>1, <1>2, EverySequence, Zenon
<1>4. QED
  BY <1>3 DEF G

-----------------------------------------------------------------------------
(* Bytes and strings *)

\* The bytes of a number.
LEMMA NetworkBytesAre ==
  ASSUME NEW n \in Nat
  PROVE  NetworkBytes(n) \in Seq(Byte) /\ Len(NetworkBytes(n)) = 4
<1>1. \A k \in Nat : k \div 256 \in Nat /\ k % 256 \in Byte
  BY DEF Byte
<1> DEFINE tail == n \div 256
           rest == tail \div 256
<1>2. tail \in Nat /\ rest \in Nat /\ rest \div 256 \in Nat
  BY <1>1
<1>3. NetworkBytes(n) = <<(rest \div 256) % 256, rest % 256, tail % 256, n % 256>>
  BY DEF NetworkBytes
<1> HIDE DEF tail, rest
<1>4. QED
  BY <1>1, <1>2, <1>3

\* They are read back as the number that they were written for,
LEMMA NumberReadBack ==
  ASSUME NEW n \in Nat, Fits32(n) PROVE HostNumber(NetworkBytes(n)) = n
<1>1. \A k \in Nat : k \div 256 \in Nat /\ k = 256 * (k \div 256) + (k % 256)
  OBVIOUS
<1>2. \A k \in Byte : k % 256 = k
  BY DEF Byte
<1> DEFINE tail == n \div 256
           rest == tail \div 256
           first == rest \div 256
<1>3. tail \in Nat /\ rest \in Nat /\ first \in Byte
  BY <1>1 DEF Fits32
<1>4. /\ n = 256 * tail + (n % 256) /\ tail = 256 * rest + (tail % 256)
      /\ rest = 256 * first + (rest % 256)
  BY <1>1, <1>3
<1>5. NetworkBytes(n) = <<first, rest % 256, tail % 256, n % 256>>
  BY <1>2, <1>3 DEF NetworkBytes
<1> HIDE DEF tail, rest, first
<1>6. QED
  BY <1>4, <1>5 DEF HostNumber

\* The number that four bytes stand for.
LEMMA FourBytes ==
  ASSUME NEW w \in Byte, NEW x \in Byte, NEW y \in Byte, NEW z \in Byte, NEW n,
         n = 256 * (256 * (256 * w + x) + y) + z
  PROVE  n \in Nat /\ Fits32(n) /\ NetworkBytes(n) = <<w, x, y, z>>
<1>1. w \in Nat /\ w % 256 = w
  BY DEF Byte
<1>2. PICK rest : rest = 256 * w + x
  OBVIOUS
<1>3. rest \in Nat /\ rest \div 256 = w /\ rest % 256 = x
  BY <1>2 DEF Byte
<1>4. PICK tail : tail = 256 * rest + y
  OBVIOUS
<1>5. tail \in Nat /\ tail \div 256 = rest /\ tail % 256 = y
  BY <1>3, <1>4 DEF Byte
<1>6. n = 256 * tail + z
  BY <1>2, <1>4
<1>7. n \in Nat /\ n \div 256 = tail /\ n % 256 = z
  BY <1>5, <1>6 DEF Byte
<1>8. QED
  BY <1>1, <1>3, <1>5, <1>7 DEF NetworkBytes, Fits32

\* and a number that is read is written as the same bytes.
LEMMA NumberWrittenBack ==
  ASSUME NEW b \in Seq(Byte), Len(b) = 4
  PROVE  /\ HostNumber(b) \in Nat /\ Fits32(HostNumber(b))
         /\ NetworkBytes(HostNumber(b)) = b
<1>1. b[1] \in Byte /\ b[2] \in Byte /\ b[3] \in Byte /\ b[4] \in Byte
  <2>1. \A i \in 1 .. 4 : b[i] \in Byte
    BY ElementOfSeq
  <2>2. QED
    BY <2>1
<1>2. b = <<b[1], b[2], b[3], b[4]>>
  OBVIOUS
<1>3. HostNumber(b) = 256 * (256 * (256 * b[1] + b[2]) + b[3]) + b[4]
  BY DEF HostNumber
<1>4. /\ HostNumber(b) \in Nat /\ Fits32(HostNumber(b))
      /\ NetworkBytes(HostNumber(b)) = <<b[1], b[2], b[3], b[4]>>
  <2>1. PICK w \in Byte, x \in Byte, y \in Byte, z \in Byte :
          w = b[1] /\ x = b[2] /\ y = b[3] /\ z = b[4]
    BY <1>1, Zenon
  <2>2. PICK n : n = 256 * (256 * (256 * w + x) + y) + z
    OBVIOUS
  <2>3. HostNumber(b) = n
    BY <1>3, <2>1, <2>2
  <2>4. n \in Nat /\ Fits32(n) /\ NetworkBytes(n) = <<w, x, y, z>>
    BY <2>2, FourBytes, SMTT(30)
  <2>5. QED
    BY <2>1, <2>3, <2>4
<1>5. QED
  BY <1>2, <1>4, Zenon

\* Bytes swapped twice are as they were.
LEMMA SwappedTwice ==
  ASSUME NEW b \in Seq(Byte)
  PROVE  /\ SwapBytes(b) \in Seq(Byte) /\ Len(SwapBytes(b)) = Len(b)
         /\ SwapBytes(SwapBytes(b)) = b
<1>1. Len(b) \in Nat /\ b = [i \in 1 .. Len(b) |-> b[i]]
  OBVIOUS
<1> DEFINE c == SwapBytes(b)
<1>2. c = [i \in 1 .. Len(b) |-> b[(Len(b) - i) + 1]]
  BY DEF SwapBytes, Reverse
<1>3. c \in Seq(Byte) /\ Len(c) = Len(b)
  BY <1>1, <1>2
<1> HIDE DEF c
<1>4. SwapBytes(c) = [i \in 1 .. Len(b) |-> c[(Len(b) - i) + 1]]
  BY <1>3 DEF SwapBytes, Reverse
<1>5. \A i \in 1 .. Len(b) : c[(Len(b) - i) + 1] = b[i]
  BY <1>1, <1>2
<1>6. QED
  BY <1>1, <1>3, <1>4, <1>5 DEF c

\* What strdup copies of a string.
LEMMA CStringIs ==
  ASSUME NEW s \in Seq(Byte)
  PROVE  /\ CString(s) \in Seq(Byte) /\ Len(CString(s)) <= Len(s)
         /\ NoZero(CString(s))
         /\ Len(CString(s)) = Len(s) \/ NoZero(s) => CString(s) = s
<1> DEFINE Z == {i \in 1 .. Len(s) : s[i] = 0} \cup {Len(s) + 1}
           m == Min(Z)
<1>1. Len(s) \in Nat /\ Z \subseteq Nat /\ Z # {}
  OBVIOUS
<1>2. m \in Z /\ \A k \in Z : m <= k
  <2> HIDE DEF Z
  <2>1. \E x \in Z : \A k \in Z : x <= k
    BY <1>1, LeastOne
  <2>2. QED
    BY <2>1 DEF Min
<1> HIDE DEF m
<1>3. m \in 1 .. Len(s) + 1 /\ \A i \in 1 .. m - 1 : s[i] # 0
  BY <1>1, <1>2
<1>4. CString(s) = SubSeq(s, 1, m - 1)
  BY DEF CString, m
<1>5. /\ SubSeq(s, 1, m - 1) \in Seq(Byte) /\ Len(SubSeq(s, 1, m - 1)) = m - 1
      /\ \A i \in 1 .. m - 1 : SubSeq(s, 1, m - 1)[i] = s[i]
  BY <1>1, <1>3
<1>6. NoZero(CString(s))
  BY <1>3, <1>4, <1>5 DEF NoZero
<1>7. NoZero(s) => m = Len(s) + 1
  BY <1>2, <1>3 DEF NoZero
<1>8. SubSeq(s, 1, Len(s)) = s
  BY SubSeqFull
<1>9. m - 1 = Len(s) => CString(s) = s
  BY <1>4, <1>8
<1>10. QED
  BY <1>1, <1>3, <1>4, <1>5, <1>6, <1>7, <1>9

-----------------------------------------------------------------------------
(* Parts *)

Types == {NOT_INIT, STRING_T} \cup Narrow \cup Wide

\* The types, as numbers.
LEMMA TypeNumbers ==
  /\ STRING_T = 5 /\ NOT_INIT = 0 /\ StringHeader = 5 /\ HeaderSize = 10
  /\ Len(Start) = 4 /\ Start \in Seq(Byte)
  /\ \A t \in Narrow \cup Wide :
        /\ t \in Byte /\ t # STRING_T /\ t # NOT_INIT
        /\ Width(t) \in {4, 8}
BY DEF Types, NOT_INIT, STRING_T, Narrow, Wide, Width, StringHeader, HeaderSize, Start,
       INT32_T, INT64_T, UINT32_T, UINT64_T, FLOAT_T, DOUBLE_T, Byte

\* The parts whose strings no 0 byte ends early: those that a message holds.
Copies == {p \in Parts : p.type = STRING_T => NoZero(p.value)}

SetParts == Numbers \cup Strings

\* Only a part that is not set has no type.
LEMMA PartIs ==
  ASSUME NEW p \in Parts
  PROVE  /\ p.type \in Nat /\ p.value \in Seq(Byte) /\ p.length \in Nat
         /\ IsSet(p) <=> p \in SetParts
         /\ p.type = STRING_T <=> p \in Strings
         /\ p.type \in Narrow \cup Wide <=> p \in Numbers
         /\ p \in Numbers \/ p \in Strings \/ p = NewPart
         /\ p = [type |-> p.type, value |-> p.value, length |-> p.length]
<1>1. CASE p = NewPart
  BY <1>1, TypeNumbers, EmptySeq
     DEF NewPart, IsSet, SetParts, Numbers, Strings
<1>2. CASE p \in Numbers
  <2>1. /\ p.type \in Narrow \cup Wide /\ p.value \in Seq(Byte) /\ p.length \in Nat
        /\ p = [type |-> p.type, value |-> p.value, length |-> p.length]
    BY <1>2 DEF Numbers
  <2>2. p.type \in Nat /\ p.type # STRING_T /\ p.type # NOT_INIT
    <3>1. p.type \in Byte /\ p.type # STRING_T /\ p.type # NOT_INIT
      BY <2>1, TypeNumbers, Zenon
    <3>2. QED
      BY <3>1 DEF Byte
  <2>3. p \notin Strings
    BY <2>2 DEF Strings
  <2>4. QED
    BY <1>2, <2>1, <2>2, <2>3 DEF IsSet, SetParts
<1>3. CASE p \in Strings
  BY <1>3, TypeNumbers DEF IsSet, SetParts, Numbers, Strings
<1>4. QED
  BY <1>1, <1>2, <1>3 DEF Parts

\* A part that is set is written as as many bytes as its length says.
LEMMA PartBytesAre ==
  ASSUME NEW p \in SetParts, NEW junk \in Byte
  PROVE  PartBytes(p, junk) \in Seq(Byte) /\ Len(PartBytes(p, junk)) = p.length
<1>1. CASE p \in Numbers
  <2>1. PartBytes(p, junk) = <<p.type>> \o SwapBytes(p.value)
    BY <1>1, TypeNumbers, Zenon DEF PartBytes, Numbers
  <2>2. SwapBytes(p.value) \in Seq(Byte) /\ Len(SwapBytes(p.value)) = Len(p.value)
    BY <1>1, SwappedTwice DEF Numbers
  <2>3. <<p.type>> \in Seq(Byte) /\ Len(<<p.type>>) = 1
    BY <1>1, TypeNumbers DEF Numbers
  <2>4. p.length = 1 + Len(p.value)
    BY <1>1 DEF Numbers
  <2>5. QED
    BY <2>1, <2>2, <2>3, <2>4, ConcatProperties
<1>2. CASE p \in Strings
  <2> DEFINE rest == [i \in 1 .. (p.length - StringHeader) |->
                        IF i <= Len(p.value) THEN p.value[i] ELSE junk]
  <2>1. PartBytes(p, junk) = (<<STRING_T>> \o NetworkBytes(p.length)) \o rest
    BY <1>2, Zenon DEF PartBytes, Strings
  <2>2. p.length \in Nat /\ p.length - StringHeader \in Nat /\ p.value \in Seq(Byte)
    BY <1>2, TypeNumbers DEF Strings
  <2>3. rest \in Seq(Byte) /\ Len(rest) = p.length - StringHeader
    BY <2>2
  <2> HIDE DEF rest
  <2>4. NetworkBytes(p.length) \in Seq(Byte) /\ Len(NetworkBytes(p.length)) = 4
    BY <2>2, NetworkBytesAre
  <2>5. <<STRING_T>> \in Seq(Byte) /\ Len(<<STRING_T>>) = 1
    BY TypeNumbers DEF Byte
  <2>6. /\ <<STRING_T>> \o NetworkBytes(p.length) \in Seq(Byte)
        /\ Len(<<STRING_T>> \o NetworkBytes(p.length)) = 5
    <3>1. PICK n : n = NetworkBytes(p.length)
      OBVIOUS
    <3>2. PICK t : t = <<STRING_T>>
      OBVIOUS
    <3>3. n \in Seq(Byte) /\ Len(n) = 4 /\ t \in Seq(Byte) /\ Len(t) = 1
      BY <2>4, <2>5, <3>1, <3>2, Zenon
    <3>4. t \o n \in Seq(Byte) /\ Len(t \o n) = Len(t) + Len(n)
      BY <3>3, ConcatProperties, Zenon
    <3>5. QED
      BY <3>1, <3>2, <3>3, <3>4
  <2>7. QED
    BY <2>1, <2>2, <2>3, <2>6, TypeNumbers, ConcatProperties
<1>3. QED
  BY <1>1, <1>2 DEF SetParts

\* A copy is of the same type and length, and an exact one if no string ends early.
LEMMA CopyIs ==
  ASSUME NEW p \in Parts
  PROVE  /\ CopyPart(p) \in Copies
         /\ CopyPart(p).type = p.type /\ CopyPart(p).length = p.length
         /\ p \in Copies => CopyPart(p) = p
         /\ p.type = STRING_T /\ Len(CopyPart(p).value) = Len(p.value) => CopyPart(p) = p
         /\ p.type # STRING_T => CopyPart(p) = p
<1>1. CASE p.type = STRING_T
  <2>1. p \in Strings
    BY <1>1, PartIs
  <2>2. /\ CString(p.value) \in Seq(Byte) /\ Len(CString(p.value)) <= Len(p.value)
        /\ NoZero(CString(p.value))
        /\ Len(CString(p.value)) = Len(p.value) \/ NoZero(p.value)
             => CString(p.value) = p.value
    <3>1. p.value \in Seq(Byte)
      BY <2>1 DEF Strings
    <3>2. QED
      BY <3>1, CStringIs, Zenon
  <2>3. CopyPart(p) = [type |-> p.type, value |-> CString(p.value), length |-> p.length]
    BY <1>1, <2>1 DEF CopyPart, Strings
  <2>4. Len(CString(p.value)) \in Nat /\ Len(p.value) \in Nat
    BY <2>1, <2>2 DEF Strings
  <2>5. CopyPart(p) \in Strings
    BY <2>1, <2>2, <2>3, <2>4, TypeNumbers DEF Strings
  <2>6. p = [type |-> p.type, value |-> p.value, length |-> p.length]
    BY PartIs
  <2>7. /\ CopyPart(p).value = CString(p.value)
        /\ CopyPart(p).type = p.type /\ CopyPart(p).length = p.length
    BY <2>3
  <2>8. CopyPart(p) \in Copies
    BY <2>2, <2>5, <2>7 DEF Copies, Parts
  <2>9. CString(p.value) = p.value => CopyPart(p) = p
    BY <2>3, <2>6, Zenon
  <2>10. p \in Copies => CopyPart(p) = p
    BY <1>1, <2>2, <2>9, Zenon DEF Copies
  <2>11. Len(CopyPart(p).value) = Len(p.value) => CopyPart(p) = p
    BY <2>2, <2>7, <2>9, Zenon
  <2>12. QED
    BY <1>1, <2>7, <2>8, <2>10, <2>11, Zenon
<1>2. CASE p.type # STRING_T
  BY <1>2 DEF CopyPart, Copies
<1>3. QED
  BY <1>1, <1>2

\* The bytes of parts that are written one after the other.
Payload(parts, junk) ==
  FlattenSeq([i \in DOMAIN parts |-> PartBytes(parts[i], junk)])

\* They are bytes,
LEMMA PayloadType ==
  ASSUME NEW parts \in Seq(SetParts), NEW junk \in Byte
  PROVE  /\ [i \in DOMAIN parts |-> PartBytes(parts[i], junk)] \in Seq(Seq(Byte))
         /\ Payload(parts, junk) \in Seq(Byte)
<1>1. Len(parts) \in Nat /\ DOMAIN parts = 1 .. Len(parts)
  BY LenProperties
<1>2. \A i \in 1 .. Len(parts) : PartBytes(parts[i], junk) \in Seq(Byte)
  BY PartBytesAre, ElementOfSeq
<1> DEFINE s == [i \in 1 .. Len(parts) |-> PartBytes(parts[i], junk)]
<1>3. s \in Seq(Seq(Byte))
  BY <1>1, <1>2
<1> HIDE DEF s
<1>4. FlattenSeq(s) \in Seq(Byte)
  BY <1>3, FlattenType
<1>5. QED
  BY <1>1, <1>3, <1>4 DEF Payload, s

\* those of no parts are none,
LEMMA PayloadEmpty == ASSUME NEW junk PROVE Payload(<<>>, junk) = <<>>
<1>1. [i \in DOMAIN <<>> |-> PartBytes(<<>>[i], junk)] = <<>>
  OBVIOUS
<1>2. <<>> \in Seq(Byte)
  BY EmptySeq
<1>3. QED
  BY <1>1, <1>2, FlattenFew, Zenon DEF Payload

\* those of a last part follow,
LEMMA PayloadAppend ==
  ASSUME NEW parts \in Seq(SetParts), NEW p \in SetParts, NEW junk \in Byte
  PROVE  Payload(Append(parts, p), junk) = Payload(parts, junk) \o PartBytes(p, junk)
<1> DEFINE s == [i \in DOMAIN parts |-> PartBytes(parts[i], junk)]
           t == Append(parts, p)
           u == [i \in DOMAIN t |-> PartBytes(t[i], junk)]
           b == PartBytes(p, junk)
<1>1. s \in Seq(Seq(Byte)) /\ b \in Seq(Byte)
  BY PayloadType, PartBytesAre
<1>2. /\ Len(parts) \in Nat /\ DOMAIN parts = 1 .. Len(parts)
      /\ DOMAIN t = 1 .. Len(parts) + 1
      /\ \A i \in 1 .. Len(parts) : t[i] = parts[i]
      /\ t[Len(parts) + 1] = p
  BY AppendProperties, LenProperties
<1>3. Len(s) = Len(parts)
  BY <1>2
<1>4. u = Append(s, b)
  <2> HIDE DEF t
  <2>1. DOMAIN u = 1 .. Len(parts) + 1
    BY <1>2
  <2>2. /\ \A i \in 1 .. Len(parts) : u[i] = s[i]
        /\ u[Len(parts) + 1] = b
    <3>1. \A i \in 1 .. Len(parts) : i \in DOMAIN t /\ i \in DOMAIN parts
      BY <1>2
    <3>2. Len(parts) + 1 \in DOMAIN t
      BY <1>2
    <3>3. QED
      BY <1>2, <3>1, <3>2, Zenon
  <2>3. u = [i \in 1 .. Len(parts) + 1 |-> u[i]]
    BY <2>1
  <2> HIDE DEF u, s, b
  <2>4. /\ Append(s, b) \in Seq(Seq(Byte)) /\ Len(Append(s, b)) = Len(s) + 1
        /\ \A i \in 1 .. Len(s) : Append(s, b)[i] = s[i]
        /\ Append(s, b)[Len(s) + 1] = b
    BY <1>1, AppendProperties
  <2>5. \A i \in 1 .. Len(parts) + 1 : u[i] = Append(s, b)[i]
    <3>1. \A i \in 1 .. Len(parts) + 1 : i \in 1 .. Len(parts) \/ i = Len(parts) + 1
      BY <1>2
    <3>2. QED
      BY <1>3, <2>2, <2>4, <3>1, Zenon
  <2>6. Append(s, b) = [i \in 1 .. Len(parts) + 1 |-> Append(s, b)[i]]
    <3>1. PICK v : v = Append(s, b)
      OBVIOUS
    <3>2. v \in Seq(Seq(Byte)) /\ Len(v) = Len(parts) + 1
      BY <1>3, <2>4, <3>1
    <3>3. v = [i \in 1 .. Len(parts) + 1 |-> v[i]]
      BY <3>2
    <3>4. QED
      BY <3>1, <3>3, Zenon
  <2>7. QED
    BY <2>3, <2>5, <2>6, Zenon
<1> HIDE DEF s, b, u
<1>5. FlattenSeq(u) = FlattenSeq(s) \o b
  BY <1>1, <1>4, FlattenAppend
<1>6. QED
  BY <1>5 DEF Payload, s, b, u

\* and those of a first part precede.
LEMMA PayloadCons ==
  ASSUME NEW parts \in Seq(SetParts), NEW p \in SetParts, NEW junk \in Byte
  PROVE  Payload(<<p>> \o parts, junk) = PartBytes(p, junk) \o Payload(parts, junk)
<1> DEFINE s == [i \in DOMAIN parts |-> PartBytes(parts[i], junk)]
           t == <<p>> \o parts
           u == [i \in DOMAIN t |-> PartBytes(t[i], junk)]
           b == PartBytes(p, junk)
<1>1. s \in Seq(Seq(Byte)) /\ b \in Seq(Byte)
  BY PayloadType, PartBytesAre
<1>2. /\ Len(parts) \in Nat /\ DOMAIN parts = 1 .. Len(parts)
      /\ DOMAIN t = 1 .. Len(parts) + 1
      /\ t[1] = p
      /\ \A i \in 1 .. Len(parts) : t[i + 1] = parts[i]
  <2>1. <<p>> \in Seq(SetParts) /\ Len(<<p>>) = 1 /\ <<p>>[1] = p
    OBVIOUS
  <2>2. Len(parts) \in Nat /\ DOMAIN parts = 1 .. Len(parts)
    BY LenProperties
  <2>3. /\ t \in Seq(SetParts) /\ Len(t) = Len(<<p>>) + Len(parts)
        /\ \A i \in 1 .. Len(<<p>>) + Len(parts) :
             t[i] = IF i <= Len(<<p>>) THEN <<p>>[i] ELSE parts[i - Len(<<p>>)]
    BY <2>1, ConcatProperties
  <2>4. DOMAIN t = 1 .. Len(t)
    BY <2>3, LenProperties
  <2> HIDE DEF t
  <2>5. /\ Len(t) = Len(parts) + 1
        /\ \A i \in 1 .. Len(parts) + 1 : t[i] = IF i <= 1 THEN p ELSE parts[i - 1]
    BY <2>1, <2>2, <2>3
  <2>6. t[1] = p
    BY <2>2, <2>5
  <2>7. ASSUME NEW i \in 1 .. Len(parts) PROVE t[i + 1] = parts[i]
    <3>1. i + 1 \in 1 .. Len(parts) + 1 /\ ~ (i + 1 <= 1) /\ (i + 1) - 1 = i
      BY <2>2
    <3>2. QED
      BY <2>5, <3>1
  <2>8. QED
    BY <2>2, <2>4, <2>5, <2>6, <2>7
<1>3. Len(s) = Len(parts)
  BY <1>2
<1>4. u = <<b>> \o s
  <2> HIDE DEF t
  <2>1. DOMAIN u = 1 .. Len(parts) + 1
    BY <1>2
  <2>2. u[1] = b /\ \A i \in 1 .. Len(parts) : u[i + 1] = s[i]
    <3>1. \A i \in 1 .. Len(parts) : i + 1 \in DOMAIN t /\ i \in DOMAIN parts
      BY <1>2
    <3>2. 1 \in DOMAIN t
      BY <1>2
    <3>3. QED
      BY <1>2, <3>1, <3>2, Zenon
  <2>3. u = [i \in 1 .. Len(parts) + 1 |-> u[i]]
    BY <2>1
  <2> HIDE DEF u, s, b
  <2>4. <<b>> \o s = [i \in 1 .. Len(s) + 1 |-> IF i = 1 THEN b ELSE s[i - 1]]
    BY <1>1
  <2>5. ASSUME NEW i \in 1 .. Len(parts) + 1, i # 1 PROVE u[i] = s[i - 1]
    <3>1. i - 1 \in 1 .. Len(parts) /\ (i - 1) + 1 = i
      BY <1>2, <2>5
    <3>2. QED
      BY <2>2, <3>1
  <2>6. QED
    BY <1>2, <1>3, <2>2, <2>3, <2>4, <2>5
<1> HIDE DEF s, b, u
<1>5. FlattenSeq(u) = b \o FlattenSeq(s)
  BY <1>1, <1>4, FlattenCons
<1>6. QED
  BY <1>5 DEF Payload, s, b, u

-----------------------------------------------------------------------------
(* Messages *)

\* A pair of bytes is a sequence of two.
LEMMA PairIs == ASSUME NEW s PROVE s \in Byte \X Byte <=> s \in Seq(Byte) /\ Len(s) = 2
<1>1. ASSUME s \in Byte \X Byte PROVE s \in Seq(Byte) /\ Len(s) = 2
  <2>1. PICK a \in Byte, b \in Byte : s = <<a, b>>
    BY <1>1
  <2>2. <<a, b>> \in Seq(Byte) /\ Len(<<a, b>>) = 2
    OBVIOUS
  <2>3. QED
    BY <2>1, <2>2, Zenon
<1>2. ASSUME s \in Seq(Byte), Len(s) = 2 PROVE s \in Byte \X Byte
  <2>1. s[1] \in Byte /\ s[2] \in Byte
    <3>1. 1 \in 1 .. Len(s) /\ 2 \in 1 .. Len(s)
      BY <1>2
    <3>2. QED
      BY <1>2, <3>1, ElementOfSeq, Zenon
  <2>2. s = <<s[1], s[2]>>
    BY <1>2
  <2>3. <<s[1], s[2]>> \in Byte \X Byte
    BY <2>1
  <2>4. QED
    BY <2>2, <2>3, Zenon
<1>3. QED
  BY <1>1, <1>2

\* What the functions of MsgBuffer.c make of messages: the length of a message all
\* of whose parts are set is that of the header and of what the parts are
\* written as.
WellFormed ==
  {m \in [id : Byte \X Byte, length : Nat, parts : Seq(Copies)] :
     /\ m.length >= HeaderSize
     /\ AllSet(m) => \A junk \in Byte :
                       Len(Payload(m.parts, junk)) = m.length - HeaderSize}

\* A new message is well-formed.
LEMMA NewMsgIs ==
  ASSUME NEW id \in Byte \X Byte
  PROVE  NewMsg(id) \in WellFormed /\ AllSet(NewMsg(id))
<1>1. /\ NewMsg(id) = [id |-> id, length |-> 10, parts |-> <<>>]
      /\ <<>> \in Seq(Copies) /\ Len(<<>>) = 0 /\ DOMAIN <<>> = {}
  BY TypeNumbers, EmptySeq DEF NewMsg
<1>2. \A junk \in Byte : Len(Payload(<<>>, junk)) = 0
  BY <1>1, PayloadEmpty
<1> DEFINE m == NewMsg(id)
<1>3. m.id = id /\ m.length = 10 /\ m.parts = <<>>
  BY <1>1
<1>4. m \in [id : Byte \X Byte, length : Nat, parts : Seq(Copies)]
  BY <1>1
<1>5. AllSet(m)
  BY <1>1, <1>3, Zenon DEF AllSet
<1> HIDE DEF m
<1>6. \A junk \in Byte : Len(Payload(m.parts, junk)) = m.length - HeaderSize
  BY <1>2, <1>3, TypeNumbers
<1>7. m \in WellFormed
  BY <1>3, <1>4, <1>6, TypeNumbers DEF WellFormed
<1>8. QED
  BY <1>5, <1>7 DEF m

\* The parts of a message that are all set.
LEMMA AllSetParts ==
  ASSUME NEW m \in WellFormed
  PROVE  /\ m.parts \in Seq(Copies) /\ m.parts \in Seq(Parts)
         /\ AllSet(m) => m.parts \in Seq(SetParts)
<1>1. m.parts \in Seq(Copies)
  BY DEF WellFormed
<1>2. m.parts \in Seq(Parts)
  BY <1>1, SeqMonotonic DEF Copies
<1>3. ASSUME AllSet(m) PROVE m.parts \in Seq(SetParts)
  <2>1. Len(m.parts) \in Nat /\ DOMAIN m.parts = 1 .. Len(m.parts)
    BY <1>2, LenProperties
  <2>2. \A i \in 1 .. Len(m.parts) : m.parts[i] \in SetParts
    BY <1>2, <1>3, <2>1, PartIs, ElementOfSeq DEF AllSet
  <2>3. m.parts = [i \in 1 .. Len(m.parts) |-> m.parts[i]]
    BY <1>2
  <2> DEFINE s == m.parts
  <2>4. s = [i \in 1 .. Len(s) |-> s[i]] /\ Len(s) \in Nat
        /\ \A i \in 1 .. Len(s) : s[i] \in SetParts
    BY <2>1, <2>2, <2>3
  <2> HIDE DEF s
  <2>5. s \in Seq(SetParts)
    BY <2>4
  <2>6. QED
    BY <2>5 DEF s
<1>4. QED
  BY <1>1, <1>2, <1>3

\* A message with one part more.
LEMMA WithPartIs ==
  ASSUME NEW m \in WellFormed, NEW p \in Parts
  PROVE  /\ WithPart(m, p) \in WellFormed
         /\ WithPart(m, p).id = m.id
         /\ WithPart(m, p).parts = Append(m.parts, CopyPart(p))
         /\ IsSet(p) => WithPart(m, p).length = m.length + p.length
<1> DEFINE q == CopyPart(p)
           w == WithPart(m, p)
           l == IF IsSet(p) THEN m.length + p.length ELSE m.length
<1>1. /\ m.id \in Byte \X Byte /\ m.length \in Nat /\ m.parts \in Seq(Copies)
      /\ m.length >= HeaderSize
      /\ m = [id |-> m.id, length |-> m.length, parts |-> m.parts]
  BY DEF WellFormed
<1>2. q \in Copies /\ q \in Parts /\ q.type = p.type /\ q.length = p.length
  BY CopyIs DEF Copies
<1>3. p.length \in Nat /\ (IsSet(q) <=> IsSet(p))
  BY <1>2, PartIs DEF IsSet
<1>4. w = [id |-> m.id, length |-> l, parts |-> Append(m.parts, q)]
  <2> HIDE DEF q
  <2>1. w = [m EXCEPT !.parts = Append(@, q),
                      !.length = IF IsSet(p) THEN @ + p.length ELSE @]
    BY Zenon DEF WithPart, q
  <2>2. QED
    BY <1>1, <2>1
<1>5. l \in Nat /\ l >= HeaderSize
  BY <1>1, <1>3, TypeNumbers
<1>6. Append(m.parts, q) \in Seq(Copies)
  BY <1>1, <1>2, AppendProperties
<1>7. w.id = m.id /\ w.length = l /\ w.parts = Append(m.parts, q)
  BY <1>4
<1>8. w \in [id : Byte \X Byte, length : Nat, parts : Seq(Copies)]
  BY <1>1, <1>4, <1>5, <1>6
<1>9. ASSUME AllSet(w), NEW junk \in Byte
      PROVE  Len(Payload(w.parts, junk)) = w.length - HeaderSize
  <2>1. /\ DOMAIN w.parts = 1 .. Len(m.parts) + 1 /\ Len(m.parts) \in Nat
        /\ DOMAIN m.parts = 1 .. Len(m.parts)
        /\ \A i \in 1 .. Len(m.parts) : w.parts[i] = m.parts[i]
        /\ w.parts[Len(m.parts) + 1] = q
    BY <1>1, <1>2, <1>7, AppendProperties, LenProperties
  <2>2. IsSet(q) /\ AllSet(m)
    BY <1>9, <2>1 DEF AllSet
  <2>3. q \in SetParts /\ m.parts \in Seq(SetParts)
    BY <1>2, <2>2, PartIs, AllSetParts
  <2>4. Payload(w.parts, junk) = Payload(m.parts, junk) \o PartBytes(q, junk)
    BY <1>7, <2>3, PayloadAppend
  <2>5. /\ Payload(m.parts, junk) \in Seq(Byte)
        /\ Len(Payload(m.parts, junk)) = m.length - HeaderSize
    BY <2>2, <2>3, PayloadType DEF WellFormed
  <2>6. PartBytes(q, junk) \in Seq(Byte) /\ Len(PartBytes(q, junk)) = p.length
    BY <1>2, <2>3, PartBytesAre
  <2>7. Len(Payload(w.parts, junk)) = (m.length - HeaderSize) + p.length
    <3> DEFINE a == Payload(m.parts, junk)
               b == PartBytes(q, junk)
    <3>1. a \in Seq(Byte) /\ b \in Seq(Byte)
      BY <2>5, <2>6
    <3> HIDE DEF a, b
    <3>2. Len(a \o b) = Len(a) + Len(b)
      BY <3>1, ConcatProperties
    <3>3. QED
      BY <2>4, <2>5, <2>6, <3>2 DEF a, b
  <2>8. QED
    BY <1>1, <1>3, <1>7, <2>2, <2>7, TypeNumbers
<1>10. w \in WellFormed
  BY <1>5, <1>7, <1>8, <1>9 DEF WellFormed
<1>11. QED
  BY <1>7, <1>10

\* h[i] is the message with the first i parts added.
Adds(msg, parts, n, h) ==
  h = [i \in 0 .. n |-> IF i = 0 THEN msg ELSE WithPart(h[i - 1], parts[i])]

\* They can be added, so that WithParts is what its definition says.
LEMMA AddsExist ==
  ASSUME NEW msg, NEW parts, NEW n \in Nat PROVE \E h : Adds(msg, parts, n, h)
<1> DEFINE T == {k \in Nat : ~ \E h : Adds(msg, parts, k, h)}
<1>1. T = {}
  <2>1. SUFFICES ASSUME T # {} PROVE FALSE
    OBVIOUS
  <2>2. PICK m \in T : \A k \in T : m <= k
    BY <2>1, LeastOne
  <2>3. m # 0
    <3> DEFINE g == [i \in 0 .. 0 |-> msg]
    <3>1. Adds(msg, parts, 0, g)
      BY DEF Adds
    <3>2. QED
      BY <3>1
  <2>4. m \in Nat /\ m > 0 /\ m - 1 \in Nat
    BY <2>2, <2>3
  <2>5. PICK h : Adds(msg, parts, m - 1, h)
    BY <2>2, <2>4
  <2> DEFINE g == [i \in 0 .. m |-> IF i = 0 THEN msg ELSE WithPart(h[i - 1], parts[i])]
  <2>6. ASSUME NEW i \in 0 .. m - 1 PROVE g[i] = h[i]
    <3>1. i \in 0 .. m
      BY <2>4
    <3>2. h[i] = IF i = 0 THEN msg ELSE WithPart(h[i - 1], parts[i])
      BY <2>5, Zenon DEF Adds
    <3>3. QED
      BY <3>1, <3>2, Zenon
  <2>7. ASSUME NEW i \in 0 .. m, i # 0 PROVE g[i - 1] = h[i - 1]
    <3>1. i - 1 \in 0 .. m - 1
      BY <2>4, <2>7
    <3>2. QED
      BY <2>6, <3>1, Zenon
  <2>8. Adds(msg, parts, m, g)
    BY <2>7, Zenon DEF Adds
  <2>9. QED
    BY <2>2, <2>8
<1>2. QED
  BY <1>1

\* What adding a sequence of parts to a new message makes: their copies.
LEMMA WithPartsIs ==
  ASSUME NEW id \in Byte \X Byte, NEW parts \in Seq(Parts)
  PROVE  /\ WithParts(NewMsg(id), parts) \in WellFormed
         /\ WithParts(NewMsg(id), parts).id = id
         /\ WithParts(NewMsg(id), parts).parts
              = [i \in 1 .. Len(parts) |-> CopyPart(parts[i])]
<1> DEFINE msg == NewMsg(id)
           n == Len(parts)
           h == CHOOSE g : Adds(msg, parts, n, g)
<1>1. n \in Nat
  BY LenProperties
<1>2. Adds(msg, parts, n, h)
  <2>1. \E g : Adds(msg, parts, n, g)
    BY <1>1, AddsExist, Zenon
  <2>2. QED
    BY <2>1, Zenon
<1>3. WithParts(msg, parts) = h[n]
  BY DEF WithParts, Adds
<1> HIDE DEF h
<1>4. h[0] = msg
  <2>1. 0 \in 0 .. n
    BY <1>1
  <2>2. QED
    BY <1>2, <2>1, Zenon DEF Adds
<1>5. ASSUME NEW i \in 1 .. n PROVE h[i] = WithPart(h[i - 1], parts[i])
  <2>1. i \in 0 .. n /\ i # 0
    BY <1>1
  <2>2. QED
    BY <1>2, <2>1, Zenon DEF Adds
<1> DEFINE Right(i) == /\ h[i] \in WellFormed /\ h[i].id = id
                       /\ h[i].parts = [j \in 1 .. i |-> CopyPart(parts[j])]
           T == {i \in Nat : i <= n /\ ~ Right(i)}
<1>6. Right(0)
  <2>1. [j \in 1 .. 0 |-> CopyPart(parts[j])] = <<>>
    OBVIOUS
  <2>2. msg \in WellFormed /\ msg.id = id /\ msg.parts = <<>>
    BY NewMsgIs DEF NewMsg
  <2>3. QED
    BY <1>4, <2>1, <2>2, Zenon
<1>7. ASSUME NEW i \in 1 .. n, Right(i - 1) PROVE Right(i)
  <2> DEFINE w == h[i - 1]
             q == CopyPart(parts[i])
             s == [j \in 1 .. (i - 1) |-> CopyPart(parts[j])]
  <2>1. parts[i] \in Parts /\ w \in WellFormed /\ w.id = id /\ w.parts = s
    BY <1>7, ElementOfSeq
  <2>2. /\ h[i] \in WellFormed /\ h[i].id = id
        /\ h[i].parts = Append(s, q)
    <3>1. h[i] = WithPart(w, parts[i])
      BY <1>5
    <3>2. /\ WithPart(w, parts[i]) \in WellFormed
          /\ WithPart(w, parts[i]).id = w.id
          /\ WithPart(w, parts[i]).parts = Append(w.parts, q)
      BY <2>1, WithPartIs
    <3>3. QED
      BY <2>1, <3>1, <3>2, Zenon
  <2>3. i - 1 \in Nat /\ i \in Nat
    BY <1>1
  <2>4. ASSUME NEW j \in 1 .. n PROVE CopyPart(parts[j]) \in Copies
    BY CopyIs, ElementOfSeq
  <2>5. s \in Seq(Copies) /\ Len(s) = i - 1 /\ q \in Copies
    <3>1. \A j \in 1 .. i - 1 : CopyPart(parts[j]) \in Copies
      BY <1>1, <2>4
    <3>2. q \in Copies
      BY <2>4
    <3>3. QED
      BY <2>3, <3>1, <3>2
  <2> DEFINE t == [j \in 1 .. i |-> CopyPart(parts[j])]
  <2>6. t \in Seq(Copies) /\ Len(t) = i
    <3>1. \A j \in 1 .. i : CopyPart(parts[j]) \in Copies
      BY <1>1, <2>4
    <3>2. QED
      BY <2>3, <3>1
  <2>7. /\ Append(s, q) \in Seq(Copies) /\ Len(Append(s, q)) = i
        /\ \A j \in 1 .. i - 1 : Append(s, q)[j] = s[j]
        /\ Append(s, q)[i] = q
    <3> HIDE DEF s, q
    <3>1. /\ Append(s, q) \in Seq(Copies) /\ Len(Append(s, q)) = Len(s) + 1
          /\ \A j \in 1 .. Len(s) : Append(s, q)[j] = s[j]
          /\ Append(s, q)[Len(s) + 1] = q
      BY <2>5, AppendProperties
    <3>2. Len(s) + 1 = i
      BY <2>3, <2>5
    <3>3. QED
      BY <2>5, <3>1, <3>2, Zenon
  <2>8. \A j \in 1 .. i : Append(s, q)[j] = t[j]
    <3>1. \A j \in 1 .. i : j \in 1 .. i - 1 \/ j = i
      BY <2>3
    <3>2. \A j \in 1 .. i - 1 : s[j] = CopyPart(parts[j])
      BY Zenon
    <3>3. QED
      BY <2>7, <3>1, <3>2, Zenon
  <2>9. Append(s, q) = t
    <3> HIDE DEF s, q, t
    <3>1. PICK u : u = Append(s, q)
      OBVIOUS
    <3>2. u \in Seq(Copies) /\ Len(u) = Len(t) /\ \A j \in 1 .. Len(u) : u[j] = t[j]
      BY <2>6, <2>7, <2>8, <3>1, Zenon
    <3>3. u = t
      BY <2>6, <3>2, SeqEqual, Zenon
    <3>4. QED
      BY <3>1, <3>3
  <2>10. QED
    BY <2>2, <2>9, Zenon
<1>8. T = {}
  <2> HIDE DEF Right
  <2>1. SUFFICES ASSUME T # {} PROVE FALSE
    OBVIOUS
  <2>2. PICK m \in T : \A k \in T : m <= k
    BY <2>1, LeastOne
  <2>3. m # 0 /\ m \in Nat /\ m <= n
    BY <1>6, <2>2
  <2>4. m \in 1 .. n /\ m - 1 \in Nat /\ m - 1 <= n
    BY <1>1, <2>3
  <2>5. Right(m - 1)
    BY <2>2, <2>3, <2>4
  <2>6. Right(m)
    BY <1>7, <2>4, <2>5, Zenon
  <2>7. QED
    BY <2>2, <2>6
<1>9. Right(n)
  <2> HIDE DEF Right
  <2>1. QED
    BY <1>1, <1>8
<1>10. QED
  BY <1>3, <1>9, Zenon

\* A well-formed message, all of whose parts are set, is copied exactly.
LEMMA CopyExact ==
  ASSUME NEW m \in WellFormed, AllSet(m)
  PROVE  WithParts(NewMsg(m.id), m.parts) = m
<1> DEFINE w == WithParts(NewMsg(m.id), m.parts)
           n == Len(m.parts)
<1>1. /\ m = [id |-> m.id, length |-> m.length, parts |-> m.parts]
      /\ m.id \in Byte \X Byte /\ m.length \in Nat
  BY DEF WellFormed
<1>2. m.parts \in Seq(Copies) /\ m.parts \in Seq(Parts)
  BY AllSetParts
<1>3. w \in WellFormed /\ w.id = m.id /\ w.parts = [i \in 1 .. n |-> CopyPart(m.parts[i])]
  BY <1>1, <1>2, WithPartsIs
<1>4. w = [id |-> w.id, length |-> w.length, parts |-> w.parts] /\ w.length \in Nat
  BY <1>3 DEF WellFormed
<1>5. \A i \in 1 .. n : CopyPart(m.parts[i]) = m.parts[i]
  BY <1>2, CopyIs, ElementOfSeq DEF Copies
<1>6. m.parts = [i \in 1 .. n |-> m.parts[i]]
  BY <1>2
<1>7. w.parts = m.parts
  BY <1>3, <1>5, <1>6
<1>8. AllSet(w)
  BY <1>7 DEF AllSet
<1>9. \A junk \in Byte : w.length - HeaderSize = m.length - HeaderSize
  BY <1>3, <1>7, <1>8 DEF WellFormed
<1>10. 0 \in Byte
  BY DEF Byte
<1>11. w.length = m.length
  BY <1>1, <1>4, <1>9, <1>10, TypeNumbers
<1>12. QED
  BY <1>1, <1>3, <1>4, <1>7, <1>11

-----------------------------------------------------------------------------
(* Reading and writing parts *)

\* A piece of a sequence.
LEMMA Piece ==
  ASSUME NEW S, NEW s \in Seq(S), NEW i \in Nat, NEW j \in Nat, i <= j, j <= Len(s)
  PROVE  /\ SubSeq(s, i + 1, j) \in Seq(S) /\ Len(SubSeq(s, i + 1, j)) = j - i
         /\ \A n \in 1 .. j - i : SubSeq(s, i + 1, j)[n] = s[i + n]
<1>1. Len(s) \in Nat
  BY LenProperties
<1>2. \A n \in i + 1 .. j : s[n] \in S
  BY <1>1, ElementOfSeq
<1>3. /\ SubSeq(s, i + 1, j) \in Seq(S)
      /\ Len(SubSeq(s, i + 1, j)) = IF i + 1 <= j THEN j - (i + 1) + 1 ELSE 0
      /\ \A n \in 1 .. j - (i + 1) + 1 : SubSeq(s, i + 1, j)[n] = s[(i + 1) + n - 1]
  BY <1>2, SubSeqProperties
<1>4. j - (i + 1) + 1 = j - i /\ \A n \in Nat : (i + 1) + n - 1 = i + n
  OBVIOUS
<1>5. QED
  BY <1>3, <1>4

\* Two sequences of which one follows the other.
LEMMA Longer ==
  ASSUME NEW S, NEW a \in Seq(S), NEW b \in Seq(S)
  PROVE  a \o b \in Seq(S) /\ Len(a \o b) = Len(a) + Len(b)
BY ConcatProperties

\* Two pieces of a sequence, the second of which begins where the first ends,
LEMMA Adjacent ==
  ASSUME NEW S, NEW s \in Seq(S), NEW i \in Nat, NEW j \in Nat, NEW k \in Nat,
         i <= j, j <= k, k <= Len(s)
  PROVE  SubSeq(s, i + 1, k) = SubSeq(s, i + 1, j) \o SubSeq(s, j + 1, k)
<1>1. Len(s) \in Nat
  BY LenProperties
<1>2. i + 1 \in 1 .. Len(s) + 1 /\ j \in (i + 1) - 1 .. Len(s) /\ k \in j .. Len(s)
  BY <1>1
<1>3. QED
  BY <1>2, ConcatAdjacentSubSeq

\* The bytes a stand in the buffer s, after the first i.
At(s, i, a) ==
  /\ s \in Seq(Byte) /\ i \in Nat /\ a \in Seq(Byte) /\ i + Len(a) <= Len(s)
  /\ SubSeq(s, i + 1, i + Len(a)) = a

\* Bytes that follow each other stand in a buffer one after the other.
LEMMA AtBoth ==
  ASSUME NEW s, NEW i, NEW a \in Seq(Byte), NEW b \in Seq(Byte), At(s, i, a \o b)
  PROVE  At(s, i, a) /\ At(s, i + Len(a), b)
<1>1. /\ Len(a) \in Nat /\ Len(b) \in Nat /\ Len(a \o b) = Len(a) + Len(b)
      /\ s \in Seq(Byte) /\ i \in Nat /\ Len(s) \in Nat
  BY LenProperties, Longer DEF At
<1>2. PICK j \in Nat, k \in Nat : j = i + Len(a) /\ k = i + Len(a \o b)
  BY <1>1
<1> DEFINE t == SubSeq(s, i + 1, k)
           u == SubSeq(s, i + 1, j)
           v == SubSeq(s, j + 1, k)
<1>3. t = a \o b /\ k = j + Len(b) /\ i <= j /\ j <= k /\ j <= Len(s) /\ k <= Len(s)
  BY <1>1, <1>2 DEF At
<1>4. /\ t \in Seq(Byte) /\ \A n \in 1 .. k - i : t[n] = s[i + n]
  BY <1>1, <1>3, Piece
<1>5. \A n \in 1 .. Len(a) + Len(b) : t[n] = IF n <= Len(a) THEN a[n] ELSE b[n - Len(a)]
  <2>1. \A n \in 1 .. Len(a) + Len(b) :
          (a \o b)[n] = IF n <= Len(a) THEN a[n] ELSE b[n - Len(a)]
    BY ConcatProperties
  <2>2. QED
    BY <1>3, <2>1, Zenon
<1> HIDE DEF t
<1>6. /\ u \in Seq(Byte) /\ Len(u) = j - i /\ \A n \in 1 .. j - i : u[n] = s[i + n]
  BY <1>1, <1>3, Piece
<1>7. /\ v \in Seq(Byte) /\ Len(v) = k - j /\ \A n \in 1 .. k - j : v[n] = s[j + n]
  BY <1>1, <1>3, Piece
<1> HIDE DEF u, v
<1>8. j - i = Len(a) /\ k - j = Len(b) /\ k - i = Len(a) + Len(b)
  BY <1>1, <1>2, <1>3
<1>9. ASSUME NEW n \in 1 .. Len(a) PROVE u[n] = a[n]
  <2>1. n \in 1 .. Len(a) + Len(b) /\ n <= Len(a)
    BY <1>1
  <2>2. u[n] = s[i + n] /\ t[n] = s[i + n] /\ t[n] = a[n]
    BY <1>4, <1>5, <1>6, <1>8, <2>1, Zenon
  <2>3. QED
    BY <2>2
<1>10. ASSUME NEW n \in 1 .. Len(b) PROVE v[n] = b[n]
  <2>1. /\ Len(a) + n \in 1 .. Len(a) + Len(b)
        /\ ~ (Len(a) + n <= Len(a)) /\ (Len(a) + n) - Len(a) = n
        /\ i + (Len(a) + n) = j + n
    BY <1>1, <1>2
  <2>2. v[n] = s[j + n] /\ t[Len(a) + n] = s[j + n]
    BY <1>4, <1>7, <1>8, <2>1, Zenon
  <2>3. t[Len(a) + n] = b[n]
    BY <1>5, <2>1, Zenon
  <2>4. QED
    BY <2>2, <2>3
<1>11. u = a
  BY <1>6, <1>8, <1>9, SeqEqual, Zenon
<1>12. v = b
  BY <1>7, <1>8, <1>10, SeqEqual, Zenon
<1>13. At(s, i, a)
  BY <1>1, <1>2, <1>3, <1>11, Zenon DEF At, u
<1>14. At(s, j, b)
  BY <1>1, <1>3, <1>12, Zenon DEF At, v
<1>15. QED
  BY <1>2, <1>13, <1>14, Zenon

\* One element of a sequence.
LEMMA OneElement ==
  ASSUME NEW S, NEW s \in Seq(S), NEW i \in Nat, i < Len(s)
  PROVE  SubSeq(s, i + 1, i + 1) = <<s[i + 1]>> /\ s[i + 1] \in S
<1>1. Len(s) \in Nat /\ i + 1 \in 1 .. Len(s)
  BY LenProperties
<1>2. s[i + 1] \in S
  BY <1>1, ElementOfSeq
<1>3. /\ SubSeq(s, i + 1, i + 1) \in Seq(S) /\ Len(SubSeq(s, i + 1, i + 1)) = 1
      /\ SubSeq(s, i + 1, i + 1)[1] = s[i + 1]
  BY <1>1, <1>2
<1>4. <<s[i + 1]>> \in Seq(S) /\ Len(<<s[i + 1]>>) = 1 /\ <<s[i + 1]>>[1] = s[i + 1]
  BY <1>2
<1> DEFINE t == SubSeq(s, i + 1, i + 1)
           u == <<s[i + 1]>>
<1>5. \A n \in 1 .. Len(t) : t[n] = u[n]
  BY <1>3, <1>4
<1> HIDE DEF t, u
<1>6. t \in Seq(S) /\ u \in Seq(S) /\ Len(t) = Len(u)
  BY <1>3, <1>4, Zenon DEF t, u
<1>7. t = u
  BY <1>5, <1>6, SeqEqual, Zenon
<1>8. QED
  BY <1>2, <1>7 DEF t, u

\* The three outcomes of see_msg_part_from_buffer.
LEMMA ReadPartCases ==
  ASSUME NEW bytes, NEW pos, NEW size
  PROVE  LET type   == bytes[pos + 1]
             length == HostNumber(SubSeq(bytes, pos + 2, pos + 5))
             number == type \in Narrow \cup Wide /\ size >= 1 + Width(type)
             string == /\ type = STRING_T /\ size >= StringHeader
                       /\ length \in StringHeader..size
         IN  /\ number => ReadPart(bytes, pos, size) =
                  [valid |-> TRUE, size |-> 1 + Width(type),
                   part |-> WrittenPart([type |-> type, value |->
                       SwapBytes(SubSeq(bytes, pos + 2, pos + 1 + Width(type)))])]
             /\ string => ReadPart(bytes, pos, size) =
                  [valid |-> TRUE, size |-> length,
                   part |-> WrittenPart([type |-> STRING_T, value |->
                       SubSeq(bytes, pos + 1 + StringHeader, pos + length)])]
             /\ ~number /\ ~string => ReadPart(bytes, pos, size) = Invalid
<1> DEFINE type == bytes[pos + 1]
           length == HostNumber(SubSeq(bytes, pos + 2, pos + 5))
           number == type \in Narrow \cup Wide /\ size >= 1 + Width(type)
           string == /\ type = STRING_T /\ size >= StringHeader
                     /\ length \in StringHeader..size
           a == [valid |-> TRUE, size |-> 1 + Width(type),
                   part |-> WrittenPart([type |-> type, value |->
                       SwapBytes(SubSeq(bytes, pos + 2, pos + 1 + Width(type)))])]
           b == [valid |-> TRUE, size |-> length,
                   part |-> WrittenPart([type |-> STRING_T, value |->
                       SubSeq(bytes, pos + 1 + StringHeader, pos + length)])]
<1>1. ReadPart(bytes, pos, size) = CASE number -> a [] string -> b [] OTHER -> Invalid
  BY DEF ReadPart
<1>2. ~ (number /\ string)
  BY TypeNumbers
<1> HIDE DEF number, string, a, b
<1>3. /\ number => ReadPart(bytes, pos, size) = a
      /\ string => ReadPart(bytes, pos, size) = b
      /\ ~number /\ ~string => ReadPart(bytes, pos, size) = Invalid
  BY <1>1, <1>2
<1>4. QED
  BY <1>3 DEF number, string, a, b

\* A string as long as its length says is written as its type, length and bytes.
LEMMA StringBytesAre ==
  ASSUME NEW p \in Strings, Len(p.value) = p.length - StringHeader, NEW junk
  PROVE  PartBytes(p, junk) = (<<STRING_T>> \o NetworkBytes(p.length)) \o p.value
<1>1. p.length \in Nat /\ p.value \in Seq(Byte) /\ p.type = STRING_T
  BY DEF Strings
<1> DEFINE rest == [i \in 1 .. (p.length - StringHeader) |->
                      IF i <= Len(p.value) THEN p.value[i] ELSE junk]
<1>2. rest = [i \in 1 .. Len(p.value) |-> p.value[i]]
  BY <1>1
<1>3. rest = p.value
  BY <1>1, <1>2
<1>4. PartBytes(p, junk) = (<<STRING_T>> \o NetworkBytes(p.length)) \o rest
  BY <1>1, Zenon DEF PartBytes
<1>5. QED
  BY <1>3, <1>4, Zenon

\* What from_buffer reads as a part is what that part is written as.
LEMMA ReadPartWrites ==
  ASSUME NEW bytes \in Seq(Byte), NEW pos \in Nat, NEW size \in Nat, size >= 1,
         pos + size <= Len(bytes), ReadPart(bytes, pos, size).valid
  PROVE  LET r == ReadPart(bytes, pos, size)
         IN  /\ r.size \in 1 .. size /\ r.part \in SetParts /\ r.part.length = r.size
             /\ r.part.type = STRING_T =>
                  Len(r.part.value) = r.part.length - StringHeader
             /\ \A junk \in Byte :
                  PartBytes(r.part, junk) = SubSeq(bytes, pos + 1, pos + r.size)
<1> DEFINE r == ReadPart(bytes, pos, size)
           type == bytes[pos + 1]
           length == HostNumber(SubSeq(bytes, pos + 2, pos + 5))
           number == type \in Narrow \cup Wide /\ size >= 1 + Width(type)
           string == /\ type = STRING_T /\ size >= StringHeader
                     /\ length \in StringHeader..size
<1>0. Len(bytes) \in Nat /\ pos < Len(bytes)
  BY LenProperties
<1>1. SubSeq(bytes, pos + 1, pos + 1) = <<type>> /\ type \in Byte
  BY <1>0, OneElement
<1>2. CASE number
  <2> DEFINE w == Width(type)
             v == SubSeq(bytes, pos + 2, pos + 1 + w)
  <2>1. r = [valid |-> TRUE, size |-> 1 + w,
             part |-> WrittenPart([type |-> type, value |-> SwapBytes(v)])]
    BY <1>2, ReadPartCases
  <2>2. w \in {4, 8} /\ type # STRING_T /\ 1 + w <= size
    BY <1>2, TypeNumbers
  <2>3. v \in Seq(Byte) /\ Len(v) = w
    <3>1. /\ pos + 1 \in Nat /\ pos + 1 + w \in Nat /\ pos + 1 <= pos + 1 + w
          /\ pos + 1 + w <= Len(bytes) /\ (pos + 1) + 1 = pos + 2
          /\ (pos + 1 + w) - (pos + 1) = w
      BY <1>0, <2>2
    <3> HIDE DEF w
    <3>2. QED
      BY <3>1, Piece
  <2>4. SwapBytes(v) \in Seq(Byte) /\ Len(SwapBytes(v)) = w /\ SwapBytes(SwapBytes(v)) = v
    BY <2>3, SwappedTwice
  <2> HIDE DEF w, v
  <2> DEFINE p == [type |-> type, value |-> SwapBytes(v), length |-> 1 + w]
  <2>5. WrittenPart([type |-> type, value |-> SwapBytes(v)]) = p
    <3>1. Len(SwapBytes(v)) + 1 = 1 + w
      BY <2>2, <2>4
    <3>2. QED
      BY <2>2, <3>1 DEF WrittenPart
  <2>6. p \in Numbers
    <3>1. type \in Narrow \cup Wide /\ Width(type) = w
      BY <1>2 DEF w
    <3>2. QED
      BY <2>2, <2>4, <3>1 DEF Numbers
  <2>7. r.valid /\ r.size = 1 + w /\ r.part = p
    BY <2>1, <2>5
  <2>8. ASSUME NEW junk \in Byte
        PROVE  PartBytes(p, junk) = SubSeq(bytes, pos + 1, pos + (1 + w))
    <3>1. PartBytes(p, junk) = <<type>> \o v
      <4>1. p.type = type /\ p.value = SwapBytes(v)
        OBVIOUS
      <4>2. PartBytes(p, junk) = <<p.type>> \o SwapBytes(p.value)
        BY <2>2, <4>1, Zenon DEF PartBytes
      <4>3. QED
        BY <2>4, <4>1, <4>2, Zenon
    <3>2. SubSeq(bytes, pos + 1, pos + (1 + w)) = <<type>> \o v
      <4>1. <<type>> \in Seq(Byte) /\ Len(<<type>>) = 1
        BY <1>1
      <4> DEFINE a == <<type>>
      <4>2. /\ pos + 1 \in Nat /\ pos + (1 + w) \in Nat
            /\ pos <= pos + 1 /\ pos + 1 <= pos + (1 + w)
            /\ pos + (1 + w) <= Len(bytes)
        BY <1>0, <2>2, <2>3, <4>1
      <4>3. SubSeq(bytes, pos + 1, pos + 1) = a
        BY <1>1
      <4>4. SubSeq(bytes, (pos + 1) + 1, pos + (1 + w)) = v
        <5>1. (pos + 1) + 1 = pos + 2 /\ pos + (1 + w) = pos + 1 + w
          BY <2>2
        <5>2. QED
          BY <5>1, Zenon DEF v
      <4>5. a \in Seq(Byte)
        BY <4>1
      <4> HIDE DEF a
      <4>6. SubSeq(bytes, pos + 1, pos + (1 + w)) = a \o v
        BY <4>2, <4>3, <4>4, Adjacent, ZenonT(30)
      <4>7. QED
        BY <4>6 DEF a
    <3>3. QED
      BY <3>1, <3>2, Zenon
  <2>9. p.type = type /\ p.length = 1 + w
    OBVIOUS
  <2>10. 1 + w \in 1 .. size
    BY <2>2
  <2>11. p \in SetParts
    BY <2>6 DEF SetParts
  <2> HIDE DEF r, p
  <2>12. /\ r.size \in 1 .. size /\ r.part \in SetParts /\ r.part.length = r.size
         /\ r.part.type = STRING_T =>
              Len(r.part.value) = r.part.length - StringHeader
         /\ \A junk \in Byte :
              PartBytes(r.part, junk) = SubSeq(bytes, pos + 1, pos + r.size)
    BY <2>2, <2>7, <2>8, <2>9, <2>10, <2>11, Zenon
  <2>13. QED
    BY <2>12, Zenon DEF r
<1>3. CASE string
  <2> DEFINE n == SubSeq(bytes, pos + 2, pos + 5)
             v == SubSeq(bytes, pos + 1 + StringHeader, pos + length)
  <2>1. r = [valid |-> TRUE, size |-> length,
             part |-> WrittenPart([type |-> STRING_T, value |-> v])]
    BY <1>3, ReadPartCases
  <2>2. type = 5 /\ length \in 5 .. size /\ size >= 5
    BY <1>3, TypeNumbers
  <2>3. n \in Seq(Byte) /\ Len(n) = 4
    <3>1. /\ pos + 1 \in Nat /\ pos + 5 \in Nat /\ pos + 1 <= pos + 5
          /\ pos + 5 <= Len(bytes) /\ (pos + 1) + 1 = pos + 2
          /\ (pos + 5) - (pos + 1) = 4
      BY <1>0, <2>2
    <3>2. /\ SubSeq(bytes, (pos + 1) + 1, pos + 5) \in Seq(Byte)
          /\ Len(SubSeq(bytes, (pos + 1) + 1, pos + 5)) = (pos + 5) - (pos + 1)
      BY <3>1, Piece
    <3>3. QED
      BY <3>1, <3>2, Zenon
  <2>4. NetworkBytes(length) = n /\ length \in Nat
    <3>1. length = HostNumber(n)
      OBVIOUS
    <3> HIDE DEF n, length
    <3>2. QED
      BY <2>3, <3>1, NumberWrittenBack, Zenon
  <2> HIDE DEF length
  <2>5. v \in Seq(Byte) /\ Len(v) = length - 5
    <3>1. /\ pos + 5 \in Nat /\ pos + length \in Nat /\ pos + 5 <= pos + length
          /\ pos + length <= Len(bytes) /\ (pos + 5) + 1 = pos + 1 + StringHeader
          /\ (pos + length) - (pos + 5) = length - 5
      BY <1>0, <2>2, TypeNumbers
    <3>2. QED
      BY <3>1, Piece
  <2> HIDE DEF n, v
  <2> DEFINE p == [type |-> STRING_T, value |-> v, length |-> length]
  <2>6. WrittenPart([type |-> STRING_T, value |-> v]) = p
    <3>1. Len(v) + StringHeader = length
      BY <2>2, <2>5, TypeNumbers
    <3>2. QED
      BY <3>1 DEF WrittenPart
  <2>7. p \in Strings /\ Len(p.value) = p.length - StringHeader
    BY <2>2, <2>4, <2>5, TypeNumbers DEF Strings
  <2>8. r.size = length /\ r.part = p
    BY <2>1, <2>6
  <2>9. ASSUME NEW junk \in Byte
        PROVE  PartBytes(p, junk) = SubSeq(bytes, pos + 1, pos + length)
    <3> DEFINE a == <<STRING_T>>
               b == a \o n
    <3>1. PartBytes(p, junk) = b \o v
      <4>1. PartBytes(p, junk) = (<<STRING_T>> \o NetworkBytes(p.length)) \o p.value
        BY <2>7, StringBytesAre
      <4>2. p.value = v /\ p.length = length
        OBVIOUS
      <4>3. QED
        BY <2>4, <4>1, <4>2, Zenon
    <3>2. a \in Seq(Byte) /\ Len(a) = 1 /\ SubSeq(bytes, pos + 1, pos + 1) = a
      <4>1. STRING_T = 5 /\ 5 \in Byte /\ a = <<5>>
        BY TypeNumbers DEF Byte
      <4>2. QED
        BY <1>1, <2>2, <4>1
    <3> HIDE DEF a
    <3>3. b \in Seq(Byte) /\ Len(b) = 5
      <4>1. a \in Seq(Byte) /\ n \in Seq(Byte)
        BY <2>3, <3>2, Zenon
      <4>2. b \in Seq(Byte) /\ Len(b) = Len(a) + Len(n)
        BY <4>1, Longer, Zenon
      <4>3. Len(a) = 1 /\ Len(n) = 4
        BY <2>3, <3>2, Zenon
      <4>4. QED
        BY <4>2, <4>3
    <3>4. SubSeq(bytes, pos + 1, pos + 5) = b
      <4>1. /\ pos + 1 \in Nat /\ pos + 5 \in Nat /\ pos + 5 <= Len(bytes)
            /\ pos <= pos + 1 /\ pos + 1 <= pos + 5
            /\ (pos + 1) + 1 = pos + 2
        BY <1>0, <2>2, <2>3, <3>2
      <4>2. SubSeq(bytes, (pos + 1) + 1, pos + 5) = n
        BY <4>1, Zenon DEF n
      <4>3. SubSeq(bytes, pos + 1, pos + 5)
              = SubSeq(bytes, pos + 1, pos + 1) \o SubSeq(bytes, (pos + 1) + 1, pos + 5)
        BY <4>1, Adjacent
      <4>4. QED
        BY <3>2, <4>2, <4>3, Zenon
    <3> HIDE DEF b
    <3>5. SubSeq(bytes, pos + 1, pos + length) = b \o v
      <4>1. /\ pos + 5 \in Nat /\ pos + length \in Nat /\ pos + length <= Len(bytes)
            /\ pos <= pos + 5 /\ pos + 5 <= pos + length
            /\ (pos + 5) + 1 = pos + 1 + StringHeader
        BY <1>0, <2>2, <2>5, <3>3, TypeNumbers
      <4>2. SubSeq(bytes, (pos + 5) + 1, pos + length) = v
        BY <4>1, Zenon DEF v
      <4>3. QED
        BY <3>4, <4>1, <4>2, Adjacent, ZenonT(30)
    <3>6. QED
      BY <3>1, <3>5, Zenon
  <2>10. p.length = length /\ length \in 1 .. size /\ p \in SetParts
    BY <2>2, <2>7 DEF SetParts
  <2> HIDE DEF r, p
  <2>11. /\ r.size \in 1 .. size /\ r.part \in SetParts /\ r.part.length = r.size
         /\ r.part.type = STRING_T =>
              Len(r.part.value) = r.part.length - StringHeader
         /\ \A junk \in Byte :
              PartBytes(r.part, junk) = SubSeq(bytes, pos + 1, pos + r.size)
    BY <2>7, <2>8, <2>9, <2>10, Zenon
  <2>12. QED
    BY <2>11, Zenon DEF r
<1>4. CASE ~number /\ ~string
  <2>1. r = Invalid
    BY <1>4, ReadPartCases
  <2>2. QED
    BY <2>1 DEF Invalid
<1>5. QED
  BY <1>2, <1>3, <1>4

\* A part is read back from the bytes it is written as.
LEMMA PartReadBack ==
  ASSUME NEW bytes \in Seq(Byte), NEW pos \in Nat, NEW size \in Nat,
         NEW p \in SetParts, NEW junk \in Byte,
         p.type = STRING_T => Len(p.value) = p.length - StringHeader,
         Fits32(p.length), p.length <= size, pos + size <= Len(bytes),
         At(bytes, pos, PartBytes(p, junk))
  PROVE  ReadPart(bytes, pos, size) = [valid |-> TRUE, size |-> p.length, part |-> p]
<1> DEFINE type == bytes[pos + 1]
           length == HostNumber(SubSeq(bytes, pos + 2, pos + 5))
           number == type \in Narrow \cup Wide /\ size >= 1 + Width(type)
           string == /\ type = STRING_T /\ size >= StringHeader
                     /\ length \in StringHeader..size
<1>0. /\ Len(bytes) \in Nat /\ p.length \in Nat /\ p.value \in Seq(Byte)
      /\ p = [type |-> p.type, value |-> p.value, length |-> p.length]
  BY LenProperties, PartIs DEF SetParts, Parts
<1>1. p.length >= 1
  BY <1>0, TypeNumbers DEF SetParts, Numbers, Strings
<1>2. /\ pos + p.length \in Nat /\ pos + p.length <= Len(bytes)
      /\ pos <= pos + p.length /\ pos < Len(bytes)
  BY <1>0, <1>1
<1>3. SubSeq(bytes, pos + 1, pos + 1) = <<type>> /\ type \in Byte
  BY <1>2, OneElement
<1>4. CASE p \in Numbers
  <2> DEFINE a == <<p.type>>
             b == SwapBytes(p.value)
             w == Width(p.type)
  <2>1. /\ p.type \in Narrow \cup Wide /\ Len(p.value) = w /\ p.length = 1 + w
        /\ p.type \in Byte /\ p.type # STRING_T /\ w \in {4, 8}
    BY <1>4, TypeNumbers DEF Numbers
  <2>2. PartBytes(p, junk) = a \o b
    BY <2>1, Zenon DEF PartBytes
  <2>3. b \in Seq(Byte) /\ Len(b) = Len(p.value) /\ SwapBytes(b) = p.value
    BY <1>0, SwappedTwice
  <2>4. a \in Seq(Byte) /\ Len(a) = 1 /\ a[1] = p.type
    BY <2>1
  <2> HIDE DEF a, b
  <2>5. At(bytes, pos, a \o b)
    BY <2>2
  <2>6. At(bytes, pos, a) /\ At(bytes, pos + Len(a), b)
    BY <2>3, <2>4, <2>5, AtBoth, Zenon
  <2>7. SubSeq(bytes, pos + 1, pos + 1) = a /\ SubSeq(bytes, pos + 2, pos + 1 + w) = b
    <3>1. /\ pos + Len(a) = pos + 1 /\ pos + Len(a) + 1 = pos + 2
          /\ pos + Len(a) + Len(b) = pos + 1 + w
      BY <2>1, <2>3, <2>4
    <3>2. QED
      BY <2>6, <3>1, Zenon DEF At
  <2>8. type = p.type
    <3>1. <<type>>[1] = type
      OBVIOUS
    <3>2. QED
      BY <1>3, <2>4, <2>7, <3>1, Zenon
  <2>9. number
    <3>1. size >= 1 + w
      BY <1>0, <2>1
    <3>2. QED
      BY <2>1, <2>8, <3>1, Zenon
  <2>10. ReadPart(bytes, pos, size) = [valid |-> TRUE, size |-> 1 + Width(type),
            part |-> WrittenPart([type |-> type, value |->
                       SwapBytes(SubSeq(bytes, pos + 2, pos + 1 + Width(type)))])]
    BY <2>9, ReadPartCases
  <2>11. ReadPart(bytes, pos, size) = [valid |-> TRUE, size |-> 1 + w,
            part |-> WrittenPart([type |-> p.type, value |-> p.value])]
    BY <2>3, <2>7, <2>8, <2>10, Zenon
  <2>12. WrittenPart([type |-> p.type, value |-> p.value]) = p
    <3>1. Len(p.value) + 1 = p.length
      BY <2>1
    <3>2. WrittenPart([type |-> p.type, value |-> p.value])
            = [type |-> p.type, value |-> p.value, length |-> Len(p.value) + 1]
      BY <2>1 DEF WrittenPart
    <3>3. QED
      BY <1>0, <3>1, <3>2, Zenon
  <2>13. QED
    BY <2>1, <2>11, <2>12, Zenon
<1>5. CASE p \in Strings
  <2> DEFINE t == <<STRING_T>>
             n == NetworkBytes(p.length)
             a == t \o n
             v == p.value
  <2>1. p.type = STRING_T /\ Len(v) = p.length - 5 /\ p.length >= 5 /\ STRING_T = 5
    BY <1>5, TypeNumbers DEF Strings
  <2>2. PartBytes(p, junk) = a \o v
    BY <1>5, <2>1, StringBytesAre, TypeNumbers
  <2>3. n \in Seq(Byte) /\ Len(n) = 4 /\ HostNumber(n) = p.length
    BY <1>0, NetworkBytesAre, NumberReadBack
  <2>4. t \in Seq(Byte) /\ Len(t) = 1 /\ t[1] = 5
    BY <2>1 DEF Byte
  <2> HIDE DEF t, n
  <2>5. a \in Seq(Byte) /\ Len(a) = 5
    <3>1. t \in Seq(Byte) /\ n \in Seq(Byte)
      BY <2>3, <2>4, Zenon
    <3>2. a \in Seq(Byte) /\ Len(a) = Len(t) + Len(n)
      BY <3>1, Longer, Zenon
    <3>3. Len(t) = 1 /\ Len(n) = 4
      BY <2>3, <2>4, Zenon
    <3>4. QED
      BY <3>2, <3>3
  <2>6. At(bytes, pos, a) /\ At(bytes, pos + Len(a), v)
    <3> HIDE DEF a
    <3>1. At(bytes, pos, a \o v)
      BY <2>2
    <3>2. QED
      BY <1>0, <2>5, <3>1, AtBoth, Zenon
  <2>7. SubSeq(bytes, pos + 6, pos + p.length) = v
    <3> HIDE DEF a
    <3>1. pos + Len(a) + 1 = pos + 6 /\ pos + Len(a) + Len(v) = pos + p.length
      BY <1>0, <2>1, <2>5
    <3>2. QED
      BY <2>6, <3>1, Zenon DEF At
  <2>8. SubSeq(bytes, pos + 1, pos + 1) = t /\ SubSeq(bytes, pos + 2, pos + 5) = n
    <3>1. At(bytes, pos, t) /\ At(bytes, pos + Len(t), n)
      BY <2>3, <2>4, <2>6, AtBoth, Zenon
    <3>2. /\ pos + Len(t) = pos + 1 /\ pos + Len(t) + 1 = pos + 2
          /\ pos + Len(t) + Len(n) = pos + 5
      BY <2>3, <2>4
    <3>3. QED
      BY <3>1, <3>2, Zenon DEF At
  <2>9. type = STRING_T
    <3>1. <<type>>[1] = type
      OBVIOUS
    <3>2. QED
      BY <1>3, <2>1, <2>4, <2>8, <3>1, Zenon
  <2>10. length = p.length
    BY <2>3, <2>8, Zenon
  <2>11. string
    <3>1. size >= 5 /\ p.length \in 5 .. size /\ StringHeader = 5
      BY <1>0, <2>1, TypeNumbers
    <3>2. QED
      BY <2>9, <2>10, <3>1
  <2>12. ReadPart(bytes, pos, size) = [valid |-> TRUE, size |-> length,
            part |-> WrittenPart([type |-> STRING_T, value |->
                       SubSeq(bytes, pos + 1 + StringHeader, pos + length)])]
    BY <2>11, ReadPartCases
  <2>13. pos + 1 + StringHeader = pos + 6
    BY TypeNumbers
  <2>14. ReadPart(bytes, pos, size) = [valid |-> TRUE, size |-> p.length,
            part |-> WrittenPart([type |-> STRING_T, value |-> v])]
    BY <2>7, <2>10, <2>12, <2>13, Zenon
  <2>15. WrittenPart([type |-> STRING_T, value |-> v]) = p
    <3>1. Len(v) + StringHeader = p.length
      BY <1>0, <2>1, TypeNumbers
    <3>2. WrittenPart([type |-> STRING_T, value |-> v])
            = [type |-> STRING_T, value |-> v, length |-> Len(v) + StringHeader]
      BY DEF WrittenPart
    <3>3. QED
      BY <1>0, <2>1, <3>1, <3>2, Zenon
  <2>16. QED
    BY <2>14, <2>15, Zenon
<1>6. QED
  BY <1>4, <1>5 DEF SetParts

-----------------------------------------------------------------------------
(* Reading and writing all parts *)

\* h[pos] is what is read from pos on.
Reads(bytes, length, low, h) ==
  h = [pos \in low .. Len(bytes) |->
         IF pos >= length THEN [valid |-> TRUE, parts |-> <<>>]
         ELSE LET first == ReadPart(bytes, pos, length - pos)
                  rest  == h[pos + first.size]
              IN  IF first.valid /\ rest.valid
                  THEN [valid |-> TRUE, parts |-> <<first.part>> \o rest.parts]
                  ELSE Invalid]

\* The loop of from_buffer ends, so that PartsFrom is what its definition says.
LEMMA ReadsExist ==
  ASSUME NEW bytes \in Seq(Byte), NEW length \in Nat, length <= Len(bytes),
         NEW low \in Nat, low <= Len(bytes)
  PROVE  \E h : Reads(bytes, length, low, h)
<1> DEFINE L == Len(bytes)
           T == {k \in Nat : k <= L /\ ~ \E h : Reads(bytes, length, L - k, h)}
<1>0. L \in Nat
  BY LenProperties
<1>1. T = {}
  <2>1. SUFFICES ASSUME T # {} PROVE FALSE
    OBVIOUS
  <2>2. PICK m \in T : \A k \in T : m <= k
    BY <2>1, LeastOne
  <2>3. m # 0
    <3> DEFINE g == [pos \in L .. L |-> [valid |-> TRUE, parts |-> <<>>]]
    <3>1. \A pos \in L .. L : pos >= length
      BY <1>0
    <3>2. Reads(bytes, length, L, g)
      BY <3>1, Zenon DEF Reads
    <3>3. L - 0 = L
      BY <1>0
    <3>4. QED
      BY <3>2, <3>3, Zenon
  <2>4. PICK low1 \in Nat : low1 = L - m /\ low1 < L /\ low1 + 1 = L - (m - 1)
    <3> HIDE DEF L, T
    <3>1. m \in Nat /\ m <= L
      BY <2>2 DEF T
    <3>2. L - m \in Nat /\ L - m < L /\ (L - m) + 1 = L - (m - 1)
      BY <1>0, <2>3, <3>1
    <3>3. QED
      BY <3>2
  <2>5. m - 1 \in Nat /\ m - 1 <= L /\ ~ (m <= m - 1)
    BY <1>0, <2>2, <2>3
  <2>6. PICK h : Reads(bytes, length, low1 + 1, h)
    BY <2>2, <2>4, <2>5, Zenon
  <2> DEFINE Item(f, pos) ==
               IF pos >= length THEN [valid |-> TRUE, parts |-> <<>>]
               ELSE LET first == ReadPart(bytes, pos, length - pos)
                        rest  == f[pos + first.size]
                    IN  IF first.valid /\ rest.valid
                        THEN [valid |-> TRUE, parts |-> <<first.part>> \o rest.parts]
                        ELSE Invalid
             g == [pos \in low1 .. L |-> Item(h, pos)]
  <2>7. ASSUME NEW q \in low1 + 1 .. L PROVE g[q] = h[q]
    <3>1. q \in low1 .. L
      BY <2>4
    <3>2. h[q] = Item(h, q)
      BY <2>6, Zenon DEF Reads
    <3>3. g[q] = Item(h, q)
      BY <3>1, Zenon
    <3>4. QED
      BY <3>2, <3>3, Zenon
  <2> HIDE DEF g
  <2>8. ASSUME NEW pos \in low1 .. L PROVE Item(h, pos) = Item(g, pos)
    <3> DEFINE first == ReadPart(bytes, pos, length - pos)
    <3>1. CASE pos >= length
      BY <3>1, Zenon
    <3>2. CASE ~ (pos >= length) /\ ~ first.valid
      BY <3>2, Zenon
    <3>3. CASE ~ (pos >= length) /\ first.valid
      <4>1. /\ pos \in Nat /\ length - pos \in Nat /\ length - pos >= 1
            /\ pos + (length - pos) <= Len(bytes)
        BY <1>0, <3>3
      <4>2. first.size \in 1 .. (length - pos)
        <5>1. PICK n \in Nat : n = length - pos
          BY <4>1
        <5>2. n >= 1 /\ pos + n <= Len(bytes) /\ ReadPart(bytes, pos, n).valid
          BY <3>3, <4>1, <5>1
        <5>3. ReadPart(bytes, pos, n).size \in 1 .. n
          BY <4>1, <5>2, ReadPartWrites
        <5>4. QED
          BY <5>1, <5>3
      <4>3. pos + first.size \in low1 + 1 .. L
        <5> HIDE DEF first
        <5>1. QED
          BY <1>0, <4>1, <4>2
      <4>4. g[pos + first.size] = h[pos + first.size]
        BY <2>7, <4>3, Zenon
      <4>5. QED
        BY <4>4, Zenon
    <3>4. QED
      BY <3>1, <3>2, <3>3
  <2>9. Reads(bytes, length, low1, g)
    <3>1. g = [pos \in low1 .. L |-> Item(g, pos)]
      BY <2>8, Zenon DEF g
    <3>2. QED
      BY <3>1, Zenon DEF Reads
  <2>10. QED
    BY <2>2, <2>4, <2>9, Zenon
<1>2. QED
  <2>1. L - low \in Nat /\ L - low <= L /\ L - (L - low) = low
    BY <1>0
  <2>2. QED
    BY <1>1, <2>1, Zenon

\* What is read from a position on, and that of what is read after it.
LEMMA PartsFromIs ==
  ASSUME NEW bytes \in Seq(Byte), NEW length \in Nat, length <= Len(bytes),
         HeaderSize <= Len(bytes)
  PROVE  LET f == PartsFrom(bytes, length)
         IN  \A pos \in HeaderSize .. Len(bytes) :
               LET first == ReadPart(bytes, pos, length - pos)
                   rest  == f[pos + first.size]
               IN  /\ pos >= length => f[pos] = [valid |-> TRUE, parts |-> <<>>]
                   /\ pos < length =>
                        IF first.valid /\ rest.valid
                        THEN f[pos] = [valid |-> TRUE,
                                       parts |-> <<first.part>> \o rest.parts]
                        ELSE f[pos] = Invalid
<1> DEFINE f == PartsFrom(bytes, length)
           g == CHOOSE h : Reads(bytes, length, HeaderSize, h)
<1>1. Reads(bytes, length, HeaderSize, g)
  <2>1. \E h : Reads(bytes, length, HeaderSize, h)
    BY TypeNumbers, ReadsExist
  <2>2. QED
    BY <2>1, Zenon
<1>2. f = g
  BY DEF PartsFrom, Reads
<1> HIDE DEF g
<1>3. SUFFICES ASSUME NEW pos \in HeaderSize .. Len(bytes)
      PROVE  LET first == ReadPart(bytes, pos, length - pos)
                 rest  == g[pos + first.size]
             IN  /\ pos >= length => g[pos] = [valid |-> TRUE, parts |-> <<>>]
                 /\ pos < length =>
                      IF first.valid /\ rest.valid
                      THEN g[pos] = [valid |-> TRUE,
                                     parts |-> <<first.part>> \o rest.parts]
                      ELSE g[pos] = Invalid
  BY <1>2, Zenon
<1>4. pos < length => ~ (pos >= length)
  BY LenProperties, TypeNumbers
<1>5. QED
  BY <1>1, <1>4, Zenon DEF Reads

\* A string that does not end before its length says.
WholePart(p) == p.type = STRING_T => Len(p.value) = p.length - StringHeader

\* Less than a number of 32 bits is one of 32 bits.
LEMMA Fits32Less ==
  ASSUME NEW a \in Nat, NEW b \in Nat, a <= b, Fits32(b) PROVE Fits32(a)
<1>1. \A x \in Nat : x \div 256 \in Nat
  OBVIOUS
<1>2. \A x, y \in Nat : x <= y => x \div 256 <= y \div 256
  OBVIOUS
<1> DEFINE c == ((a \div 256) \div 256) \div 256
           d == ((b \div 256) \div 256) \div 256
<1>3. c \in Nat /\ d \in Nat /\ c <= d
  BY <1>1, <1>2
<1> HIDE DEF c, d
<1>4. d \in Byte => c \in Byte
  BY <1>3 DEF Byte
<1>5. QED
  BY <1>4 DEF Fits32, c, d

\* The loop of from_buffer reads back the parts that a buffer was written from.
LEMMA PartsReadBack ==
  ASSUME NEW bytes \in Seq(Byte), NEW length \in Nat, length <= Len(bytes),
         HeaderSize <= Len(bytes), Fits32(length), NEW junk \in Byte,
         NEW parts \in Seq(SetParts), \A i \in 1 .. Len(parts) : WholePart(parts[i]),
         NEW pos \in Nat, HeaderSize <= pos, At(bytes, pos, Payload(parts, junk)),
         pos + Len(Payload(parts, junk)) = length
  PROVE  PartsFrom(bytes, length)[pos] = [valid |-> TRUE, parts |-> parts]
<1> DEFINE f == PartsFrom(bytes, length)
           Written(q, s) == /\ \A i \in 1 .. Len(s) : WholePart(s[i])
                            /\ HeaderSize <= q /\ At(bytes, q, Payload(s, junk))
                            /\ q + Len(Payload(s, junk)) = length
           T == {n \in Nat : \E s \in Seq(SetParts), q \in Nat :
                   /\ Len(s) = n /\ Written(q, s)
                   /\ f[q] # [valid |-> TRUE, parts |-> s]}
<1>0. Len(bytes) \in Nat /\ HeaderSize \in Nat
  BY LenProperties, TypeNumbers
<1>1. \A q \in HeaderSize .. Len(bytes) :
        LET first == ReadPart(bytes, q, length - q)
            rest  == f[q + first.size]
        IN  /\ q >= length => f[q] = [valid |-> TRUE, parts |-> <<>>]
            /\ q < length =>
                 IF first.valid /\ rest.valid
                 THEN f[q] = [valid |-> TRUE, parts |-> <<first.part>> \o rest.parts]
                 ELSE f[q] = Invalid
  BY PartsFromIs
<1> HIDE DEF f
<1>2. T = {}
  <2> HIDE DEF Written
  <2>1. SUFFICES ASSUME T # {} PROVE FALSE
    OBVIOUS
  <2>2. PICK m \in T : \A k \in T : m <= k
    BY <2>1, LeastOne
  <2>3. PICK s \in Seq(SetParts), q \in Nat :
          Len(s) = m /\ Written(q, s) /\ f[q] # [valid |-> TRUE, parts |-> s]
    BY <2>2
  <2>4. CASE s = <<>>
    <3>1. Payload(s, junk) = <<>> /\ Len(<<>>) = 0
      BY <2>4, PayloadEmpty
    <3>2. q = length
      <4>1. q + Len(Payload(s, junk)) = length
        BY <2>3, Zenon DEF Written
      <4>2. q + 0 = length
        BY <3>1, <4>1, Zenon
      <4>3. QED
        BY <4>2
    <3>3. HeaderSize <= q
      BY <2>3, Zenon DEF Written
    <3>4. q \in HeaderSize .. Len(bytes) /\ q >= length
      BY <1>0, <3>2, <3>3
    <3>5. f[q] = [valid |-> TRUE, parts |-> <<>>]
      BY <1>1, <3>4, Zenon
    <3>6. QED
      BY <2>3, <2>4, <3>5
  <2>5. CASE s # <<>>
    <3> DEFINE p == s[1]
               r == Tail(s)
               a == PartBytes(p, junk)
               b == Payload(r, junk)
    <3>1. /\ p \in SetParts /\ r \in Seq(SetParts) /\ Len(r) = Len(s) - 1
          /\ Len(s) \in Nat /\ Len(s) >= 1
          /\ \A i \in 1 .. Len(r) : r[i] = s[i + 1]
      BY <2>5, HeadTailProperties, EmptySeq, ElementOfSeq
    <3>2. s = <<p>> \o r
      <4>1. Len(<<p>> \o r) = Len(s) /\ <<p>> \o r \in Seq(SetParts)
        BY <3>1, ConcatProperties
      <4>2. <<p>> \in Seq(SetParts) /\ Len(<<p>>) = 1 /\ <<p>>[1] = p
        BY <3>1
      <4>3. ASSUME NEW i \in 1 .. Len(s) PROVE (<<p>> \o r)[i] = s[i]
        <5>1. (<<p>> \o r)[i] = IF i <= 1 THEN <<p>>[i] ELSE r[i - 1]
          BY <3>1, <4>2, ConcatProperties
        <5>2. CASE i = 1
          BY <4>2, <5>1, <5>2
        <5>3. CASE i # 1
          <6>1. i - 1 \in 1 .. Len(r) /\ (i - 1) + 1 = i
            BY <3>1, <5>3
          <6>2. r[i - 1] = s[i]
            BY <3>1, <6>1
          <6>3. QED
            BY <5>1, <5>3, <6>2
        <5>4. QED
          BY <5>2, <5>3
      <4> DEFINE t == <<p>> \o r
      <4>4. t \in Seq(SetParts) /\ Len(s) = Len(t) /\ \A i \in 1 .. Len(s) : s[i] = t[i]
        BY <4>1, <4>3
      <4> HIDE DEF t
      <4>5. s = t
        BY <4>4, SeqEqual, Zenon
      <4>6. QED
        BY <4>5 DEF t
    <3> HIDE DEF r
    <3>3. Payload(s, junk) = a \o b
      <4>1. Payload(<<p>> \o r, junk) = a \o b
        BY <3>1, PayloadCons
      <4>2. QED
        BY <3>2, <4>1, Zenon
    <3>4. a \in Seq(Byte) /\ Len(a) = p.length /\ b \in Seq(Byte)
      BY <3>1, PartBytesAre, PayloadType
    <3> HIDE DEF a, b
    <3>5. At(bytes, q, a) /\ At(bytes, q + Len(a), b)
      <4>1. At(bytes, q, a \o b)
        BY <2>3, <3>3, Zenon DEF Written
      <4>2. QED
        BY <3>4, <4>1, AtBoth, Zenon
    <3>6. p.length \in Nat /\ p.length >= 1
      BY <3>1, TypeNumbers, SMTT(30) DEF SetParts, Numbers, Strings
    <3>7. q + (p.length + Len(b)) = length /\ Len(b) \in Nat
      <4>1. q + Len(a \o b) = length
        BY <2>3, <3>3, Zenon DEF Written
      <4>2. Len(a \o b) = Len(a) + Len(b)
        BY <3>4, Longer, Zenon
      <4>3. q + (p.length + Len(b)) = length
        BY <3>4, <4>1, <4>2, Zenon
      <4>4. QED
        BY <3>4, <4>3, LenProperties
    <3>8. /\ HeaderSize <= q /\ q < length /\ p.length <= length - q
          /\ length - q \in Nat /\ q + (length - q) <= Len(bytes)
          /\ p.length <= length
      <4>1. HeaderSize <= q
        BY <2>3, Zenon DEF Written
      <4>2. PICK n \in Nat : n = p.length
        BY <3>6, Zenon
      <4>3. n >= 1 /\ q + (n + Len(b)) = length /\ Len(b) \in Nat
        BY <3>6, <3>7, <4>2, Zenon
      <4>4. /\ q < length /\ n <= length - q /\ length - q \in Nat
            /\ q + (length - q) <= Len(bytes) /\ n <= length
        BY <1>0, <4>3
      <4>5. QED
        BY <4>1, <4>2, <4>4, Zenon
    <3>9. WholePart(p)
      BY <2>3, <3>1 DEF Written
    <3>10. ReadPart(bytes, q, length - q) = [valid |-> TRUE, size |-> p.length, part |-> p]
      <4>1. Fits32(p.length)
        BY <3>6, <3>8, Fits32Less
      <4>2. p.type = STRING_T => Len(p.value) = p.length - StringHeader
        BY <3>9 DEF WholePart
      <4>3. At(bytes, q, PartBytes(p, junk))
        BY <3>5 DEF a
      <4> HIDE DEF p
      <4>4. QED
        BY <3>1, <3>8, <4>1, <4>2, <4>3, PartReadBack
    <3>11. f[q + p.length] = [valid |-> TRUE, parts |-> r]
      <4>1. Written(q + p.length, r)
        <5>1. \A i \in 1 .. Len(r) : WholePart(r[i])
          <6>1. ASSUME NEW i \in 1 .. Len(r) PROVE WholePart(r[i])
            <7>1. i + 1 \in 1 .. Len(s) /\ r[i] = s[i + 1]
              BY <3>1
            <7>2. \A j \in 1 .. Len(s) : WholePart(s[j])
              BY <2>3, Zenon DEF Written
            <7>3. QED
              BY <7>1, <7>2, Zenon
          <6>2. QED
            BY <6>1
        <5>2. At(bytes, q + p.length, b)
          BY <3>4, <3>5, Zenon
        <5>3. HeaderSize <= q + p.length /\ (q + p.length) + Len(b) = length
          BY <1>0, <3>6, <3>7, <3>8, SMTT(30)
        <5>4. QED
          BY <5>1, <5>2, <5>3, Zenon DEF Written, b
      <4>2. Len(r) \notin T
        <5>1. ~ (m <= Len(r))
          BY <2>2, <2>3, <3>1
        <5>2. QED
          BY <2>2, <5>1, Zenon
      <4>3. q + p.length \in Nat /\ Len(r) \in Nat
        BY <3>1, <3>6
      <4>4. QED
        BY <3>1, <4>1, <4>2, <4>3, Zenon
    <3>12. q \in HeaderSize .. Len(bytes)
      BY <1>0, <3>8
    <3>13. f[q] = [valid |-> TRUE, parts |-> <<p>> \o r]
      <4> DEFINE first == ReadPart(bytes, q, length - q)
                 rest  == f[q + first.size]
      <4>1. first.valid /\ first.size = p.length /\ first.part = p
        BY <3>10
      <4>2. rest.valid /\ rest.parts = r
        BY <3>11, <4>1
      <4>3. IF first.valid /\ rest.valid
            THEN f[q] = [valid |-> TRUE, parts |-> <<first.part>> \o rest.parts]
            ELSE f[q] = Invalid
        BY <1>1, <3>8, <3>12, Zenon
      <4> HIDE DEF first, rest
      <4>4. QED
        BY <4>1, <4>2, <4>3, Zenon
    <3>14. QED
      BY <2>3, <3>2, <3>13, Zenon
  <2>6. QED
    BY <2>4, <2>5
<1>3. Len(parts) \in Nat /\ Written(pos, parts)
  BY LenProperties
<1>4. f[pos] = [valid |-> TRUE, parts |-> parts]
  <2> HIDE DEF Written
  <2>1. QED
    BY <1>2, <1>3, Zenon
<1>5. QED
  BY <1>4 DEF f

\* What the loop of from_buffer accepts is what the parts it read are written as.
LEMMA PartsWrittenBack ==
  ASSUME NEW bytes \in Seq(Byte), NEW length \in Nat, length <= Len(bytes),
         HeaderSize <= Len(bytes),
         NEW pos \in Nat, HeaderSize <= pos, pos <= length,
         PartsFrom(bytes, length)[pos].valid
  PROVE  LET parts == PartsFrom(bytes, length)[pos].parts
         IN  /\ parts \in Seq(SetParts)
             /\ \A i \in 1 .. Len(parts) : WholePart(parts[i])
             /\ \A junk \in Byte : Payload(parts, junk) = SubSeq(bytes, pos + 1, length)
<1> DEFINE f == PartsFrom(bytes, length)
           Right(q) == /\ f[q].parts \in Seq(SetParts)
                       /\ \A i \in 1 .. Len(f[q].parts) : WholePart(f[q].parts[i])
                       /\ \A junk \in Byte :
                            Payload(f[q].parts, junk) = SubSeq(bytes, q + 1, length)
           T == {n \in Nat : \E q \in Nat : /\ length = q + n /\ HeaderSize <= q
                                            /\ f[q].valid /\ ~ Right(q)}
<1>0. Len(bytes) \in Nat /\ HeaderSize \in Nat
  BY LenProperties, TypeNumbers
<1>1. \A q \in HeaderSize .. Len(bytes) :
        LET first == ReadPart(bytes, q, length - q)
            rest  == f[q + first.size]
        IN  /\ q >= length => f[q] = [valid |-> TRUE, parts |-> <<>>]
            /\ q < length =>
                 IF first.valid /\ rest.valid
                 THEN f[q] = [valid |-> TRUE, parts |-> <<first.part>> \o rest.parts]
                 ELSE f[q] = Invalid
  BY PartsFromIs
<1> HIDE DEF f
<1>2. T = {}
  <2> HIDE DEF Right
  <2>1. SUFFICES ASSUME T # {} PROVE FALSE
    OBVIOUS
  <2>2. PICK m \in T : \A k \in T : m <= k
    BY <2>1, LeastOne
  <2>3. PICK q \in Nat : length = q + m /\ HeaderSize <= q /\ f[q].valid /\ ~ Right(q)
    BY <2>2
  <2>4. m \in Nat /\ q \in HeaderSize .. Len(bytes)
    BY <1>0, <2>2, <2>3
  <2>5. CASE m = 0
    <3>1. q >= length /\ q + 1 > length
      BY <2>3, <2>4, <2>5
    <3>2. f[q] = [valid |-> TRUE, parts |-> <<>>]
      BY <1>1, <2>4, <3>1, Zenon
    <3>3. f[q].parts = <<>>
      BY <3>2
    <3>4. SubSeq(bytes, q + 1, length) = <<>>
      BY <3>1, SubSeqEmpty
    <3>5. <<>> \in Seq(SetParts) /\ Len(<<>>) = 0
      BY EmptySeq
    <3>6. \A i \in 1 .. Len(<<>>) : FALSE
      BY <3>5
    <3>7. Right(q)
      BY <3>3, <3>4, <3>5, <3>6, PayloadEmpty, Zenon DEF Right
    <3>8. QED
      BY <2>3, <3>7
  <2>6. CASE m # 0
    <3> DEFINE first == ReadPart(bytes, q, m)
               next  == q + first.size
               rest  == f[next]
               p     == first.part
               r     == rest.parts
    <3>1. q < length /\ length - q = m /\ m >= 1 /\ q + m <= Len(bytes)
      BY <1>0, <2>3, <2>4, <2>6
    <3>2. /\ first.valid /\ rest.valid
          /\ f[q] = [valid |-> TRUE, parts |-> <<p>> \o r]
      <4>1. IF first.valid /\ rest.valid
            THEN f[q] = [valid |-> TRUE, parts |-> <<p>> \o r]
            ELSE f[q] = Invalid
        BY <1>1, <2>4, <3>1, Zenon
      <4>2. Invalid.valid = FALSE
        BY DEF Invalid
      <4> HIDE DEF first, rest
      <4>3. QED
        BY <2>3, <4>1, <4>2, Zenon
    <3>3. /\ first.size \in 1 .. m /\ p \in SetParts /\ WholePart(p)
          /\ \A junk \in Byte :
               PartBytes(p, junk) = SubSeq(bytes, q + 1, next)
      BY <2>4, <3>1, <3>2, ReadPartWrites DEF WholePart
    <3> HIDE DEF first
    <3>4. /\ next \in Nat /\ HeaderSize <= next /\ q <= next /\ next <= length
          /\ m - first.size \in Nat /\ ~ (m <= m - first.size)
          /\ length = next + (m - first.size)
      <4>1. PICK n \in 1 .. m : n = first.size
        BY <3>3, Zenon
      <4>2. HeaderSize <= q /\ length = q + m
        BY <2>3, Zenon
      <4>3. /\ q + n \in Nat /\ HeaderSize <= q + n /\ q <= q + n /\ q + n <= length
            /\ m - n \in Nat /\ ~ (m <= m - n)
            /\ length = (q + n) + (m - n)
        BY <1>0, <2>4, <4>1, <4>2, SMTT(30)
      <4>4. QED
        BY <4>1, <4>3, Zenon
    <3> HIDE DEF next
    <3>5. Right(next)
      <4>1. m - first.size \notin T
        BY <2>2, <3>4
      <4>2. QED
        BY <3>2, <3>4, <4>1, Zenon
    <3>6. /\ r \in Seq(SetParts) /\ \A i \in 1 .. Len(r) : WholePart(r[i])
          /\ \A junk \in Byte : Payload(r, junk) = SubSeq(bytes, next + 1, length)
      BY <3>5, Zenon DEF Right
    <3> HIDE DEF rest, p, r
    <3>7. f[q].parts = <<p>> \o r
      BY <3>2
    <3>8. <<p>> \in Seq(SetParts) /\ Len(<<p>>) = 1 /\ <<p>>[1] = p
      BY <3>3
    <3> DEFINE s == <<p>> \o r
    <3>9. /\ s \in Seq(SetParts) /\ Len(s) = 1 + Len(r) /\ Len(r) \in Nat
          /\ \A i \in 1 .. 1 + Len(r) : s[i] = IF i <= 1 THEN <<p>>[i] ELSE r[i - 1]
      BY <3>6, <3>8, ConcatProperties, LenProperties
    <3> HIDE DEF s
    <3>10. ASSUME NEW i \in 1 .. Len(s) PROVE WholePart(s[i])
      <4>1. CASE i = 1
        BY <3>3, <3>8, <3>9, <4>1
      <4>2. CASE i # 1
        <5>1. i - 1 \in 1 .. Len(r) /\ ~ (i <= 1) /\ i \in 1 .. 1 + Len(r)
          BY <3>9, <4>2
        <5>2. s[i] = r[i - 1]
          BY <3>9, <5>1, Zenon
        <5>3. QED
          BY <3>6, <5>1, <5>2, Zenon
      <4>3. QED
        BY <4>1, <4>2
    <3>11. ASSUME NEW junk \in Byte
           PROVE  Payload(s, junk) = SubSeq(bytes, q + 1, length)
      <4>1. Payload(s, junk) = PartBytes(p, junk) \o Payload(r, junk)
        BY <3>3, <3>6, PayloadCons DEF s
      <4>2. next \in Nat /\ q <= next /\ next <= length
        BY <3>4, Zenon
      <4>3. SubSeq(bytes, q + 1, length)
              = SubSeq(bytes, q + 1, next) \o SubSeq(bytes, next + 1, length)
        BY <4>2, Adjacent
      <4>4. QED
        BY <3>3, <3>6, <4>1, <4>3, Zenon
    <3>12. Right(q)
      BY <3>7, <3>9, <3>10, <3>11, Zenon DEF Right, s
    <3>13. QED
      BY <2>3, <3>12
  <2>7. QED
    BY <2>5, <2>6
<1>3. length - pos \in Nat /\ length = pos + (length - pos)
  OBVIOUS
<1>4. f[pos].valid
  BY DEF f
<1>5. Right(pos)
  <2> HIDE DEF Right
  <2>1. QED
    BY <1>2, <1>3, <1>4, Zenon
<1>6. QED
  BY <1>5, Zenon DEF f

-----------------------------------------------------------------------------
(* Encoding and decoding *)

\* The message as bytes: its header, and what its parts are written as.
LEMMA EncodeIs ==
  ASSUME NEW m \in WellFormed, AllSet(m), NEW junk \in Byte
  PROVE  LET e == Encode(m, junk)
         IN  /\ e \in Seq(Byte) /\ Len(e) = m.length /\ HeaderSize <= Len(e)
             /\ At(e, 0, Start) /\ At(e, 4, SwapBytes(m.id))
             /\ At(e, 6, NetworkBytes(m.length))
             /\ At(e, 10, Payload(m.parts, junk))
<1> DEFINE e == Encode(m, junk)
           i == SwapBytes(m.id)
           n == NetworkBytes(m.length)
           p == Payload(m.parts, junk)
           a == Start \o i
           b == a \o n
<1>1. /\ m.id \in Byte \X Byte /\ m.length \in Nat /\ m.length >= 10
      /\ Len(p) = m.length - 10
  BY TypeNumbers DEF WellFormed
<1>2. p \in Seq(Byte)
  BY AllSetParts, PayloadType
<1>3. i \in Seq(Byte) /\ Len(i) = 2
  BY <1>1, PairIs, SwappedTwice
<1>4. n \in Seq(Byte) /\ Len(n) = 4
  BY <1>1, NetworkBytesAre
<1>5. e = b \o p
  BY Zenon DEF Encode, Payload
<1>6. Start \in Seq(Byte) /\ Len(Start) = 4
  BY TypeNumbers, Zenon
<1> HIDE DEF e, i, n, p
<1>7. a \in Seq(Byte) /\ Len(a) = 6
  <2>1. a \in Seq(Byte) /\ Len(a) = Len(Start) + Len(i)
    BY <1>3, <1>6, Longer, Zenon
  <2>2. QED
    BY <1>3, <1>6, <2>1
<1> HIDE DEF a
<1>8. b \in Seq(Byte) /\ Len(b) = 10
  <2>1. b \in Seq(Byte) /\ Len(b) = Len(a) + Len(n)
    BY <1>4, <1>7, Longer, Zenon
  <2>2. QED
    BY <1>4, <1>7, <2>1
<1> HIDE DEF b
<1>9. e \in Seq(Byte) /\ Len(e) = m.length
  <2>1. b \o p \in Seq(Byte) /\ Len(b \o p) = Len(b) + Len(p)
    BY <1>2, <1>8, Longer, Zenon
  <2>2. Len(b) + Len(p) = m.length
    BY <1>1, <1>8
  <2>3. QED
    BY <1>5, <2>1, <2>2, Zenon
<1>10. At(e, 0, e)
  <2>1. SubSeq(e, 1, Len(e)) = e
    BY <1>9, SubSeqFull
  <2>2. 0 \in Nat /\ 0 + Len(e) = Len(e) /\ 0 + 1 = 1 /\ 0 + Len(e) <= Len(e)
    BY <1>1, <1>9
  <2>3. QED
    BY <1>9, <2>1, <2>2, Zenon DEF At
<1>11. At(e, 0, b) /\ At(e, 10, p)
  <2>1. At(e, 0, b \o p)
    BY <1>5, <1>10, Zenon
  <2>2. At(e, 0, b) /\ At(e, 0 + Len(b), p)
    BY <1>2, <1>8, <2>1, AtBoth, Zenon
  <2>3. 0 + Len(b) = 10
    BY <1>8
  <2>4. QED
    BY <2>2, <2>3, Zenon
<1>12. At(e, 0, a) /\ At(e, 6, n)
  <2>1. At(e, 0, a \o n)
    BY <1>11, Zenon DEF b
  <2>2. At(e, 0, a) /\ At(e, 0 + Len(a), n)
    BY <1>4, <1>7, <2>1, AtBoth, Zenon
  <2>3. 0 + Len(a) = 6
    BY <1>7
  <2>4. QED
    BY <2>2, <2>3, Zenon
<1>13. At(e, 0, Start) /\ At(e, 4, i)
  <2>1. At(e, 0, Start \o i)
    BY <1>12, Zenon DEF a
  <2>2. At(e, 0, Start) /\ At(e, 0 + Len(Start), i)
    BY <1>3, <1>6, <2>1, AtBoth, Zenon
  <2>3. 0 + Len(Start) = 4
    BY <1>6
  <2>4. QED
    BY <2>2, <2>3, Zenon
<1>14. HeaderSize <= Len(e)
  BY <1>1, <1>9, TypeNumbers
<1>15. QED
  BY <1>9, <1>11, <1>12, <1>13, <1>14, Zenon DEF e, i, n, p

\* The header of a message is read back.
LEMMA HeaderReadBack ==
  ASSUME NEW m \in WellFormed, AllSet(m), Fits32(m.length), NEW junk \in Byte
  PROVE  LET e == Encode(m, junk)
         IN  /\ HeaderIsRead(e) /\ Declared(e) = m.length
             /\ SwapBytes(SubSeq(e, 5, 6)) = m.id
<1> DEFINE e == Encode(m, junk)
<1>1. /\ e \in Seq(Byte) /\ Len(e) = m.length /\ HeaderSize <= Len(e)
      /\ At(e, 0, Start) /\ At(e, 4, SwapBytes(m.id))
      /\ At(e, 6, NetworkBytes(m.length))
  BY EncodeIs, Zenon
<1>2. m.length \in Nat /\ m.id \in Seq(Byte) /\ Len(m.id) = 2
  BY PairIs DEF WellFormed
<1>3. NetworkBytes(m.length) \in Seq(Byte) /\ Len(NetworkBytes(m.length)) = 4
  BY <1>2, NetworkBytesAre
<1>4. /\ SwapBytes(m.id) \in Seq(Byte) /\ Len(SwapBytes(m.id)) = 2
      /\ SwapBytes(SwapBytes(m.id)) = m.id
  BY <1>2, SwappedTwice
<1> HIDE DEF e
<1>5. SubSeq(e, 7, 10) = NetworkBytes(m.length)
  <2>1. 6 + 1 = 7 /\ 6 + Len(NetworkBytes(m.length)) = 10
    BY <1>3
  <2>2. QED
    BY <1>1, <2>1, Zenon DEF At
<1>6. SubSeq(e, 5, 6) = SwapBytes(m.id)
  <2>1. 4 + 1 = 5 /\ 4 + Len(SwapBytes(m.id)) = 6
    BY <1>4
  <2>2. QED
    BY <1>1, <2>1, Zenon DEF At
<1>7. SubSeq(e, 1, Len(Start)) = Start
  <2>1. 0 + 1 = 1 /\ 0 + Len(Start) = Len(Start)
    BY TypeNumbers
  <2>2. QED
    BY <1>1, <2>1, Zenon DEF At
<1>8. Declared(e) = m.length
  BY <1>2, <1>5, NumberReadBack DEF Declared
<1>9. Len(e) >= HeaderSize /\ Declared(e) <= Len(e)
  BY <1>1, <1>2, <1>8, TypeNumbers
<1>10. HeaderIsRead(e)
  BY <1>7, <1>9, Zenon DEF HeaderIsRead
<1>11. QED
  BY <1>4, <1>6, <1>8, <1>10, Zenon DEF e

\* What get_buffer writes of a message whose strings are whole, from_buffer reads
\* back as the same message.
THEOREM DecodeEncode ==
  ASSUME NEW m \in WellFormed, AllSet(m), StringsWhole(m), Fits32(m.length),
         NEW junk \in Byte
  PROVE  Decode(Encode(m, junk)) = [valid |-> TRUE, msg |-> m]
<1> DEFINE e == Encode(m, junk)
           read == PartsFrom(e, Declared(e))[HeaderSize]
<1>1. /\ e \in Seq(Byte) /\ Len(e) = m.length /\ HeaderSize <= Len(e)
      /\ At(e, 10, Payload(m.parts, junk))
  BY EncodeIs, Zenon
<1>2. /\ HeaderIsRead(e) /\ Declared(e) = m.length
      /\ SwapBytes(SubSeq(e, 5, 6)) = m.id
  BY HeaderReadBack, Zenon
<1> HIDE DEF e
<1>3. /\ m.length \in Nat /\ m.parts \in Seq(SetParts)
      /\ Len(Payload(m.parts, junk)) = m.length - 10
  BY AllSetParts, TypeNumbers DEF WellFormed
<1>4. \A i \in 1 .. Len(m.parts) : WholePart(m.parts[i])
  <2>1. DOMAIN m.parts = 1 .. Len(m.parts)
    BY <1>3, LenProperties
  <2>2. QED
    BY <2>1, Zenon DEF StringsWhole, WholePart
<1>5. PartsFrom(e, m.length)[HeaderSize] = [valid |-> TRUE, parts |-> m.parts]
  <2>1. /\ m.length <= Len(e) /\ HeaderSize \in Nat /\ HeaderSize <= HeaderSize
        /\ HeaderSize + Len(Payload(m.parts, junk)) = m.length
    BY <1>1, <1>3, TypeNumbers
  <2>2. At(e, HeaderSize, Payload(m.parts, junk))
    BY <1>1, TypeNumbers
  <2>3. QED
    BY <1>1, <1>3, <1>4, <2>1, <2>2, PartsReadBack, SMTT(30)
<1>6. read.valid /\ read.parts = m.parts
  BY <1>2, <1>5
<1> HIDE DEF read
<1>7. Decode(e) = [valid |-> TRUE,
                   msg |-> WithParts(NewMsg(SwapBytes(SubSeq(e, 5, 6))), read.parts)]
  BY <1>2, <1>6, Zenon DEF Decode, read
<1>8. WithParts(NewMsg(m.id), m.parts) = m
  BY CopyExact
<1>9. QED
  BY <1>2, <1>6, <1>7, <1>8, Zenon DEF e

\* What from_buffer accepts is well-formed, and if the strings of the message do not
\* end early, it is written as the bytes that the buffer declared.
THEOREM DecodeAccepts ==
  ASSUME NEW bytes \in Seq(Byte), Decode(bytes).valid
  PROVE  LET d == Decode(bytes).msg
         IN  /\ d \in WellFormed /\ AllSet(d) /\ HeaderIsRead(bytes)
             /\ StringsWhole(d) /\ Declared(bytes) >= HeaderSize =>
                  \A junk \in Byte : Encode(d, junk) = SubSeq(bytes, 1, Declared(bytes))
<1> DEFINE length == Declared(bytes)
           read == PartsFrom(bytes, length)[HeaderSize]
           i == SwapBytes(SubSeq(bytes, 5, 6))
           d == WithParts(NewMsg(i), read.parts)
<1>1. HeaderIsRead(bytes) /\ read.valid /\ Decode(bytes) = [valid |-> TRUE, msg |-> d]
  <2>1. Decode(bytes) = IF HeaderIsRead(bytes) /\ read.valid
                        THEN [valid |-> TRUE, msg |-> d] ELSE Invalid
    BY Zenon DEF Decode
  <2>2. Invalid.valid = FALSE
    BY DEF Invalid
  <2> HIDE DEF read, d
  <2>3. QED
    BY <2>1, <2>2, Zenon
<1>2. Decode(bytes).msg = d
  BY <1>1
<1>3. /\ Len(bytes) \in Nat /\ HeaderSize <= Len(bytes) /\ length <= Len(bytes)
      /\ SubSeq(bytes, 1, 4) = Start
  BY <1>1, LenProperties, TypeNumbers DEF HeaderIsRead
<1> DEFINE n == SubSeq(bytes, 7, 10)
<1>4. n \in Seq(Byte) /\ Len(n) = 4
  <2>1. 6 \in Nat /\ 10 \in Nat /\ 6 <= 10 /\ 10 <= Len(bytes)
    BY <1>3, TypeNumbers
  <2>2. SubSeq(bytes, 6 + 1, 10) \in Seq(Byte) /\ Len(SubSeq(bytes, 6 + 1, 10)) = 10 - 6
    BY <2>1, Piece
  <2>3. 6 + 1 = 7 /\ 10 - 6 = 4
    OBVIOUS
  <2>4. QED
    BY <2>2, <2>3
<1>5. length \in Nat /\ NetworkBytes(length) = n
  <2>1. length = HostNumber(n)
    BY DEF Declared
  <2> HIDE DEF length, n
  <2>2. QED
    BY <1>4, <2>1, NumberWrittenBack
<1>6. i \in Byte \X Byte /\ SwapBytes(i) = SubSeq(bytes, 5, 6)
  <2> DEFINE s == SubSeq(bytes, 5, 6)
  <2>1. s \in Seq(Byte) /\ Len(s) = 2
    <3>1. 4 \in Nat /\ 6 \in Nat /\ 4 <= 6 /\ 6 <= Len(bytes)
      BY <1>3, TypeNumbers
    <3>2. SubSeq(bytes, 4 + 1, 6) \in Seq(Byte) /\ Len(SubSeq(bytes, 4 + 1, 6)) = 6 - 4
      BY <3>1, Piece
    <3>3. 4 + 1 = 5 /\ 6 - 4 = 2
      OBVIOUS
    <3>4. QED
      BY <3>2, <3>3
  <2> HIDE DEF s
  <2>2. SwapBytes(s) \in Seq(Byte) /\ Len(SwapBytes(s)) = 2 /\ SwapBytes(SwapBytes(s)) = s
    BY <2>1, SwappedTwice
  <2>3. SwapBytes(s) \in Byte \X Byte
    BY <2>2, PairIs
  <2>4. QED
    BY <2>2, <2>3 DEF s
<1> HIDE DEF length, n, i
<1>7. HeaderSize \in Nat /\ HeaderSize <= HeaderSize
  BY TypeNumbers
<1>8. CASE length < HeaderSize
  <2>1. HeaderSize \in HeaderSize .. Len(bytes) /\ HeaderSize >= length
    BY <1>3, <1>5, <1>7, <1>8
  <2>2. read = [valid |-> TRUE, parts |-> <<>>]
    BY <1>3, <1>5, <2>1, PartsFromIs
  <2>3. read.parts = <<>>
    BY <2>2
  <2>4. <<>> \in Seq(Parts) /\ Len(<<>>) = 0
    BY EmptySeq
  <2> HIDE DEF read
  <2>5. d \in WellFormed /\ d.parts = [j \in 1 .. 0 |-> CopyPart(<<>>[j])]
    <3>1. PICK none : none = <<>>
      OBVIOUS
    <3>2. none \in Seq(Parts) /\ Len(none) = 0 /\ read.parts = none
      BY <2>3, <2>4, <3>1, Zenon
    <3>3. /\ WithParts(NewMsg(i), none) \in WellFormed
          /\ WithParts(NewMsg(i), none).parts = [j \in 1 .. Len(none) |-> CopyPart(none[j])]
      BY <1>6, <3>2, WithPartsIs
    <3>4. QED
      BY <3>1, <3>2, <3>3, ZenonT(30)
  <2>6. d.parts = <<>>
    <3> HIDE DEF d
    <3>1. QED
      BY <2>5
  <2>7. AllSet(d)
    BY <2>6 DEF AllSet
  <2>8. ~ (length >= HeaderSize)
    BY <1>5, <1>7, <1>8
  <2> HIDE DEF d
  <2>9. QED
    BY <1>1, <1>2, <2>5, <2>7, <2>8 DEF length
<1>9. CASE ~ (length < HeaderSize)
  <2> DEFINE parts == read.parts
  <2>1. HeaderSize <= length
    BY <1>5, <1>7, <1>9
  <2>2. /\ parts \in Seq(SetParts)
        /\ \A j \in 1 .. Len(parts) : WholePart(parts[j])
        /\ \A junk \in Byte :
             Payload(parts, junk) = SubSeq(bytes, HeaderSize + 1, length)
    BY <1>1, <1>3, <1>5, <1>7, <2>1, PartsWrittenBack
  <2> HIDE DEF read
  <2>3. parts \in Seq(Parts)
    BY <2>2, SeqMonotonic DEF SetParts, Parts
  <2> HIDE DEF parts
  <2>4. /\ d \in WellFormed /\ d.id = i
        /\ d.parts = [j \in 1 .. Len(parts) |-> CopyPart(parts[j])]
    BY <1>6, <2>3, WithPartsIs DEF parts
  <2> HIDE DEF d
  <2>5. Len(parts) \in Nat /\ DOMAIN d.parts = 1 .. Len(parts)
    BY <2>3, <2>4, LenProperties
  <2>6. ASSUME NEW j \in 1 .. Len(parts)
        PROVE  /\ parts[j] \in SetParts /\ parts[j] \in Parts
               /\ d.parts[j] = CopyPart(parts[j])
               /\ d.parts[j].type = parts[j].type /\ d.parts[j].length = parts[j].length
    <3>1. parts[j] \in SetParts /\ parts[j] \in Parts
      BY <2>2, <2>3, ElementOfSeq
    <3>2. d.parts[j] = CopyPart(parts[j])
      BY <2>4
    <3>3. QED
      BY <3>1, <3>2, CopyIs
  <2>7. AllSet(d)
    <3>1. \A j \in 1 .. Len(parts) : IsSet(parts[j])
      BY <2>6, PartIs
    <3>2. QED
      BY <2>5, <2>6, <3>1 DEF AllSet, IsSet
  <2>8. ASSUME StringsWhole(d), NEW junk \in Byte
        PROVE  Encode(d, junk) = SubSeq(bytes, 1, length)
    <3>1. ASSUME NEW j \in 1 .. Len(parts) PROVE d.parts[j] = parts[j]
      <4>1. CASE parts[j].type # STRING_T
        BY <2>6, <4>1, CopyIs
      <4>2. CASE parts[j].type = STRING_T
        <5>1. Len(parts[j].value) = parts[j].length - StringHeader
          BY <2>2, <4>2 DEF WholePart
        <5>2. Len(d.parts[j].value) = d.parts[j].length - StringHeader
          BY <2>5, <2>6, <2>8, <4>2, Zenon DEF StringsWhole
        <5>3. Len(CopyPart(parts[j]).value) = Len(parts[j].value)
          BY <2>6, <5>1, <5>2, Zenon
        <5>4. QED
          BY <2>6, <4>2, <5>3, CopyIs, Zenon
      <4>3. QED
        BY <4>1, <4>2
    <3>2. d.parts = parts
      <4>1. parts = [j \in 1 .. Len(parts) |-> parts[j]]
        BY <2>2
      <4>2. d.parts = [j \in 1 .. Len(parts) |-> d.parts[j]]
        BY <2>4, <2>6
      <4>3. QED
        BY <3>1, <4>1, <4>2, Zenon
    <3> DEFINE t == SubSeq(bytes, HeaderSize + 1, length)
    <3>3. t \in Seq(Byte) /\ Len(t) = length - HeaderSize
      BY <1>3, <1>5, <1>7, <2>1, Piece
    <3>4. Payload(d.parts, junk) = t
      BY <2>2, <3>2
    <3>5. d.length \in Nat /\ Len(Payload(d.parts, junk)) = d.length - HeaderSize
      BY <2>4, <2>7 DEF WellFormed
    <3>6. d.length = length
      <4>1. d.length - HeaderSize = length - HeaderSize
        BY <3>3, <3>4, <3>5, Zenon
      <4>2. QED
        BY <1>5, <1>7, <3>5, <4>1
    <3> HIDE DEF t
    <3>7. Encode(d, junk)
            = Start \o SwapBytes(d.id) \o NetworkBytes(d.length) \o Payload(d.parts, junk)
      BY Zenon DEF Encode, Payload
    <3>8. Encode(d, junk) = Start \o SubSeq(bytes, 5, 6) \o n \o t
      BY <1>5, <1>6, <2>4, <3>4, <3>6, <3>7, Zenon
    <3>9. HeaderSize = 10 /\ 10 <= Len(bytes) /\ 10 <= length /\ length <= Len(bytes)
      BY <1>3, <2>1, TypeNumbers
    <3>10. SubSeq(bytes, 1, 6) = Start \o SubSeq(bytes, 5, 6)
      <4>1. 0 <= 4 /\ 4 <= 6 /\ 6 <= Len(bytes) /\ 0 + 1 = 1 /\ 4 + 1 = 5
            /\ 0 \in Nat /\ 4 \in Nat /\ 6 \in Nat
        BY <1>3, <3>9
      <4>2. SubSeq(bytes, 0 + 1, 6) = SubSeq(bytes, 0 + 1, 4) \o SubSeq(bytes, 4 + 1, 6)
        BY <4>1, Adjacent
      <4>3. QED
        BY <1>3, <4>1, <4>2, Zenon
    <3>11. SubSeq(bytes, 1, 10) = SubSeq(bytes, 1, 6) \o n
      <4>1. 0 <= 6 /\ 6 <= 10 /\ 10 <= Len(bytes) /\ 0 + 1 = 1 /\ 6 + 1 = 7
            /\ 0 \in Nat /\ 6 \in Nat /\ 10 \in Nat
        BY <1>3, <3>9
      <4>2. SubSeq(bytes, 0 + 1, 10) = SubSeq(bytes, 0 + 1, 6) \o SubSeq(bytes, 6 + 1, 10)
        BY <4>1, Adjacent
      <4>3. QED
        BY <4>1, <4>2, Zenon DEF n
    <3>12. SubSeq(bytes, 1, length) = SubSeq(bytes, 1, 10) \o t
      <4>1. 0 <= 10 /\ 10 <= length /\ length <= Len(bytes) /\ 0 + 1 = 1
            /\ 0 \in Nat /\ 10 \in Nat /\ length \in Nat
        BY <1>3, <1>5, <3>9
      <4>2. SubSeq(bytes, 0 + 1, length)
              = SubSeq(bytes, 0 + 1, 10) \o SubSeq(bytes, 10 + 1, length)
        BY <4>1, Adjacent
      <4>3. QED
        BY <3>9, <4>1, <4>2, Zenon DEF t
    <3>13. QED
      BY <3>8, <3>10, <3>11, <3>12, Zenon
  <2>9. QED
    BY <1>1, <1>2, <2>4, <2>7, <2>8, Zenon DEF length
<1>10. QED
  BY <1>8, <1>9
=============================================================================
