-------------------------- MODULE SerialLinkProofs --------------------------
(***************************************************************************)
(* Proofs about SerialLink, for any messages, any noise and any number of  *)
(* failures.  The inductive invariant IInv says, besides the types, that   *)
(* no bytes are held between two messages and, as long as the line is      *)
(* undisturbed, that the bytes underway are those of the messages underway *)
(* and that the reader, once it has a header, has that of the first one.   *)
(* That each message is read back from its bytes is in MsgFormatProofs.    *)
(***************************************************************************)
EXTENDS SerialLink, MsgFormatProofs

\* The bytes of messages, one after the other.
OnTheWay(u) == FlattenSeq([i \in DOMAIN u |-> Bytes(u[i])])

\* The reader of an undisturbed line.
Steady ==
  /\ received \in Seq(Messages) /\ Len(received) <= Len(sent)
  /\ EveryByteOnce
  /\ RejectsOnlyDisturbed
  /\ reader.pc = "body" => /\ Underway # <<>>
                           /\ reader.size = Len(Bytes(Underway[1]))

IInv ==
  /\ TypeOK
  /\ reader.pc = "idle" => reader.got = <<>>
  /\ intact => Steady

----------------------------------------------------------------------------
(* Sequences *)

\* The two parts in which a sequence is cut after its first n elements.
LEMMA Halves ==
  ASSUME NEW S, NEW s \in Seq(S), NEW n \in Nat, n <= Len(s)
  PROVE  /\ SubSeq(s, 1, n) \in Seq(S) /\ Len(SubSeq(s, 1, n)) = n
         /\ SubSeq(s, n + 1, Len(s)) \in Seq(S)
         /\ Len(SubSeq(s, n + 1, Len(s))) = Len(s) - n
         /\ SubSeq(s, 1, n) \o SubSeq(s, n + 1, Len(s)) = s
<1>1. /\ SubSeq(s, 1, n) \in Seq(S) /\ Len(SubSeq(s, 1, n)) = n
      /\ SubSeq(s, n + 1, Len(s)) \in Seq(S)
      /\ Len(SubSeq(s, n + 1, Len(s))) = Len(s) - n
  BY Piece
<1>2. SubSeq(s, 1, Len(s)) = s
  OBVIOUS
<1> DEFINE z == 0
<1>3. z \in Nat /\ z + 1 = 1 /\ z <= n /\ n <= Len(s) /\ Len(s) \in Nat /\ Len(s) <= Len(s)
  OBVIOUS
<1> HIDE DEF z
<1>4. SubSeq(s, z + 1, Len(s)) = SubSeq(s, z + 1, n) \o SubSeq(s, n + 1, Len(s))
  BY <1>3, Adjacent
<1>5. QED
  BY <1>1, <1>2, <1>3, <1>4

\* Bytes that follow each other may be grouped in either way.
LEMMA Assoc ==
  ASSUME NEW a \in Seq(Byte), NEW b \in Seq(Byte), NEW c \in Seq(Byte)
  PROVE  (a \o b) \o c = a \o (b \o c)
OBVIOUS

\* An element of the second of two sequences.
LEMMA SecondHalf ==
  ASSUME NEW S, NEW a \in Seq(S), NEW b \in Seq(S), NEW i \in 1 .. Len(b)
  PROVE  (a \o b)[Len(a) + i] = b[i]
OBVIOUS

\* Two ways to cut the same bytes in two, at the same place.
LEMMA SameCut ==
  ASSUME NEW S, NEW a \in Seq(S), NEW b \in Seq(S), NEW c \in Seq(S), NEW d \in Seq(S),
         a \o b = c \o d, Len(a) = Len(c)
  PROVE  a = c /\ b = d
<1>1. \A i \in 1 .. Len(a) : a[i] = (a \o b)[i] /\ c[i] = (c \o d)[i]
  OBVIOUS
<1>2. Len(b) = Len(d)
  <2>1. Len(a \o b) = Len(a) + Len(b) /\ Len(c \o d) = Len(c) + Len(d)
    BY SMTT(30)
  <2>2. QED
    BY <2>1
<1>3. ASSUME NEW i \in 1 .. Len(b)
      PROVE  b[i] = (a \o b)[Len(a) + i] /\ d[i] = (c \o d)[Len(c) + i]
  <2>1. i \in 1 .. Len(d)
    BY <1>2
  <2>2. (a \o b)[Len(a) + i] = b[i]
    BY SecondHalf
  <2>3. (c \o d)[Len(c) + i] = d[i]
    BY <2>1, SecondHalf
  <2>4. QED
    BY <2>2, <2>3
<1>4. a = c
  <2>1. \A i \in 1 .. Len(a) : a[i] = c[i]
    BY <1>1
  <2>2. QED
    BY <2>1, SeqEqual
<1>5. b = d
  <2>1. \A i \in 1 .. Len(b) : b[i] = d[i]
    BY <1>3
  <2>2. QED
    BY <1>2, <2>1, SeqEqual
<1>6. QED
  BY <1>4, <1>5

\* What is first of the same bytes, when less is taken of it.
LEMMA Shorter ==
  ASSUME NEW S, NEW a \in Seq(S), NEW b \in Seq(S), NEW c \in Seq(S), NEW d \in Seq(S),
         a \o b = c \o d, Len(a) <= Len(c)
  PROVE  a = SubSeq(c, 1, Len(a))
<1>1. \A i \in 1 .. Len(a) : a[i] = (a \o b)[i] /\ c[i] = (c \o d)[i]
  OBVIOUS
<1>2. SubSeq(c, 1, Len(a)) \in Seq(S) /\ Len(SubSeq(c, 1, Len(a))) = Len(a)
  BY Halves
<1>3. \A i \in 1 .. Len(a) : SubSeq(c, 1, Len(a))[i] = c[i]
  OBVIOUS
<1>4. QED
  BY <1>1, <1>2, <1>3

\* The messages underway after a message is sent, and after one is received.
LEMMA RestOf ==
  ASSUME NEW S, NEW s \in Seq(S), NEW n \in Nat, n <= Len(s)
  PROVE  LET u == SubSeq(s, n + 1, Len(s))
         IN  /\ u \in Seq(S)
             /\ \A m \in S : SubSeq(Append(s, m), n + 1, Len(Append(s, m))) = Append(u, m)
             /\ u # <<>> => /\ n < Len(s) /\ u[1] \in S
                            /\ SubSeq(s, (n + 1) + 1, Len(s)) = Tail(u)
                            /\ u = <<u[1]>> \o Tail(u)
<1> DEFINE u == SubSeq(s, n + 1, Len(s))
<1>1. u \in Seq(S) /\ Len(u) = Len(s) - n
  BY Halves
<1>2. \A i \in 1 .. Len(u) : u[i] = s[n + i]
  BY <1>1
<1>3. ASSUME NEW m \in S
      PROVE  SubSeq(Append(s, m), n + 1, Len(Append(s, m))) = Append(u, m)
  <2> DEFINE t == Append(s, m)
             v == SubSeq(t, n + 1, Len(t))
             w == Append(u, m)
  <2>1. /\ t \in Seq(S) /\ Len(t) = Len(s) + 1 /\ n <= Len(t)
        /\ t[Len(s) + 1] = m /\ \A i \in 1 .. Len(s) : t[i] = s[i]
    OBVIOUS
  <2>2. /\ w \in Seq(S) /\ Len(w) = Len(u) + 1
        /\ w[Len(u) + 1] = m /\ \A i \in 1 .. Len(u) : w[i] = u[i]
    <3> HIDE DEF u
    <3>1. QED
      BY <1>1
  <2> HIDE DEF t, w
  <2>3. v \in Seq(S) /\ Len(v) = Len(t) - n
    BY <2>1, Halves
  <2>4. \A i \in 1 .. Len(v) : v[i] = t[n + i]
    BY <2>1, <2>3
  <2> HIDE DEF u, v
  <2>5. ASSUME NEW i \in 1 .. Len(v) PROVE v[i] = w[i]
    <3>1. CASE i = Len(v)
      BY <3>1, <1>1, <2>1, <2>2, <2>3, <2>4
    <3>2. CASE i < Len(v)
      <4>1. i \in 1 .. Len(u) /\ n + i \in 1 .. Len(s)
        BY <3>2, <1>1, <2>1, <2>3
      <4>2. QED
        BY <4>1, <1>2, <2>1, <2>2, <2>4
    <3>3. QED
      BY <3>1, <3>2, <2>3, <2>1
  <2>6. Len(v) = Len(w)
    BY <1>1, <2>1, <2>2, <2>3
  <2>7. v = w
    BY <2>2, <2>3, <2>5, <2>6, SeqEqual
  <2>8. QED
    BY <2>7 DEF v, w, t, u
<1>4. ASSUME u # <<>>
      PROVE  /\ n < Len(s) /\ u[1] \in S
             /\ SubSeq(s, (n + 1) + 1, Len(s)) = Tail(u)
             /\ u = <<u[1]>> \o Tail(u)
  <2>1. n < Len(s) /\ Len(u) >= 1
    BY <1>1, <1>4
  <2>2. u[1] \in S
    BY <1>1, <2>1
  <2>3. SubSeq(s, (n + 1) + 1, Len(s)) = Tail(u)
    BY <2>1
  <2> HIDE DEF u
  <2>4. u = <<u[1]>> \o Tail(u)
    BY <1>1, <2>1
  <2>5. QED
    BY <2>1, <2>2, <2>3, <2>4
<1>5. QED
  BY <1>1, <1>3, <1>4

----------------------------------------------------------------------------
(* Messages and their bytes *)

\* A message is read back from its bytes.
LEMMA MessageIs ==
  ASSUME NEW m \in Messages
  PROVE  /\ Bytes(m) \in Seq(Byte) /\ Len(Bytes(m)) = m.length
         /\ Len(Bytes(m)) \in Nat /\ Len(Bytes(m)) >= 10
         /\ SubSeq(Bytes(m), 1, 4) = Start
         /\ Declared(Bytes(m)) = m.length
         /\ Decode(Bytes(m)) = [valid |-> TRUE, msg |-> m]
<1>1. /\ m.id \in Byte \X Byte /\ m.parts \in Seq(Numbers \cup Strings) /\ m = CopyMsg(m)
      /\ StringsWhole(m) /\ Fits32(m.length)
  BY SerialLinkAssumption
<1>2. m.parts \in Seq(Parts)
  BY <1>1 DEF Parts
<1>3. m \in WellFormed
  BY <1>1, <1>2, WithPartsIs, ZenonT(30) DEF CopyMsg
<1>4. AllSet(m)
  <2>1. ASSUME NEW i \in DOMAIN m.parts PROVE IsSet(m.parts[i])
    <3>1. m.parts[i] \in Numbers \cup Strings
      BY <1>1
    <3>2. QED
      BY <3>1, PartIs DEF SetParts, Parts
  <2>2. QED
    BY <2>1 DEF AllSet
<1>5. NoJunk \in Byte
  BY DEF NoJunk, Byte
<1>6. /\ Bytes(m) \in Seq(Byte) /\ Len(Bytes(m)) = m.length /\ HeaderSize <= Len(Bytes(m))
      /\ At(Bytes(m), 0, Start)
  BY <1>3, <1>4, <1>5, EncodeIs DEF Bytes
<1>7. Declared(Bytes(m)) = m.length
  BY <1>1, <1>3, <1>4, <1>5, HeaderReadBack DEF Bytes
<1>8. Decode(Bytes(m)) = [valid |-> TRUE, msg |-> m]
  BY <1>1, <1>3, <1>4, <1>5, DecodeEncode DEF Bytes
<1>9. SubSeq(Bytes(m), 1, 4) = Start
  BY <1>6, TypeNumbers DEF At
<1>10. QED
  BY <1>6, <1>7, <1>8, <1>9, TypeNumbers

\* The bytes of messages underway.
LEMMA OnTheWayIs ==
  /\ OnTheWay(<<>>) = <<>>
  /\ \A u \in Seq(Messages) :
        /\ OnTheWay(u) \in Seq(Byte)
        /\ \A m \in Messages : OnTheWay(Append(u, m)) = OnTheWay(u) \o Bytes(m)
        /\ \A m \in Messages : OnTheWay(<<m>> \o u) = Bytes(m) \o OnTheWay(u)
<1> DEFINE Of(u) == [i \in DOMAIN u |-> Bytes(u[i])]
<1>1. OnTheWay(<<>>) = <<>>
  <2>1. Of(<<>>) = <<>>
    OBVIOUS
  <2>2. FlattenSeq(<<>>) = <<>>
    <3>1. <<>> \in Seq(Byte)
      OBVIOUS
    <3>2. QED
      BY <3>1, FlattenFew
  <2>3. QED
    BY <2>1, <2>2 DEF OnTheWay
<1>2. ASSUME NEW u \in Seq(Messages)
      PROVE  /\ OnTheWay(u) \in Seq(Byte)
             /\ \A m \in Messages : OnTheWay(Append(u, m)) = OnTheWay(u) \o Bytes(m)
             /\ \A m \in Messages : OnTheWay(<<m>> \o u) = Bytes(m) \o OnTheWay(u)
  <2>1. DOMAIN u = 1 .. Len(u) /\ Len(u) \in Nat
    OBVIOUS
  <2>2. \A m \in Messages : Bytes(m) \in Seq(Byte)
    BY MessageIs
  <2>3. Of(u) \in Seq(Seq(Byte)) /\ Len(Of(u)) = Len(u)
    BY <2>1, <2>2
  <2>4. OnTheWay(u) \in Seq(Byte)
    BY <2>3, FlattenType DEF OnTheWay
  <2>5. ASSUME NEW m \in Messages
        PROVE  OnTheWay(Append(u, m)) = OnTheWay(u) \o Bytes(m)
    <3>1. Of(Append(u, m)) = Append(Of(u), Bytes(m))
      BY <2>1, <2>2, <2>3
    <3> HIDE DEF Of
    <3>2. FlattenSeq(Append(Of(u), Bytes(m))) = FlattenSeq(Of(u)) \o Bytes(m)
      BY <2>2, <2>3, FlattenAppend
    <3>3. QED
      BY <3>1, <3>2 DEF OnTheWay, Of
  <2>6. ASSUME NEW m \in Messages
        PROVE  OnTheWay(<<m>> \o u) = Bytes(m) \o OnTheWay(u)
    <3>1. Of(<<m>> \o u) = <<Bytes(m)>> \o Of(u)
      BY <2>1, <2>2, <2>3
    <3> HIDE DEF Of
    <3>2. FlattenSeq(<<Bytes(m)>> \o Of(u)) = Bytes(m) \o FlattenSeq(Of(u))
      BY <2>2, <2>3, FlattenCons
    <3>3. QED
      BY <3>1, <3>2 DEF OnTheWay, Of
  <2>7. QED
    BY <2>4, <2>5, <2>6
<1>3. QED
  BY <1>1, <1>2

\* The header of a message is its first bytes, and is recognised as such.
LEMMA HeaderIs ==
  ASSUME NEW m \in Messages
  PROVE  LET sync == SubSeq(Bytes(m), 1, 10)
         IN  ~ OutOfSync(sync) /\ Declared(sync) = Len(Bytes(m))
<1> DEFINE e    == Bytes(m)
           sync == SubSeq(e, 1, 10)
<1>1. /\ e \in Seq(Byte) /\ Len(e) = m.length /\ Len(e) \in Nat /\ Len(e) >= 10
      /\ SubSeq(e, 1, 4) = Start /\ Declared(e) = m.length
  BY MessageIs
<1> HIDE DEF e
<1>2. sync[1] = Start[1]
  <2>1. sync[1] = e[1] /\ SubSeq(e, 1, 4)[1] = e[1]
    BY <1>1
  <2>2. QED
    BY <1>1, <2>1
<1>3. 1 \in DOMAIN Start
  BY DEF Start
<1>4. ~ OutOfSync(sync)
  BY <1>2, <1>3, Zenon DEF OutOfSync
<1>5. SubSeq(sync, 7, 10) = SubSeq(e, 7, 10)
  BY <1>1
<1>6. Declared(sync) = Declared(e)
  BY <1>5 DEF Declared
<1>7. QED
  BY <1>1, <1>4, <1>6 DEF e

----------------------------------------------------------------------------
(* The steps of the writer, and those that disturb the line *)

\* What the invariant says of types.
LEMMA TypesHold ==
  ASSUME IInv
  PROVE  /\ sent \in Seq(Messages) /\ writing \in Seq(Byte) /\ line \in Seq(Byte)
         /\ reader = [pc |-> reader.pc, got |-> reader.got, size |-> reader.size]
         /\ reader.got \in Seq(Byte) /\ reader.size \in Nat
         /\ Len(reader.got) \in Nat /\ Len(line) \in Nat
<1>1. TypeOK
  BY DEF IInv
<1>2. sent \in Seq(Messages) /\ writing \in Seq(Byte) /\ line \in Seq(Byte)
  BY <1>1 DEF TypeOK
<1>3. reader \in [pc   : {"idle", "header", "sync", "body", "undefined", "killed"},
                  got  : Seq(Byte),
                  size : Nat]
  BY <1>1, Zenon DEF TypeOK
<1>4. QED
  BY <1>2, <1>3

\* The bytes underway are those of the messages underway.
LEMMA Bytewise ==
  ASSUME IInv, intact
  PROVE  (reader.got \o line) \o writing = OnTheWay(Underway)
BY DEF IInv, Steady, EveryByteOnce, OnTheWay

\* The messages underway, one of which is the first.
LEMMA UnderwayIs ==
  ASSUME IInv, intact
  PROVE  /\ Underway \in Seq(Messages)
         /\ \A m \in Messages :
              /\ sent' = Append(sent, m)
              /\ received' = received
              => Underway' = Append(Underway, m)
         /\ Underway # <<>> =>
              /\ Underway[1] \in Messages
              /\ Tail(Underway) \in Seq(Messages)
              /\ Len(received) < Len(sent)
              /\ OnTheWay(Underway) = Bytes(Underway[1]) \o OnTheWay(Tail(Underway))
              /\ received' = Append(received, Underway[1]) /\ sent' = sent
                   => Underway' = Tail(Underway)
<1> DEFINE n == Len(received)
<1>1. sent \in Seq(Messages) /\ n \in Nat /\ n <= Len(sent) /\ received \in Seq(Messages)
  BY DEF IInv, TypeOK, Steady
<1> HIDE DEF n
<1> DEFINE u == SubSeq(sent, n + 1, Len(sent))
<1>2. u = Underway
  BY DEF u, n, Underway
<1>3. /\ u \in Seq(Messages)
      /\ \A m \in Messages :
           SubSeq(Append(sent, m), n + 1, Len(Append(sent, m))) = Append(u, m)
      /\ u # <<>> => /\ n < Len(sent) /\ u[1] \in Messages
                     /\ SubSeq(sent, (n + 1) + 1, Len(sent)) = Tail(u)
                     /\ u = <<u[1]>> \o Tail(u)
  BY <1>1, RestOf
<1> HIDE DEF u
<1>4. ASSUME NEW m \in Messages, sent' = Append(sent, m), received' = received
      PROVE  Underway' = Append(u, m)
  <2>1. Underway' = SubSeq(Append(sent, m), n + 1, Len(Append(sent, m)))
    BY <1>4 DEF Underway, n
  <2>2. QED
    BY <2>1, <1>3
<1>5. ASSUME u # <<>>
      PROVE  /\ u[1] \in Messages /\ Tail(u) \in Seq(Messages) /\ n < Len(sent)
             /\ OnTheWay(u) = Bytes(u[1]) \o OnTheWay(Tail(u))
             /\ received' = Append(received, u[1]) /\ sent' = sent => Underway' = Tail(u)
  <2>1. Tail(u) \in Seq(Messages)
    BY <1>3, <1>5
  <2>2. OnTheWay(<<u[1]>> \o Tail(u)) = Bytes(u[1]) \o OnTheWay(Tail(u))
    BY <1>3, <1>5, <2>1, OnTheWayIs
  <2>3. ASSUME received' = Append(received, u[1]), sent' = sent
        PROVE  Underway' = Tail(u)
    <3>1. Len(Append(received, u[1])) = n + 1
      BY <1>1 DEF n
    <3>2. Underway' = SubSeq(sent, (n + 1) + 1, Len(sent))
      BY <2>3, <3>1 DEF Underway
    <3>3. QED
      BY <3>2, <1>3, <1>5
  <2>4. OnTheWay(u) = Bytes(u[1]) \o OnTheWay(Tail(u))
    BY <1>3, <1>5, <2>2
  <2>5. QED
    BY <1>3, <1>5, <2>1, <2>3, <2>4
<1>6. QED
  BY <1>2, <1>3, <1>4, <1>5 DEF n

\* An idle reader and nothing on the line.
LEMMA InitSound == Init => IInv
<1> SUFFICES ASSUME Init PROVE IInv
  OBVIOUS
<1>1. TypeOK
  BY SerialLinkAssumption, TypeNumbers DEF Init, TypeOK, Idle, Rets
<1>2. Underway = <<>>
  BY DEF Underway, Init
<1>3. reader.got \o line \o writing = <<>>
  BY DEF Init, Idle
<1>4. EveryByteOnce
  BY <1>2, <1>3, OnTheWayIs DEF EveryByteOnce, OnTheWay
<1>5. received \in Seq(Messages) /\ Len(received) <= Len(sent)
  BY DEF Init
<1>6. QED
  BY <1>1, <1>4, <1>5 DEF Init, IInv, Steady, RejectsOnlyDisturbed, Idle

\* A message that is sent puts its bytes behind those that are underway.
LEMMA WriteMsgSound == ASSUME IInv, NEW m \in Messages, WriteMsg(m) PROVE IInv'
<1>1. /\ writing = <<>> /\ sent' = Append(sent, m) /\ writing' = Bytes(m)
      /\ UNCHANGED <<line, reader, received, ret, intact, troubles>>
  BY DEF WriteMsg
<1>2. TypeOK'
  BY <1>1, MessageIs DEF IInv, TypeOK
<1>3. ASSUME intact PROVE Steady'
  <2>1. /\ reader.got \in Seq(Byte) /\ line \in Seq(Byte) /\ sent \in Seq(Messages)
    BY TypesHold
  <2>2. Underway' = Append(Underway, m) /\ Underway \in Seq(Messages)
    BY <1>1, <1>3, UnderwayIs
  <2>3. reader.got \o line = OnTheWay(Underway)
    <3>1. (reader.got \o line) \o <<>> = reader.got \o line
      BY <2>1
    <3>2. QED
      BY <1>1, <1>3, <3>1, Bytewise
  <2>4. (reader.got \o line) \o Bytes(m) = OnTheWay(Underway')
    BY <2>2, <2>3, OnTheWayIs
  <2>5. EveryByteOnce'
    BY <1>1, <2>4 DEF EveryByteOnce, OnTheWay
  <2>6. Len(sent') = Len(sent) + 1 /\ Len(sent) \in Nat
    BY <1>1, <2>1
  <2>7. reader.pc = "body" => Underway # <<>> /\ reader.size = Len(Bytes(Underway[1]))
    BY <1>3 DEF IInv, Steady
  <2>8. Underway # <<>> => Underway' # <<>> /\ Underway'[1] = Underway[1]
    <3> DEFINE u == Underway
    <3>1. u \in Seq(Messages) /\ Underway' = Append(u, m)
      BY <2>2
    <3> HIDE DEF u
    <3>2. u # <<>> => Append(u, m) # <<>> /\ Append(u, m)[1] = u[1]
      BY <3>1
    <3>3. QED
      BY <3>1, <3>2 DEF u
  <2>9. received' \in Seq(Messages) /\ Len(received') <= Len(sent')
    BY <1>1, <1>3, <2>6 DEF IInv, Steady
  <2>10. RejectsOnlyDisturbed'
    BY <1>1, <1>3 DEF IInv, Steady, RejectsOnlyDisturbed
  <2>11. QED
    BY <1>1, <2>5, <2>7, <2>8, <2>9, <2>10 DEF Steady
<1>4. QED
  BY <1>1, <1>2, <1>3 DEF IInv

\* A step of an undisturbed line that moves no message.
LEMMA StillSteady ==
  ASSUME IInv, intact, UNCHANGED <<sent, received>>,
         (reader'.got \o line') \o writing' = (reader.got \o line) \o writing,
         ret' # "MSG_INVALID", reader'.pc \notin {"sync", "undefined", "killed"},
         reader'.pc = "body" => /\ Underway # <<>>
                                /\ reader'.size = Len(Bytes(Underway[1]))
  PROVE  Steady'
<1>1. Underway' = Underway
  BY DEF Underway
<1>2. EveryByteOnce'
  BY <1>1, Bytewise DEF EveryByteOnce, OnTheWay
<1>3. QED
  BY <1>1, <1>2 DEF Steady, RejectsOnlyDisturbed, IInv

\* Bytes that are written go from the writer to the end of the line.
LEMMA WriteSomeSound == ASSUME IInv, WriteSome PROVE IInv'
<1>1. PICK n \in 1 .. Len(writing) :
         /\ line' = line \o SubSeq(writing, 1, n)
         /\ writing' = SubSeq(writing, n + 1, Len(writing))
         /\ UNCHANGED <<sent, reader, received, ret, intact, troubles>>
  BY DEF WriteSome
<1>2. /\ writing \in Seq(Byte) /\ line \in Seq(Byte) /\ reader.got \in Seq(Byte)
      /\ n \in Nat /\ n <= Len(writing)
  BY TypesHold
<1>3. /\ SubSeq(writing, 1, n) \in Seq(Byte)
      /\ SubSeq(writing, n + 1, Len(writing)) \in Seq(Byte)
      /\ SubSeq(writing, 1, n) \o SubSeq(writing, n + 1, Len(writing)) = writing
  BY <1>2, Halves
<1>4. TypeOK'
  BY <1>1, <1>2, <1>3 DEF IInv, TypeOK
<1>5. ASSUME intact PROVE Steady'
  <2> DEFINE a == SubSeq(writing, 1, n)
             b == SubSeq(writing, n + 1, Len(writing))
             g == reader.got
  <2>1. a \in Seq(Byte) /\ b \in Seq(Byte) /\ g \in Seq(Byte) /\ a \o b = writing
    BY <1>2, <1>3
  <2>2. line' = line \o a /\ writing' = b /\ reader'.got = g
    BY <1>1
  <2> HIDE DEF a, b, g
  <2>3. (g \o (line \o a)) \o b = (g \o line) \o (a \o b)
    <3>1. g \o line \in Seq(Byte)
      BY <1>2, <2>1
    <3>2. g \o (line \o a) = (g \o line) \o a
      <4>1. line \in Seq(Byte)
        BY <1>2
      <4>2. QED
        BY <4>1, <2>1, Assoc
    <3>3. ((g \o line) \o a) \o b = (g \o line) \o (a \o b)
      BY <2>1, <3>1, Assoc
    <3>4. QED
      BY <3>2, <3>3
  <2>4. (reader'.got \o line') \o writing' = (reader.got \o line) \o writing
    BY <2>1, <2>2, <2>3 DEF g
  <2>5. QED
    BY <1>1, <1>5, <2>4, StillSteady DEF IInv, Steady, RejectsOnlyDisturbed
<1>6. QED
  BY <1>1, <1>4, <1>5 DEF IInv

\* A step that disturbs the line and leaves the reader idle, or as it was.
LEMMA DisturbedSound ==
  ASSUME IInv, UNCHANGED <<sent, received>>, ~ intact',
         reader' = reader \/ reader' = Idle,
         writing' \in Seq(Byte), line' \in Seq(Byte), ret' \in Rets,
         troubles' \in 0 .. MaxTroubles
  PROVE  IInv'
<1>1. intact' \in BOOLEAN
  <2>1. intact' = FALSE
    OBVIOUS
  <2>2. QED
    BY <2>1
<1>2. TypeOK' /\ (reader'.pc = "idle" => reader'.got = <<>>)
  <2>1. CASE reader' = reader
    BY <1>1, <2>1 DEF IInv, TypeOK
  <2>2. CASE reader' = Idle
    BY <1>1, <2>2 DEF IInv, TypeOK, Idle
  <2>3. QED
    BY <2>1, <2>2
<1>3. QED
  BY <1>2 DEF IInv

\* After a write that failed the line is disturbed.
LEMMA WriteFailsSound == ASSUME IInv, WriteFails PROVE IInv'
<1>1. /\ troubles' \in 0 .. MaxTroubles /\ ~ intact' /\ writing' \in Seq(Byte)
      /\ UNCHANGED <<sent, line, reader, received, ret>>
  BY SerialLinkAssumption DEF WriteFails, IInv, TypeOK
<1>2. line' \in Seq(Byte) /\ ret' \in Rets
  BY <1>1 DEF IInv, TypeOK
<1>3. QED
  BY <1>1, <1>2, DisturbedSound

\* After noise the line is disturbed.
LEMMA LineNoiseSound == ASSUME IInv, NEW byte \in Noise, LineNoise(byte) PROVE IInv'
<1>1. /\ troubles' \in 0 .. MaxTroubles /\ ~ intact'
      /\ UNCHANGED <<sent, writing, reader, received, ret>>
  BY SerialLinkAssumption DEF LineNoise, IInv, TypeOK
<1>2. line' \in Seq(Byte)
  BY SerialLinkAssumption DEF LineNoise, IInv, TypeOK
<1>3. writing' \in Seq(Byte) /\ ret' \in Rets
  BY <1>1 DEF IInv, TypeOK
<1>4. QED
  BY <1>1, <1>2, <1>3, DisturbedSound

\* A read that starts waits for a header and holds nothing yet.
LEMMA ReadMsgSound == ASSUME IInv, ReadMsg PROVE IInv'
<1>1. /\ reader.pc = "idle" /\ reader' = [reader EXCEPT !.pc = "header"]
      /\ UNCHANGED <<sent, writing, line, received, ret, intact, troubles>>
  BY DEF ReadMsg
<1>2. reader.got = <<>>
  BY <1>1 DEF IInv
<1>3. /\ reader = [pc |-> reader.pc, got |-> reader.got, size |-> reader.size]
      /\ reader.size \in Nat
  BY TypesHold
<1>4. reader' = [pc |-> "header", got |-> <<>>, size |-> reader.size]
  BY <1>1, <1>2, <1>3
<1>5. TypeOK'
  <2>1. <<>> \in Seq(Byte) /\ Len(<<>>) = 0 /\ 0 < HeaderSize
    BY TypeNumbers
  <2>2. /\ reader'.pc = "header" /\ reader'.got = <<>>
        /\ reader' \in [pc   : {"idle", "header", "sync", "body", "undefined", "killed"},
                        got  : Seq(Byte),
                        size : Nat]
    BY <1>3, <1>4, <2>1
  <2>3. QED
    BY <1>1, <2>1, <2>2 DEF IInv, TypeOK
<1>6. ASSUME intact PROVE Steady'
  <2>1. /\ reader'.got = reader.got /\ reader'.pc = "header"
        /\ ret # "MSG_INVALID"
    BY <1>2, <1>4, <1>6 DEF IInv, Steady, RejectsOnlyDisturbed
  <2>2. QED
    BY <1>1, <1>6, <2>1, StillSteady
<1>7. QED
  BY <1>1, <1>4, <1>5, <1>6 DEF IInv

----------------------------------------------------------------------------
(* The steps of the reader that do not complete a message *)

\* A read that times out keeps nothing, and disturbs the line if it held bytes.
LEMMA ReadTimesOutSound == ASSUME IInv, ReadTimesOut PROVE IInv'
<1>1. /\ reader' = Idle /\ ret' = "TIMEOUT"
      /\ intact' = (intact /\ reader.got = <<>>)
      /\ UNCHANGED <<sent, writing, line, received, troubles>>
  BY DEF ReadTimesOut, Return
<1>2. /\ writing' \in Seq(Byte) /\ line' \in Seq(Byte) /\ ret' \in Rets
      /\ troubles' \in 0 .. MaxTroubles
  BY <1>1 DEF IInv, TypeOK, Rets
<1>3. CASE ~ intact'
  BY <1>1, <1>2, <1>3, DisturbedSound
<1>4. CASE intact'
  <2>1. intact /\ reader.got = <<>>
    BY <1>1, <1>4
  <2>2. /\ reader'.got = <<>> /\ reader'.pc = "idle"
        /\ reader' \in [pc   : {"idle", "header", "sync", "body", "undefined", "killed"},
                        got  : Seq(Byte),
                        size : Nat]
    BY <1>1 DEF Idle
  <2>3. sent' \in Seq(Messages)
    BY <1>1, TypesHold
  <2>4. TypeOK'
    BY <1>2, <1>4, <2>2, <2>3 DEF TypeOK
  <2>5. Steady'
    BY <1>1, <2>1, <2>2, StillSteady
  <2>6. QED
    BY <2>2, <2>4, <2>5 DEF IInv
<1>5. QED
  BY <1>3, <1>4

\* A read that fails keeps nothing, and disturbs the line if it held bytes.
LEMMA ReadFailsSound == ASSUME IInv, ReadFails PROVE IInv'
<1>1. /\ reader' = Idle /\ ret' = "RUNTIME"
      /\ intact' = (intact /\ reader.got = <<>>)
      /\ UNCHANGED <<sent, writing, line, received>>
  BY DEF ReadFails, Return
<1>2. /\ writing' \in Seq(Byte) /\ line' \in Seq(Byte) /\ ret' \in Rets
      /\ troubles' \in 0 .. MaxTroubles
  BY <1>1, SerialLinkAssumption DEF IInv, TypeOK, Rets, ReadFails
<1>3. CASE ~ intact'
  BY <1>1, <1>2, <1>3, DisturbedSound
<1>4. CASE intact'
  <2>1. intact /\ reader.got = <<>>
    BY <1>1, <1>4
  <2>2. /\ reader'.got = <<>> /\ reader'.pc = "idle"
        /\ reader' \in [pc   : {"idle", "header", "sync", "body", "undefined", "killed"},
                        got  : Seq(Byte),
                        size : Nat]
    BY <1>1 DEF Idle
  <2>3. sent' \in Seq(Messages)
    BY <1>1, TypesHold
  <2>4. TypeOK'
    BY <1>2, <1>4, <2>2, <2>3 DEF TypeOK
  <2>5. Steady'
    BY <1>1, <2>1, <2>2, StillSteady
  <2>6. QED
    BY <2>2, <2>4, <2>5 DEF IInv
<1>5. QED
  BY <1>3, <1>4

\* What the reader may ask for.
LEMMA WantedIs ==
  ASSUME IInv
  PROVE  /\ Wanted \in Nat
         /\ reader.pc = "header" => Wanted = 10 - Len(reader.got)
         /\ reader.pc = "sync" => Wanted = 1
         /\ reader.pc = "body" => /\ Wanted = reader.size - Len(reader.got)
                                  /\ Len(reader.got) >= 10
         /\ Wanted > 0 => reader.pc \in {"header", "sync", "body"}
<1>1. /\ reader.pc = "header" => Len(reader.got) < 10
      /\ reader.pc = "body" => Len(reader.got) \in 10 .. (reader.size - 1)
  BY TypeNumbers DEF IInv, TypeOK
<1>2. Len(reader.got) \in Nat /\ reader.size \in Nat
  BY TypesHold
<1>3. CASE reader.pc = "header"
  BY <1>1, <1>2, <1>3, TypeNumbers DEF Wanted
<1>4. CASE reader.pc = "sync"
  BY <1>4 DEF Wanted
<1>5. CASE reader.pc = "body"
  BY <1>1, <1>2, <1>5 DEF Wanted
<1>6. CASE reader.pc \notin {"header", "sync", "body"}
  BY <1>6 DEF Wanted
<1>7. QED
  BY <1>3, <1>4, <1>5, <1>6

\* A read without memory for its message disturbs the line.
LEMMA ReadNoMemorySound == ASSUME IInv, ReadNoMemory PROVE IInv'
<1>1. /\ reader' = Idle /\ ret' = "RUNTIME" /\ ~ intact'
      /\ line' = SubSeq(line, Wanted + 1, Len(line)) /\ Len(line) >= Wanted
      /\ UNCHANGED <<sent, writing, received>>
  BY DEF ReadNoMemory, Return
<1>2. line' \in Seq(Byte)
  BY <1>1, WantedIs, TypesHold, Halves
<1>3. writing' \in Seq(Byte) /\ ret' \in Rets /\ troubles' \in 0 .. MaxTroubles
  BY <1>1, SerialLinkAssumption DEF IInv, TypeOK, Rets, ReadNoMemory
<1>4. QED
  BY <1>1, <1>2, <1>3, DisturbedSound

\* A body smaller than its header is declared on a disturbed line only.
LEMMA UndefinedSound == ASSUME IInv, Undefined PROVE IInv'
<1>1. /\ reader.pc = "undefined" /\ UNCHANGED <<sent, writing, received, intact, troubles>>
  BY DEF Undefined
<1>2. ~ intact'
  BY <1>1 DEF IInv, Steady, RejectsOnlyDisturbed
<1>3. writing' \in Seq(Byte) /\ troubles' \in 0 .. MaxTroubles
  BY <1>1 DEF IInv, TypeOK
<1>4. CASE reader' = [reader EXCEPT !.pc = "killed"] /\ UNCHANGED <<line, ret>>
  <2>1. /\ reader = [pc |-> reader.pc, got |-> reader.got, size |-> reader.size]
        /\ reader.got \in Seq(Byte) /\ reader.size \in Nat
    BY TypesHold
  <2>2. reader' = [pc |-> "killed", got |-> reader.got, size |-> reader.size]
    BY <1>4, <2>1
  <2>3. /\ reader'.pc = "killed"
        /\ reader' \in [pc   : {"idle", "header", "sync", "body", "undefined", "killed"},
                        got  : Seq(Byte),
                        size : Nat]
    BY <2>1, <2>2
  <2>4. TypeOK'
    BY <1>1, <1>4, <2>3 DEF IInv, TypeOK
  <2>5. QED
    BY <1>2, <2>3, <2>4 DEF IInv
<1>5. CASE (\E code \in {"TIMEOUT", "RUNTIME"} : Return(code)) /\ line' = <<>>
  <2>1. reader' = Idle /\ ret' \in Rets /\ line' \in Seq(Byte)
    BY <1>5 DEF Return, Rets
  <2>2. QED
    BY <1>1, <1>2, <1>3, <2>1, DisturbedSound
<1>6. QED
  BY <1>4, <1>5 DEF Undefined

----------------------------------------------------------------------------
(* Reading *)

\* The two sets that the reader takes the least of.
LEMMA LessThanBoth ==
  ASSUME NEW a \in Nat, NEW b \in Nat, NEW n \in 1 .. Min({a, b})
  PROVE  n \in Nat /\ 1 <= n /\ n <= a /\ n <= b
<1>1. Min({a, b}) \in {a, b} /\ \A y \in {a, b} : Min({a, b}) <= y
  <2>1. \E x \in {a, b} : \A y \in {a, b} : x <= y
    <3>1. a <= b \/ b <= a
      OBVIOUS
    <3>2. QED
      BY <3>1
  <2>2. QED
    BY <2>1 DEF Min
<1>2. QED
  BY <1>1

\* What a call that completes a message does.
LEMMA FinishIs ==
  ASSUME NEW bytes, Finish(bytes)
  PROVE  /\ reader' = Idle /\ ret' \in Rets
         /\ ~ Decode(bytes).valid => received' = received
         /\ Decode(bytes).valid =>
              ret' = "SUCCESS" /\ received' = Append(received, Decode(bytes).msg)
BY DEF Finish, Return, Rets

\* The length in a header, its last four bytes, is a number.
LEMMA DeclaredIsNumber ==
  ASSUME NEW sync \in Seq(Byte), Len(sync) = 10
  PROVE  Declared(sync) \in Nat
<1> DEFINE i == 6
           j == 10
<1>1. i \in Nat /\ j \in Nat /\ i <= j /\ j <= Len(sync) /\ i + 1 = 7 /\ j - i = 4
  OBVIOUS
<1> HIDE DEF i, j
<1>2. /\ SubSeq(sync, i + 1, j) \in Seq(Byte)
      /\ Len(SubSeq(sync, i + 1, j)) = j - i
  BY <1>1, Piece
<1>3. SubSeq(sync, 7, 10) \in Seq(Byte) /\ Len(SubSeq(sync, 7, 10)) = 4
  BY <1>1, <1>2 DEF j
<1>4. QED
  BY <1>3, NumberWrittenBack DEF Declared

\* A header gives a length, and one of four cases.
LEMMA TakeHeaderIs ==
  ASSUME NEW sync \in Seq(Byte), Len(sync) = 10, TakeHeader(sync)
  PROVE  LET size == Declared(sync)
         IN  /\ size \in Nat
             /\ OutOfSync(sync) =>
                  /\ reader' = [pc |-> "sync", got |-> sync, size |-> 0]
                  /\ UNCHANGED <<received, ret>>
             /\ ~ OutOfSync(sync) /\ size < 10 =>
                  /\ reader' = [pc |-> "undefined", got |-> sync, size |-> size]
                  /\ UNCHANGED <<received, ret>>
             /\ ~ OutOfSync(sync) /\ size = 10 => Finish(sync)
             /\ ~ OutOfSync(sync) /\ size > 10 =>
                  /\ reader' = [pc |-> "body", got |-> sync, size |-> size]
                  /\ UNCHANGED <<received, ret>>
<1> DEFINE size == Declared(sync)
           out  == OutOfSync(sync)
           fin  == Finish(sync)
<1>1. size \in Nat
  BY DeclaredIsNumber
<1>2. (CASE out -> /\ reader' = [pc |-> "sync", got |-> sync, size |-> 0]
                   /\ UNCHANGED <<received, ret>>
         [] ~ out /\ size < 10 ->
                   /\ reader' = [pc |-> "undefined", got |-> sync, size |-> size]
                   /\ UNCHANGED <<received, ret>>
         [] ~ out /\ size = 10 -> fin
         [] OTHER -> /\ reader' = [pc |-> "body", got |-> sync, size |-> size]
                     /\ UNCHANGED <<received, ret>>)
  <2>1. HeaderSize = 10
    BY TypeNumbers
  <2>2. QED
    BY <2>1 DEF TakeHeader
<1> HIDE DEF size, out, fin
<1>3. CASE out
  BY <1>1, <1>2, <1>3 DEF out, size
<1>4. CASE ~ out /\ size < 10
  BY <1>1, <1>2, <1>4 DEF out, size
<1>5. CASE ~ out /\ size = 10
  <2>1. fin
    BY <1>2, <1>5
  <2>2. QED
    BY <1>1, <1>5, <2>1 DEF out, size, fin
<1>6. CASE ~ out /\ size > 10
  BY <1>1, <1>2, <1>6 DEF out, size
<1>7. QED
  BY <1>1, <1>3, <1>4, <1>5, <1>6 DEF out, size

\* The types after reading.
LEMMA ReaderTypes ==
  ASSUME IInv, UNCHANGED <<sent, writing, intact, troubles>>,
         line' \in Seq(Byte), ret' \in Rets,
         NEW pc \in {"header", "sync", "body", "undefined"}, NEW got \in Seq(Byte),
         NEW size \in Nat, reader' = [pc |-> pc, got |-> got, size |-> size],
         pc = "header" => Len(got) < 10, pc \in {"sync", "undefined"} => Len(got) = 10,
         pc = "body" => Len(got) \in 10 .. (size - 1)
  PROVE  TypeOK' /\ reader'.pc # "idle"
<1>1. /\ reader' \in [pc   : {"idle", "header", "sync", "body", "undefined", "killed"},
                      got  : Seq(Byte),
                      size : Nat]
      /\ reader'.pc = pc /\ reader'.got = got /\ reader'.size = size /\ pc # "idle"
  OBVIOUS
<1>2. QED
  BY <1>1, TypeNumbers DEF IInv, TypeOK

\* The types when a read returns.
LEMMA IdleTypes ==
  ASSUME IInv, UNCHANGED <<sent, writing, intact, troubles>>,
         line' \in Seq(Byte), ret' \in Rets, reader' = Idle
  PROVE  TypeOK' /\ reader'.got = <<>>
<1>1. /\ reader' \in [pc   : {"idle", "header", "sync", "body", "undefined", "killed"},
                      got  : Seq(Byte),
                      size : Nat]
      /\ reader'.pc = "idle" /\ reader'.got = <<>>
  BY DEF Idle
<1>2. QED
  BY <1>1 DEF IInv, TypeOK

\* The types when a header is complete, whatever is in it.
LEMMA HeaderTypes ==
  ASSUME IInv, UNCHANGED <<sent, writing, intact, troubles>>, line' \in Seq(Byte),
         NEW sync \in Seq(Byte), Len(sync) = 10, TakeHeader(sync)
  PROVE  TypeOK' /\ (reader'.pc = "idle" => reader'.got = <<>>)
<1> DEFINE size == Declared(sync)
<1>1. ret \in Rets /\ size \in Nat
  BY TakeHeaderIs DEF IInv, TypeOK
<1>2. CASE OutOfSync(sync)
  <2>1. reader' = [pc |-> "sync", got |-> sync, size |-> 0] /\ ret' \in Rets
    BY <1>1, <1>2, TakeHeaderIs
  <2>2. QED
    BY <2>1, ReaderTypes
<1>3. CASE ~ OutOfSync(sync) /\ size < 10
  <2>1. reader' = [pc |-> "undefined", got |-> sync, size |-> size] /\ ret' \in Rets
    BY <1>1, <1>3, TakeHeaderIs
  <2> HIDE DEF size
  <2>2. QED
    BY <1>1, <2>1, ReaderTypes
<1>4. CASE ~ OutOfSync(sync) /\ size = 10
  <2>1. Finish(sync)
    BY <1>4, TakeHeaderIs
  <2>2. QED
    BY <2>1, FinishIs, IdleTypes
<1>5. CASE ~ OutOfSync(sync) /\ size > 10
  <2>1. reader' = [pc |-> "body", got |-> sync, size |-> size] /\ ret' \in Rets
    BY <1>1, <1>5, TakeHeaderIs
  <2> HIDE DEF size
  <2>2. Len(sync) \in 10 .. (size - 1)
    BY <1>1, <1>5
  <2>3. QED
    BY <1>1, <2>1, <2>2, ReaderTypes
<1>6. QED
  BY <1>1, <1>2, <1>3, <1>4, <1>5

\* The first message underway is complete, and received.
LEMMA FinishSteady ==
  ASSUME IInv, intact, Underway # <<>>, Finish(Bytes(Underway[1])),
         UNCHANGED <<sent, writing>>, line' \in Seq(Byte),
         line' \o writing = OnTheWay(Tail(Underway))
  PROVE  /\ Steady'
         /\ received' = Append(received, Underway[1])
         /\ Underway' = Tail(Underway)
<1>1. /\ Underway[1] \in Messages /\ Len(received) < Len(sent)
      /\ sent \in Seq(Messages) /\ received \in Seq(Messages)
  BY UnderwayIs, TypesHold DEF IInv, Steady
<1>2. /\ Decode(Bytes(Underway[1])).valid
      /\ Decode(Bytes(Underway[1])).msg = Underway[1]
  <2>1. Decode(Bytes(Underway[1])) = [valid |-> TRUE, msg |-> Underway[1]]
    BY <1>1, MessageIs
  <2>2. QED
    BY <2>1
<1>3. /\ reader' = Idle /\ ret' = "SUCCESS"
      /\ received' = Append(received, Underway[1])
  <2> DEFINE first == Underway[1]
  <2> HIDE DEF first
  <2>1. /\ Finish(Bytes(first)) /\ Decode(Bytes(first)).valid
        /\ Decode(Bytes(first)).msg = first
    BY <1>2 DEF first
  <2>2. /\ reader' = Idle /\ ret' = "SUCCESS"
        /\ received' = Append(received, Decode(Bytes(first)).msg)
    BY <2>1, FinishIs
  <2>3. QED
    BY <2>1, <2>2 DEF first
<1>4. Underway' = Tail(Underway)
  BY <1>3, UnderwayIs
<1>5. reader'.pc = "idle" /\ reader'.got = <<>>
  BY <1>3 DEF Idle
<1>6. EveryByteOnce'
  <2>1. (<<>> \o line') \o writing = line' \o writing
    OBVIOUS
  <2>2. (reader'.got \o line') \o writing' = OnTheWay(Underway')
    BY <1>4, <1>5, <2>1
  <2>3. QED
    BY <2>2 DEF EveryByteOnce, OnTheWay
<1>7. received' \in Seq(Messages) /\ Len(received') <= Len(sent')
  <2>1. received' \in Seq(Messages) /\ Len(received') = Len(received) + 1
    BY <1>1, <1>3
  <2>2. Len(sent) \in Nat /\ Len(received) \in Nat
    BY <1>1
  <2>3. QED
    BY <1>1, <2>1, <2>2
<1>8. QED
  BY <1>3, <1>4, <1>5, <1>6, <1>7 DEF Steady, RejectsOnlyDisturbed

\* The reader is left as it was, or takes the first message underway.
Delivers ==
  /\ Underway # <<>>
  /\ received' = Append(received, Underway[1])
  /\ Underway' = Tail(Underway)

\* A body is empty or it is not.
LEMMA TenOrMore == ASSUME NEW k \in Nat, k >= 10 PROVE k = 10 \/ k > 10
OBVIOUS

\* A message has bytes, those of its header.
LEMMA NotEmpty ==
  ASSUME NEW a \in Seq(Byte), Len(a) = 10, NEW b \in Seq(Byte) PROVE a \o b # <<>>
OBVIOUS

\* A header is complete.
LEMMA HeaderSteady ==
  ASSUME IInv, intact, NEW sync \in Seq(Byte), Len(sync) = 10, TakeHeader(sync),
         UNCHANGED <<sent, writing>>, line' \in Seq(Byte),
         sync \o (line' \o writing) = OnTheWay(Underway)
  PROVE  Steady' /\ (received' = received \/ Delivers)
<1> DEFINE first == Underway[1]
           e     == Bytes(first)
           later == OnTheWay(Tail(Underway))
           rest  == line' \o writing
<1>1. rest \in Seq(Byte) /\ writing \in Seq(Byte)
  BY TypesHold
<1>2. Underway # <<>>
  <2>1. ASSUME Underway = <<>> PROVE FALSE
    <3>1. sync \o rest = <<>>
      BY <2>1, OnTheWayIs
    <3>2. rest \in Seq(Byte)
      BY <1>1
    <3> HIDE DEF rest
    <3>3. QED
      BY <3>1, <3>2, NotEmpty
  <2>2. QED
    BY <2>1
<1>3. /\ first \in Messages /\ Tail(Underway) \in Seq(Messages)
      /\ OnTheWay(Underway) = e \o later
  BY <1>2, UnderwayIs
<1>4. /\ e \in Seq(Byte) /\ Len(e) \in Nat /\ Len(e) >= 10
      /\ later \in Seq(Byte)
  BY <1>3, MessageIs, OnTheWayIs
<1>5. ~ OutOfSync(SubSeq(e, 1, 10)) /\ Declared(SubSeq(e, 1, 10)) = Len(e)
  BY <1>3, HeaderIs
<1> HIDE DEF e, later, rest, first
<1>6. sync \o rest = e \o later
  BY <1>3 DEF rest
<1>7. sync = SubSeq(e, 1, 10)
  <2>1. sync = SubSeq(e, 1, Len(sync))
    BY <1>1, <1>4, <1>6, Shorter, ZenonT(30)
  <2>2. QED
    BY <2>1
<1>8. ~ OutOfSync(sync) /\ Declared(sync) = Len(e)
  BY <1>5, <1>7
<1>9. CASE Len(e) = 10
  <2>1. Finish(sync)
    BY <1>8, <1>9, TakeHeaderIs
  <2>2. sync = e /\ rest = later
    BY <1>1, <1>4, <1>6, <1>9, SameCut
  <2>3. Finish(Bytes(Underway[1])) /\ line' \o writing = OnTheWay(Tail(Underway))
    BY <2>1, <2>2 DEF e, rest, later, first
  <2>4. QED
    BY <1>2, <2>3, FinishSteady DEF Delivers
<1>10. CASE Len(e) > 10
  <2>1. /\ reader' = [pc |-> "body", got |-> sync, size |-> Len(e)]
        /\ UNCHANGED <<received, ret>>
    BY <1>8, <1>10, TakeHeaderIs
  <2>2. /\ reader'.pc = "body" /\ reader'.got = sync
        /\ reader'.size = Len(Bytes(Underway[1]))
    BY <2>1 DEF e, first
  <2>3. (sync \o line') \o writing = (reader.got \o line) \o writing
    <3>1. (sync \o line') \o writing = sync \o (line' \o writing)
      BY <1>1, Assoc
    <3>2. QED
      BY <3>1, Bytewise
  <2>4. ret' # "MSG_INVALID"
    BY <2>1 DEF IInv, Steady, RejectsOnlyDisturbed
  <2>5. (reader'.got \o line') \o writing' = (reader.got \o line) \o writing
    BY <2>2, <2>3
  <2>6. Steady'
    BY <1>2, <2>1, <2>2, <2>4, <2>5, StillSteady
  <2>7. QED
    BY <2>1, <2>6
<1>11. Len(e) = 10 \/ Len(e) > 10
  BY <1>4, TenOrMore
<1>12. QED
  BY <1>9, <1>10, <1>11, Zenon

\* Bytes that are read move from the line to the reader.
LEMMA Moved ==
  ASSUME IInv, intact, NEW n \in Nat, n <= Len(line),
         line' = SubSeq(line, n + 1, Len(line))
  PROVE  /\ reader.got \o SubSeq(line, 1, n) \in Seq(Byte)
         /\ line' \o writing \in Seq(Byte)
         /\ (reader.got \o SubSeq(line, 1, n)) \o (line' \o writing) = OnTheWay(Underway)
         /\ ((reader.got \o SubSeq(line, 1, n)) \o line') \o writing
              = (reader.got \o line) \o writing
<1> DEFINE g == reader.got
           a == SubSeq(line, 1, n)
           b == SubSeq(line, n + 1, Len(line))
<1>1. /\ g \in Seq(Byte) /\ line \in Seq(Byte) /\ writing \in Seq(Byte)
  BY TypesHold
<1>2. a \in Seq(Byte) /\ b \in Seq(Byte) /\ a \o b = line
  BY <1>1, Halves
<1>3. line' = b
  OBVIOUS
<1>4. (g \o line) \o writing = OnTheWay(Underway)
  BY Bytewise
<1> HIDE DEF g, a, b
<1>5. g \o a \in Seq(Byte) /\ b \o writing \in Seq(Byte)
  BY <1>1, <1>2
<1>6. (g \o a) \o b = g \o (a \o b)
  BY <1>1, <1>2, Assoc, ZenonT(30)
<1>7. ((g \o a) \o b) \o writing = (g \o a) \o (b \o writing)
  <2>1. g \o a \in Seq(Byte) /\ b \in Seq(Byte) /\ writing \in Seq(Byte)
    BY <1>1, <1>2, <1>5
  <2>2. QED
    BY <2>1, Assoc
<1>8. ((g \o a) \o b) \o writing = (g \o line) \o writing
  BY <1>2, <1>6
<1>9. QED
  BY <1>3, <1>4, <1>5, <1>7, <1>8 DEF g, a

\* Bytes that are read keep the invariant, and on an undisturbed line they hand over
\* no message or the first of those underway.
LEMMA ReadSomeSound ==
  ASSUME IInv, ReadSome
  PROVE  IInv' /\ (intact => received' = received \/ Delivers)
<1>1. PICK n \in 1 .. Min({Wanted, Len(line)}) :
        LET got == reader.got \o SubSeq(line, 1, n)
        IN  /\ line' = SubSeq(line, n + 1, Len(line))
            /\ CASE reader.pc = "sync" ->
                      TakeHeader(Shifted(reader.got, line[1]))
                 [] reader.pc = "header" /\ n = Wanted ->
                      TakeHeader(got)
                 [] reader.pc = "body" /\ n = Wanted ->
                      Finish(got)
                 [] OTHER ->
                      /\ reader' = [reader EXCEPT !.got = got]
                      /\ UNCHANGED <<received, ret>>
            /\ UNCHANGED <<sent, writing, intact, troubles>>
  BY Zenon DEF ReadSome
<1> DEFINE got  == reader.got \o SubSeq(line, 1, n)
           take == TakeHeader(Shifted(reader.got, line[1]))
           head == TakeHeader(got)
           done == Finish(got)
<1>2. Wanted \in Nat /\ Len(line) \in Nat
  BY WantedIs, TypesHold
<1>3. n \in Nat /\ 1 <= n /\ n <= Wanted /\ n <= Len(line)
  BY <1>2, LessThanBoth
<1>4. reader.pc \in {"header", "sync", "body"}
  BY <1>2, <1>3, WantedIs
<1>5. /\ line' = SubSeq(line, n + 1, Len(line))
      /\ UNCHANGED <<sent, writing, intact, troubles>>
      /\ reader.pc = "sync" => take
      /\ reader.pc = "header" /\ n = Wanted => head
      /\ reader.pc = "body" /\ n = Wanted => done
      /\ reader.pc # "sync" /\ n # Wanted =>
           reader' = [reader EXCEPT !.got = got] /\ UNCHANGED <<received, ret>>
  <2> HIDE DEF got, take, head, done
  <2>1. /\ line' = SubSeq(line, n + 1, Len(line))
        /\ CASE reader.pc = "sync" -> take
             [] reader.pc = "header" /\ n = Wanted -> head
             [] reader.pc = "body" /\ n = Wanted -> done
             [] OTHER -> reader' = [reader EXCEPT !.got = got] /\ UNCHANGED <<received, ret>>
        /\ UNCHANGED <<sent, writing, intact, troubles>>
    BY <1>1, Zenon DEF got, take, head, done
  <2>2. QED
    BY <2>1
<1>6. /\ reader.got \in Seq(Byte) /\ Len(reader.got) \in Nat /\ line \in Seq(Byte)
      /\ reader = [pc |-> reader.pc, got |-> reader.got, size |-> reader.size]
      /\ reader.size \in Nat /\ ret \in Rets
  BY TypesHold DEF IInv, TypeOK
<1>7. /\ line' \in Seq(Byte) /\ SubSeq(line, 1, n) \in Seq(Byte)
      /\ Len(SubSeq(line, 1, n)) = n
  BY <1>3, <1>5, <1>6, Halves
<1>8. got \in Seq(Byte) /\ Len(got) = Len(reader.got) + n
  <2> DEFINE a == SubSeq(line, 1, n)
  <2> HIDE DEF a
  <2>1. a \in Seq(Byte) /\ Len(a) = n
    BY <1>7 DEF a
  <2>2. reader.got \o a \in Seq(Byte) /\ Len(reader.got \o a) = Len(reader.got) + n
    BY <1>6, <2>1
  <2>3. QED
    BY <2>2 DEF a
<1>9. intact => /\ got \o (line' \o writing) = OnTheWay(Underway)
                /\ line' \o writing \in Seq(Byte)
                /\ (got \o line') \o writing = (reader.got \o line) \o writing
  BY <1>3, <1>5, Moved
<1> HIDE DEF got, take, head, done
<1>10. CASE reader.pc = "sync"
  <2> DEFINE sync == Shifted(reader.got, line[1])
  <2>1. Len(reader.got) = 10
    BY <1>10, TypeNumbers DEF IInv, TypeOK
  <2>2. line[1] \in Byte
    BY <1>3, <1>6
  <2>3. sync \in Seq(Byte) /\ Len(sync) = 10
    <3> DEFINE t == reader.got
               x == line[1]
    <3>1. /\ t \in Seq(Byte) /\ Len(t) = 10 /\ x \in Byte /\ HeaderSize = 10
          /\ \A i \in 1 .. 10 : t[i] \in Byte
      <4>1. t \in Seq(Byte) /\ Len(t) = 10
        BY <1>6, <2>1
      <4>2. \A i \in 1 .. 10 : t[i] \in Byte
        BY <4>1, ElementOfSeq
      <4>3. QED
        BY <4>1, <4>2, <2>2, TypeNumbers
    <3> HIDE DEF t, x
    <3>2. ASSUME NEW i \in 1 .. 10
          PROVE  (CASE i = 8 -> x [] i = 10 -> t[i] [] OTHER -> t[i + 1]) \in Byte
      <4>1. CASE i = 8
        BY <3>1, <4>1
      <4>2. CASE i = 10
        BY <3>1, <4>2
      <4>3. CASE i # 8 /\ i # 10
        <5>1. i + 1 \in 1 .. 10
          BY <4>3
        <5>2. t[i + 1] \in Byte
          BY <3>1, <5>1, Zenon
        <5>3. QED
          BY <4>3, <5>2
      <4>4. QED
        BY <4>1, <4>2, <4>3
    <3>3. Shifted(t, x) \in Seq(Byte) /\ Len(Shifted(t, x)) = 10
      BY <3>1, <3>2 DEF Shifted
    <3>4. QED
      BY <3>3 DEF t, x
  <2>4. TakeHeader(sync)
    BY <1>5, <1>10 DEF take
  <2> HIDE DEF sync
  <2>5. TypeOK' /\ (reader'.pc = "idle" => reader'.got = <<>>)
    BY <1>5, <1>7, <2>3, <2>4, HeaderTypes
  <2>6. ~ intact /\ ~ intact'
    BY <1>5, <1>10 DEF IInv, Steady, RejectsOnlyDisturbed
  <2>7. QED
    BY <2>5, <2>6 DEF IInv
<1>11. CASE reader.pc = "header" /\ n = Wanted
  <2>1. TakeHeader(got) /\ Len(got) = 10
    BY <1>5, <1>6, <1>8, <1>11, WantedIs DEF head
  <2>2. TypeOK' /\ (reader'.pc = "idle" => reader'.got = <<>>)
    BY <1>5, <1>7, <1>8, <2>1, HeaderTypes
  <2>3. intact => Steady' /\ (received' = received \/ Delivers)
    BY <1>5, <1>7, <1>8, <1>9, <2>1, HeaderSteady
  <2>4. QED
    BY <1>5, <2>2, <2>3 DEF IInv
<1>12. CASE reader.pc = "body" /\ n = Wanted
  <2>1. Finish(got) /\ Len(got) = reader.size
    BY <1>5, <1>6, <1>8, <1>12, WantedIs DEF done
  <2>2. TypeOK' /\ reader'.got = <<>>
    BY <1>5, <1>7, <2>1, FinishIs, IdleTypes
  <2>3. ASSUME intact PROVE Steady' /\ Delivers
    <3> DEFINE e     == Bytes(Underway[1])
               later == OnTheWay(Tail(Underway))
               rest  == line' \o writing
    <3>1. Underway # <<>> /\ reader.size = Len(e)
      BY <1>12, <2>3 DEF IInv, Steady
    <3>2. /\ Underway[1] \in Messages /\ Tail(Underway) \in Seq(Messages)
          /\ OnTheWay(Underway) = e \o later
      BY <2>3, <3>1, UnderwayIs
    <3>3. e \in Seq(Byte) /\ later \in Seq(Byte)
      BY <3>2, MessageIs, OnTheWayIs
    <3>4. rest \in Seq(Byte) /\ got \o rest = e \o later
      BY <1>9, <2>3, <3>2
    <3>5. Len(got) = Len(e)
      BY <2>1, <3>1
    <3> HIDE DEF e, later, rest
    <3>6. got = e /\ rest = later
      BY <1>8, <3>3, <3>4, <3>5, SameCut
    <3>7. Finish(Bytes(Underway[1])) /\ line' \o writing = OnTheWay(Tail(Underway))
      BY <2>1, <3>6 DEF e, later, rest
    <3>8. QED
      BY <1>5, <1>7, <2>3, <3>1, <3>7, FinishSteady DEF Delivers
  <2>4. QED
    BY <1>5, <2>2, <2>3 DEF IInv
<1>13. CASE reader.pc # "sync" /\ n # Wanted
  <2>1. /\ reader' = [pc |-> reader.pc, got |-> got, size |-> reader.size]
        /\ UNCHANGED <<received, ret>>
    <3>1. reader' = [reader EXCEPT !.got = got] /\ UNCHANGED <<received, ret>>
      BY <1>5, <1>13
    <3>2. QED
      BY <1>6, <3>1
  <2>2. /\ reader.pc = "header" => Len(got) < 10
        /\ reader.pc = "body" => Len(got) \in 10 .. (reader.size - 1)
    BY <1>2, <1>3, <1>6, <1>8, <1>13, WantedIs
  <2>3. ret' \in Rets
    BY <1>6, <2>1
  <2>4. TypeOK' /\ reader'.pc # "idle"
    <3> DEFINE pc == reader.pc
               size == reader.size
    <3>1. /\ pc \in {"header", "sync", "body", "undefined"} /\ size \in Nat
          /\ reader' = [pc |-> pc, got |-> got, size |-> size]
          /\ pc \notin {"sync", "undefined"}
          /\ pc = "header" => Len(got) < 10
          /\ pc = "body" => Len(got) \in 10 .. (size - 1)
      BY <1>4, <1>6, <1>13, <2>1, <2>2
    <3> HIDE DEF pc, size
    <3>2. QED
      BY <1>5, <1>7, <1>8, <2>3, <3>1, ReaderTypes
  <2>5. ASSUME intact PROVE Steady'
    <3>1. (reader'.got \o line') \o writing' = (reader.got \o line) \o writing
      BY <1>5, <1>9, <2>1, <2>5
    <3>2. ret' # "MSG_INVALID"
      BY <2>1, <2>5 DEF IInv, Steady, RejectsOnlyDisturbed
    <3>3. reader'.pc = reader.pc /\ reader'.size = reader.size
      BY <2>1
    <3>4. reader.pc = "body" => Underway # <<>> /\ reader.size = Len(Bytes(Underway[1]))
      BY <2>5 DEF IInv, Steady
    <3>5. QED
      BY <1>4, <1>5, <1>13, <2>1, <2>5, <3>1, <3>2, <3>3, <3>4, StillSteady
  <2>6. QED
    BY <1>5, <2>1, <2>4, <2>5 DEF IInv
<1>14. QED
  BY <1>4, <1>10, <1>11, <1>12, <1>13

----------------------------------------------------------------------------
(* The theorems *)

\* Every step keeps the invariant.
LEMMA StepSound == IInv /\ [Next]_vars => IInv'
<1> SUFFICES ASSUME IInv, [Next]_vars PROVE IInv'
  OBVIOUS
<1>1. ASSUME NEW m \in Messages, WriteMsg(m) PROVE IInv'
  BY <1>1, WriteMsgSound
<1>2. CASE WriteSome
  BY <1>2, WriteSomeSound
<1>3. CASE WriteFails
  BY <1>3, WriteFailsSound
<1>4. CASE ReadMsg
  BY <1>4, ReadMsgSound
<1>5. CASE ReadSome
  BY <1>5, ReadSomeSound
<1>6. CASE Undefined
  BY <1>6, UndefinedSound
<1>7. CASE ReadTimesOut
  BY <1>7, ReadTimesOutSound
<1>8. CASE ReadNoMemory
  BY <1>8, ReadNoMemorySound
<1>9. CASE ReadFails
  BY <1>9, ReadFailsSound
<1>10. ASSUME NEW byte \in Noise, LineNoise(byte) PROVE IInv'
  BY <1>10, LineNoiseSound
<1>11. CASE UNCHANGED vars
  <2>1. Underway' = Underway
    BY <1>11 DEF vars, Underway
  <2>2. EveryByteOnce <=> EveryByteOnce'
    BY <1>11, <2>1 DEF vars, EveryByteOnce
  <2>3. Steady => Steady'
    BY <1>11, <2>1, <2>2 DEF vars, Steady, RejectsOnlyDisturbed
  <2>4. TypeOK'
    BY <1>11 DEF vars, TypeOK, IInv
  <2>5. QED
    BY <1>11, <2>3, <2>4 DEF vars, IInv
<1>12. QED
  BY <1>1, <1>2, <1>3, <1>4, <1>5, <1>6, <1>7, <1>8, <1>9, <1>10, <1>11
  DEF Next, Reader

\* The invariant holds in every state.
LEMMA Invariance == Spec => []IInv
BY InitSound, StepSound, PTL DEF Spec

\* The types of the variables, and that read_msg never holds more bytes than it
\* asked for, whatever comes over the line.
THEOREM TypesAreRight == Spec => []TypeOK
<1>1. IInv => TypeOK
  BY DEF IInv
<1>2. QED
  BY <1>1, Invariance, PTL

\* While the line is undisturbed, the bytes in the reader, on the line and in the
\* writer are those of the messages underway, none lost and none twice
\* (serial_write_msg and serial_read_msg).
THEOREM NoByteLost == Spec => []EveryByteOnce
<1>1. IInv => EveryByteOnce
  BY DEF IInv, Steady, EveryByteOnce
<1>2. QED
  BY <1>1, Invariance, PTL

\* read_msg rejects no message, and gets no length that is too small, on a line
\* that is undisturbed.
THEOREM UndisturbedIsAccepted == Spec => []RejectsOnlyDisturbed
<1>1. IInv => RejectsOnlyDisturbed
  BY DEF IInv, Steady, RejectsOnlyDisturbed
<1>2. QED
  BY <1>1, Invariance, PTL

\* Every step of the program is one of MsgLink: it sends a message, hands the first
\* of those underway to the reader, or the line is disturbed.
LEMMA StepIsOfLink == IInv /\ [Next]_vars => [Link!Next]_(Link!linkVars)
<1> SUFFICES ASSUME IInv, [Next]_vars PROVE [Link!Next]_(Link!linkVars)
  OBVIOUS
<1>0. UNCHANGED <<sent, received>> => Underway' = Underway
  BY DEF Underway
<1>1. intact \in BOOLEAN /\ intact' \in BOOLEAN
  BY StepSound DEF IInv, TypeOK
<1>2. intact' => intact
  BY DEF Next, WriteMsg, WriteSome, WriteFails, Reader, ReadMsg, ReadSome, Undefined,
         ReadTimesOut, ReadNoMemory, ReadFails, LineNoise, vars
<1>3. CASE ~ intact
  BY <1>1, <1>2, <1>3 DEF Link!Next, Link!Disturbed
<1>4. ASSUME intact, UNCHANGED <<sent, received>> PROVE [Link!Next]_(Link!linkVars)
  <2>1. Underway' = Underway /\ received' = received
    BY <1>0, <1>4
  <2>2. CASE intact'
    BY <1>1, <1>4, <2>1, <2>2 DEF Link!linkVars
  <2>3. CASE ~ intact'
    BY <1>1, <2>1, <2>3 DEF Link!Next, Link!Disturb
  <2>4. QED
    BY <2>2, <2>3
<1>5. ASSUME intact, NEW m \in Messages, WriteMsg(m)
      PROVE  [Link!Next]_(Link!linkVars)
  <2>1. sent' = Append(sent, m) /\ received' = received /\ intact' = intact
    BY <1>5 DEF WriteMsg
  <2>2. Underway' = Append(Underway, m)
    BY <1>5, <2>1, UnderwayIs
  <2>3. QED
    BY <2>1, <2>2 DEF Link!Next, Link!Send
<1>6. ASSUME intact, ReadSome PROVE [Link!Next]_(Link!linkVars)
  <2>1. UNCHANGED <<sent, intact>>
    BY <1>6 DEF ReadSome
  <2>2. received' = received \/ Delivers
    BY <1>6, ReadSomeSound
  <2>3. CASE received' = received
    BY <1>4, <1>6, <2>1, <2>3
  <2>4. CASE Delivers
    <3>1. /\ received' = Append(received, Head(Underway))
          /\ Underway' = Tail(Underway) /\ Underway # <<>>
      BY <2>4 DEF Delivers
    <3>2. QED
      BY <1>6, <2>1, <3>1 DEF Link!Next, Link!Receive
  <2>5. QED
    BY <2>2, <2>3, <2>4
<1>7. \/ UNCHANGED <<sent, received>>
      \/ ReadSome
      \/ \E m \in Messages : WriteMsg(m)
  BY DEF Next, WriteSome, WriteFails, Reader, ReadMsg, Undefined,
         ReadTimesOut, ReadNoMemory, ReadFails, LineNoise, vars
<1>8. QED
  BY <1>3, <1>4, <1>5, <1>6, <1>7

\* The safety of ImplementsMsgLink: the link between two programs is that of
\* MsgLink, which delivers every message whole, unchanged and in order while the
\* line is undisturbed.
THEOREM LinkIsSafe == Spec => Link!Init /\ [][Link!Next]_(Link!linkVars)
<1>1. Init => Link!Init
  BY DEF Init, Link!Init, Underway
<1>2. QED
  BY <1>1, StepIsOfLink, Invariance, PTL DEF Spec
=============================================================================
