--------------------------- MODULE MsgBufferProofs ---------------------------
(***************************************************************************)
(* Proofs about MsgBuffer, for any number of messages, parts and bytes.    *)
(* The inductive invariant IInv says that every message, however it was    *)
(* made, is well-formed: its length is that of its header and of what its  *)
(* parts are written as, and no string in it contains a 0 byte.  What is   *)
(* written and read is in MsgFormatProofs.                                 *)
(***************************************************************************)
EXTENDS MsgBuffer, MsgFormatProofs

IInv ==
  /\ part \in Parts
  /\ msgs \in [Msgs -> WellFormed \cup {NULL}]
  /\ buffer \in Seq(Byte) \cup {NULL}
  /\ damages \in 0 .. MaxDamage
  /\ ret \in Rets

\* What a call writes in a part.
LEMMA WrittenIs == ASSUME NEW w \in Writes PROVE WrittenPart(w) \in Parts
BY MsgBufferAssumption DEF Parts

\* The new value of one message.
LEMMA OneMessage ==
  ASSUME IInv, NEW m \in Msgs, NEW x \in WellFormed \cup {NULL}
  PROVE  [msgs EXCEPT ![m] = x] \in [Msgs -> WellFormed \cup {NULL}]
BY DEF IInv

\* A message that is held.
LEMMA HeldIs == ASSUME IInv, NEW m \in Msgs, Held(m) PROVE msgs[m] \in WellFormed
BY DEF IInv, Held

\* A copy of a message, all of whose parts are set, is that message.
LEMMA CopyMsgIs == ASSUME NEW m \in WellFormed, AllSet(m) PROVE CopyMsg(m) = m
BY CopyExact DEF CopyMsg

\* Before the first call there is no message.
LEMMA InitSound == Init => IInv
<1> SUFFICES ASSUME Init PROVE IInv
  OBVIOUS
<1>1. part \in Parts
  BY DEF Init, Parts
<1>2. damages \in 0 .. MaxDamage
  BY MsgBufferAssumption DEF Init
<1>3. QED
  BY <1>1, <1>2 DEF Init, IInv, Rets

\* A call that fails for lack of memory keeps the invariant.
LEMMA NoMemorySound == ASSUME IInv, NoMemory PROVE IInv'
BY DEF IInv, NoMemory, Rets

\* msg_new makes an empty message, whose length is that of its header.
LEMMA NewSound ==
  ASSUME IInv, NEW m \in Msgs, NEW id \in Ids, New(m, id) PROVE IInv'
<1>1. CASE NoMemory
  BY <1>1, NoMemorySound
<1>2. CASE ~ NoMemory
  <2>1. NewMsg(id) \in WellFormed
    BY NewMsgIs, MsgBufferAssumption
  <2>2. /\ msgs' = [msgs EXCEPT ![m] = NewMsg(id)] /\ ret' = "SUCCESS"
        /\ UNCHANGED <<part, buffer, damages>>
    BY <1>2 DEF New
  <2>3. msgs' \in [Msgs -> WellFormed \cup {NULL}]
    BY <2>1, <2>2, OneMessage
  <2>4. QED
    BY <2>2, <2>3 DEF IInv, Rets
<1>3. QED
  BY <1>1, <1>2

\* set_id changes the id of a message and leaves its length, which every id fits.
LEMMA SetIdSound ==
  ASSUME IInv, NEW m \in Msgs, NEW id \in Ids, SetId(m, id) PROVE IInv'
<1> DEFINE old == msgs[m]
           new == [old EXCEPT !.id = id]
<1>1. /\ msgs' = [msgs EXCEPT ![m] = new] /\ ret' = "SUCCESS"
      /\ UNCHANGED <<part, buffer, damages>>
  BY DEF SetId
<1>2. old \in WellFormed
  BY HeldIs DEF SetId
<1> HIDE DEF old
<1>3. new \in WellFormed
  <2>1. id \in Byte \X Byte
    BY MsgBufferAssumption
  <2>2. /\ new = [id |-> id, length |-> old.length, parts |-> old.parts]
        /\ old.length \in Nat /\ old.length >= HeaderSize /\ old.parts \in Seq(Copies)
        /\ AllSet(old) => \A junk \in Byte :
             Len(Payload(old.parts, junk)) = old.length - HeaderSize
    BY <1>2 DEF WellFormed
  <2>3. new.parts = old.parts /\ new.length = old.length
    BY <2>2
  <2>4. new \in [id : Byte \X Byte, length : Nat, parts : Seq(Copies)]
    BY <2>1, <2>2
  <2> HIDE DEF new
  <2>5. AllSet(new) <=> AllSet(old)
    BY <2>3 DEF AllSet
  <2>6. QED
    BY <2>2, <2>3, <2>4, <2>5, Zenon DEF WellFormed
<1>4. msgs' \in [Msgs -> WellFormed \cup {NULL}]
  BY <1>1, <1>3, OneMessage
<1>5. QED
  BY <1>1, <1>4 DEF IInv, Rets

\* A destroyed message is no message.
LEMMA DestroySound == ASSUME IInv, NEW m \in Msgs, Destroy(m) PROVE IInv'
<1>1. msgs' \in [Msgs -> WellFormed \cup {NULL}]
  BY OneMessage DEF Destroy
<1>2. QED
  BY <1>1 DEF IInv, Destroy

\* add_part adds what the part takes to the length of the message.
LEMMA AddPartSound == ASSUME IInv, NEW m \in Msgs, AddPart(m) PROVE IInv'
<1>1. CASE NoMemory
  BY <1>1, NoMemorySound
<1>2. CASE ~ NoMemory
  <2>1. /\ msgs' = [msgs EXCEPT ![m] = WithPart(msgs[m], part)]
        /\ ret' = IF IsSet(part) THEN "SUCCESS" ELSE "RUNTIME"
        /\ UNCHANGED <<part, buffer, damages>>
    BY <1>2, Zenon DEF AddPart
  <2>2. msgs[m] \in WellFormed /\ part \in Parts
    BY HeldIs DEF AddPart, IInv
  <2>3. WithPart(msgs[m], part) \in WellFormed
    BY <2>2, WithPartIs
  <2>4. msgs' \in [Msgs -> WellFormed \cup {NULL}]
    BY <2>1, <2>3, OneMessage
  <2>5. QED
    BY <2>1, <2>4 DEF IInv, Rets
<1>3. QED
  BY <1>1, <1>2

\* A part holds what is written in it.
LEMMA WriteValueSound == ASSUME IInv, NEW w \in Writes, WriteValue(w) PROVE IInv'
<1>1. CASE NoMemory
  BY <1>1, NoMemorySound
<1>2. CASE ~ NoMemory
  BY <1>2, WrittenIs DEF WriteValue, IInv, Rets
<1>3. QED
  BY <1>1, <1>2

\* Reading the value of a part changes no message and no part.
LEMMA GetValueSound == ASSUME IInv, NEW type, GetValue(type) PROVE IInv'
<1>1. CASE NoMemory
  BY <1>1, NoMemorySound
<1>2. CASE ~ NoMemory
  BY <1>2 DEF GetValue, IInv, Rets
<1>3. QED
  BY <1>1, <1>2

\* get_part hands out a copy of one part of a message.
LEMMA GetPartSound ==
  ASSUME IInv, NEW m \in Msgs, NEW n \in Nat, GetPart(m, n) PROVE IInv'
<1>1. CASE NoMemory
  BY <1>1, NoMemorySound
<1>2. CASE ~ NoMemory /\ n >= Len(msgs[m].parts)
  BY <1>2 DEF GetPart, IInv, Rets
<1>3. CASE ~ NoMemory /\ ~ (n >= Len(msgs[m].parts))
  <2>1. /\ part' = CopyPart(msgs[m].parts[n + 1]) /\ ret' = "SUCCESS"
        /\ UNCHANGED <<msgs, buffer, damages>>
    BY <1>3 DEF GetPart
  <2>2. msgs[m].parts \in Seq(Parts)
    BY HeldIs, AllSetParts DEF GetPart
  <2>3. msgs[m].parts[n + 1] \in Parts
    <3>1. n + 1 \in 1 .. Len(msgs[m].parts)
      BY <1>3, <2>2, LenProperties
    <3>2. QED
      BY <2>2, <3>1, ElementOfSeq
  <2>4. part' \in Parts
    BY <2>1, <2>3, CopyIs DEF Copies
  <2>5. QED
    BY <2>1, <2>4 DEF IInv, Rets
<1>4. QED
  BY <1>1, <1>2, <1>3

\* The copy of a well-formed message is well-formed.
LEMMA CopySound == ASSUME IInv, NEW m \in Msgs, NEW n \in Msgs, Copy(m, n) PROVE IInv'
<1>1. CASE NoMemory
  BY <1>1, NoMemorySound
<1>2. CASE ~ NoMemory /\ AllSet(msgs[m])
  <2>1. /\ msgs' = [msgs EXCEPT ![n] = CopyMsg(msgs[m])] /\ ret' = "SUCCESS"
        /\ UNCHANGED <<part, buffer, damages>>
    BY <1>2, Zenon DEF Copy
  <2>2. msgs[m] \in WellFormed
    BY HeldIs DEF Copy
  <2>3. CopyMsg(msgs[m]) \in WellFormed
    BY <1>2, <2>2, CopyMsgIs
  <2>4. msgs' \in [Msgs -> WellFormed \cup {NULL}]
    BY <2>1, <2>3, OneMessage
  <2>5. QED
    BY <2>1, <2>4 DEF IInv, Rets
<1>3. CASE ~ NoMemory /\ ~ AllSet(msgs[m])
  BY <1>3 DEF Copy, IInv, Rets
<1>4. QED
  BY <1>1, <1>2, <1>3

\* get_buffer changes no message, and the buffer holds bytes.
LEMMA GetBufferSound == ASSUME IInv, NEW m \in Msgs, GetBuffer(m) PROVE IInv'
<1>1. CASE NoMemory
  BY <1>1, NoMemorySound
<1>2. CASE ~ NoMemory /\ AllSet(msgs[m])
  <2>1. PICK junk \in DamageBytes : buffer' = Encode(msgs[m], junk)
    BY <1>2, Zenon DEF GetBuffer
  <2>2. ret' = "SUCCESS" /\ UNCHANGED <<msgs, part, damages>>
    BY <1>2, Zenon DEF GetBuffer
  <2>3. msgs[m] \in WellFormed /\ junk \in Byte
    BY HeldIs, MsgBufferAssumption DEF GetBuffer
  <2>4. buffer' \in Seq(Byte)
    BY <1>2, <2>1, <2>3, EncodeIs
  <2>5. QED
    BY <2>2, <2>4 DEF IInv, Rets
<1>3. CASE ~ NoMemory /\ ~ AllSet(msgs[m])
  BY <1>3 DEF GetBuffer, IInv, Rets
<1>4. QED
  BY <1>1, <1>2, <1>3

\* Whatever the bytes are, what from_buffer accepts is a well-formed message.
LEMMA FromBufferSound == ASSUME IInv, NEW m \in Msgs, FromBuffer(m) PROVE IInv'
<1> DEFINE read == Decode(buffer)
<1>1. /\ buffer \in Seq(Byte) /\ buffer' = NULL /\ UNCHANGED <<part, damages>>
  BY DEF FromBuffer, IInv
<1>2. ret' \in Rets
  BY DEF FromBuffer, Rets
<1>3. CASE msgs' = msgs
  BY <1>1, <1>2, <1>3 DEF IInv
<1>4. CASE msgs' # msgs
  <2>1. read.valid /\ msgs' = [msgs EXCEPT ![m] = read.msg]
    BY <1>4, Zenon DEF FromBuffer
  <2>2. read.msg \in WellFormed
    BY <1>1, <2>1, DecodeAccepts
  <2> HIDE DEF read
  <2>3. msgs' \in [Msgs -> WellFormed \cup {NULL}]
    BY <2>1, <2>2, OneMessage
  <2>4. QED
    BY <1>1, <1>2, <2>3 DEF IInv
<1>5. QED
  BY <1>3, <1>4

\* A byte that is changed underway leaves bytes in the buffer.
LEMMA DamageSound == ASSUME IInv, Damage PROVE IInv'
<1>1. /\ buffer \in Seq(Byte) /\ UNCHANGED <<msgs, part, ret>>
      /\ damages' = damages + 1 /\ damages < MaxDamage /\ damages \in 0 .. MaxDamage
  BY DEF Damage, IInv
<1>2. DOMAIN buffer = 1 .. Len(buffer) /\ Len(buffer) \in Nat
  BY <1>1, LenProperties
<1>3. buffer' \in Seq(Byte)
  <2>1. CASE \E i \in DOMAIN buffer, byte \in DamageBytes :
               buffer' = [buffer EXCEPT ![i] = byte]
    BY <1>1, <1>2, <2>1, ExceptSeq, MsgBufferAssumption
  <2>2. CASE \E i \in 0..(Len(buffer) - 1) : buffer' = SubSeq(buffer, 1, i)
    <3>1. PICK i \in 0..(Len(buffer) - 1) : buffer' = SubSeq(buffer, 1, i)
      BY <2>2
    <3>2. SubSeq(buffer, 0 + 1, i) \in Seq(Byte)
      BY <1>1, <1>2, Piece
    <3>3. QED
      BY <3>1, <3>2
  <2>3. CASE \E byte \in DamageBytes : buffer' = Append(buffer, byte)
    BY <1>1, <2>3, AppendProperties, MsgBufferAssumption
  <2>4. QED
    BY <2>1, <2>2, <2>3, Zenon DEF Damage
<1>4. damages' \in 0 .. MaxDamage
  BY <1>1, MsgBufferAssumption
<1>5. QED
  BY <1>1, <1>3, <1>4 DEF IInv

\* Every step keeps the invariant.
LEMMA NextSound == ASSUME IInv, [Next]_vars PROVE IInv'
<1>1. CASE \E m \in Msgs, id \in Ids : New(m, id) \/ SetId(m, id)
  BY <1>1, NewSound, SetIdSound
<1>2. CASE \E m \in Msgs : Destroy(m) \/ AddPart(m) \/ GetBuffer(m)
  BY <1>2, DestroySound, AddPartSound, GetBufferSound
<1>3. CASE \E w \in Writes : WriteValue(w) \/ GetValue(w.type)
  BY <1>3, WriteValueSound, GetValueSound
<1>4. CASE \E m \in Msgs, i \in 0..MaxParts : GetPart(m, i)
  BY <1>4, GetPartSound
<1>5. CASE \E m, n \in Msgs : Copy(m, n)
  BY <1>5, CopySound
<1>6. CASE \E m \in Msgs : FromBuffer(m)
  BY <1>6, FromBufferSound
<1>7. CASE Damage
  BY <1>7, DamageSound
<1>8. CASE UNCHANGED vars
  BY <1>8 DEF vars, IInv
<1>9. QED
  BY <1>1, <1>2, <1>3, <1>4, <1>5, <1>6, <1>7, <1>8, Zenon DEF Next

\* The invariant holds in every state.
LEMMA Invariance == Spec => []IInv
<1>1. IInv /\ [Next]_vars => IInv'
  BY NextSound
<1>2. QED
  BY InitSound, <1>1, PTL DEF Spec

-----------------------------------------------------------------------------
(* Theorems *)

\* The types of the variables.
THEOREM TypesHold == Spec => []TypeOK
<1>1. IInv => TypeOK
  <2>1. WellFormed \subseteq Message
    <3>1. \A s \in Seq(Copies) : s \in Seq(Parts)
      BY SeqMonotonic DEF Copies
    <3>2. QED
      BY <3>1 DEF WellFormed, Message
  <2>2. QED
    BY <2>1 DEF IInv, TypeOK
<1>2. QED
  BY <1>1, Invariance, PTL

\* get_buffer fills the block it allocates exactly, whatever the message is made of
\* and however it was made (MsgBuffer.c: the assertion nwritten == length).
THEOREM LengthsAreExact == Spec => []LengthExact
<1>1. IInv => LengthExact
  BY HeldIs, EncodeIs, MsgBufferAssumption DEF LengthExact
<1>2. QED
  BY <1>1, Invariance, PTL

\* The messages are shorter than 2^32 bytes.
LengthsFit == \A m \in Msgs : Held(m) => Fits32(msgs[m].length)

\* A message that is short enough for its length to be written in 32 bits is read
\* back from what it is written as (msg_buffer_get_buffer, msg_buffer_from_buffer).
THEOREM WrittenIsReadBack == Spec => [](LengthsFit => RoundTrip)
<1>1. IInv => (LengthsFit => RoundTrip)
  <2> SUFFICES ASSUME IInv, LengthsFit, NEW m \in Msgs, NEW junk \in DamageBytes,
                      Held(m), AllSet(msgs[m]), StringsWhole(msgs[m])
               PROVE  Decode(Encode(msgs[m], junk)) = [valid |-> TRUE, msg |-> msgs[m]]
    BY Zenon DEF RoundTrip
  <2>1. msgs[m] \in WellFormed /\ Fits32(msgs[m].length) /\ junk \in Byte
    BY HeldIs, MsgBufferAssumption DEF LengthsFit
  <2>2. QED
    BY <2>1, DecodeEncode
<1>2. QED
  BY <1>1, Invariance, PTL

\* A buffer is accepted only as a message that is written as those bytes, up to a
\* length below that of a header and a string with a 0 byte in it.
THEOREM AcceptedIsExact == Spec => AcceptedIsWhatWasRead
<1> DEFINE Accepted ==
             \A m \in Msgs, junk \in DamageBytes :
               FromBuffer(m) /\ msgs'[m] # NULL /\ StringsWhole(msgs'[m])
                 /\ Declared(buffer) >= HeaderSize =>
                   Encode(msgs'[m], junk) = SubSeq(buffer, 1, Declared(buffer))
<1>1. ASSUME IInv, NEW m \in Msgs, NEW junk \in DamageBytes,
             FromBuffer(m), msgs'[m] # NULL, StringsWhole(msgs'[m]),
             Declared(buffer) >= HeaderSize
      PROVE  Encode(msgs'[m], junk) = SubSeq(buffer, 1, Declared(buffer))
  <2> DEFINE read == Decode(buffer)
  <2>1. buffer \in Seq(Byte) /\ junk \in Byte /\ msgs[m] = NULL
    BY <1>1, MsgBufferAssumption DEF FromBuffer, IInv, Held
  <2>2. read.valid /\ msgs' = [msgs EXCEPT ![m] = read.msg]
    BY <1>1, <2>1, Zenon DEF FromBuffer
  <2>3. msgs'[m] = read.msg
    <3> HIDE DEF read
    <3>1. QED
      BY <1>1, <2>2 DEF IInv
  <2>4. QED
    BY <1>1, <2>1, <2>2, <2>3, DecodeAccepts
<1>2. IInv => Accepted
  BY <1>1, Zenon
<1>3. IInv /\ [Next]_vars => [Accepted]_vars
  BY <1>2
<1>4. QED
  BY Invariance, <1>3, PTL DEF Spec, AcceptedIsWhatWasRead

\* Parts of the same lengths are written as the same number of bytes.
LEMMA PayloadLength ==
  ASSUME NEW s \in Seq(SetParts), NEW t \in Seq(SetParts), NEW junk \in Byte,
         Len(t) = Len(s), \A i \in 1 .. Len(s) : t[i].length = s[i].length
  PROVE  Len(Payload(t, junk)) = Len(Payload(s, junk))
<1> DEFINE G == {u \in Seq(SetParts) : \A v \in Seq(SetParts) :
                   Len(v) = Len(u) /\ (\A i \in 1 .. Len(u) : v[i].length = u[i].length)
                     => Len(Payload(v, junk)) = Len(Payload(u, junk))}
<1>1. <<>> \in G
  <2>1. <<>> \in Seq(SetParts) /\ Len(<<>>) = 0
    BY EmptySeq
  <2>2. \A v \in Seq(SetParts) : Len(v) = 0 => v = <<>>
    BY EmptySeq
  <2>3. QED
    BY <2>1, <2>2
<1>2. ASSUME NEW u \in Seq(SetParts), NEW x \in SetParts, u \in G
      PROVE  Append(u, x) \in G
  <2> DEFINE n == Len(u)
             w == Append(u, x)
  <2>1. /\ n \in Nat /\ w \in Seq(SetParts) /\ Len(w) = n + 1
        /\ \A i \in 1 .. n : w[i] = u[i]
        /\ w[n + 1] = x
    BY AppendProperties, LenProperties
  <2>2. ASSUME NEW v \in Seq(SetParts), Len(v) = n + 1,
               \A i \in 1 .. n + 1 : v[i].length = w[i].length
        PROVE  Len(Payload(v, junk)) = Len(Payload(w, junk))
    <3> DEFINE r == [i \in 1 .. n |-> v[i]]
               y == v[n + 1]
    <3>1. \A i \in 1 .. n + 1 : v[i] \in SetParts
      BY <2>1, <2>2, ElementOfSeq
    <3>2. /\ r \in Seq(SetParts) /\ Len(r) = n
          /\ \A i \in 1 .. n : r[i] = v[i]
          /\ y \in SetParts /\ y.length = x.length
      BY <2>1, <2>2, <3>1
    <3> HIDE DEF r, y
    <3>3. v = Append(r, y)
      <4> DEFINE z == Append(r, y)
      <4>1. /\ z \in Seq(SetParts) /\ Len(z) = n + 1
            /\ \A i \in 1 .. n : z[i] = r[i]
            /\ z[n + 1] = y
        BY <2>1, <3>2, AppendProperties
      <4> HIDE DEF z
      <4>2. \A i \in 1 .. n + 1 : z[i] = v[i]
        <5>1. \A i \in 1 .. n + 1 : i \in 1 .. n \/ i = n + 1
          BY <2>1
        <5>2. z[n + 1] = v[n + 1]
          BY <4>1 DEF y
        <5>3. \A i \in 1 .. n : z[i] = v[i]
          BY <3>2, <4>1
        <5> HIDE DEF n
        <5>4. QED
          BY <5>1, <5>2, <5>3
      <4>3. v = [i \in 1 .. n + 1 |-> v[i]] /\ z = [i \in 1 .. n + 1 |-> z[i]]
        BY <2>2, <4>1
      <4>4. v = z
        BY <4>2, <4>3
      <4>5. QED
        BY <4>4 DEF z
    <3>4. Len(Payload(r, junk)) = Len(Payload(u, junk))
      <4>1. \A i \in 1 .. n : r[i].length = u[i].length
        BY <2>1, <2>2, <3>2
      <4>2. QED
        BY <1>2, <3>2, <4>1
    <3>5. /\ Payload(v, junk) = Payload(r, junk) \o PartBytes(y, junk)
          /\ Payload(w, junk) = Payload(u, junk) \o PartBytes(x, junk)
      BY <1>2, <3>2, <3>3, PayloadAppend
    <3>6. /\ Payload(r, junk) \in Seq(Byte) /\ Payload(u, junk) \in Seq(Byte)
          /\ PartBytes(y, junk) \in Seq(Byte) /\ PartBytes(x, junk) \in Seq(Byte)
          /\ Len(PartBytes(y, junk)) = y.length /\ Len(PartBytes(x, junk)) = x.length
      BY <1>2, <3>2, PayloadType, PartBytesAre
    <3>7. /\ Len(Payload(v, junk)) = Len(Payload(r, junk)) + Len(PartBytes(y, junk))
          /\ Len(Payload(w, junk)) = Len(Payload(u, junk)) + Len(PartBytes(x, junk))
      BY <3>5, <3>6, Longer
    <3>8. QED
      BY <3>2, <3>4, <3>6, <3>7
  <2>3. QED
    BY <2>1, <2>2
<1> HIDE DEF G
<1>3. Seq(SetParts) \subseteq G
  BY <1>1, <1>2, EverySequence
<1>4. QED
  BY <1>3 DEF G

\* A number has four bytes or eight.
LEMMA NumberBytes ==
  ASSUME NEW p \in Parts, p.type \in Floating
  PROVE  /\ p.type \in Narrow \cup Wide /\ p \in Numbers /\ IsSet(p)
         /\ p.value \in Seq(Byte) /\ Len(p.value) \in {4, 8}
         /\ Len(p.value) = Width(p.type) /\ p.length = 1 + Width(p.type)
<1>1. p.type \in Narrow \cup Wide
  BY DEF Floating, Narrow, Wide
<1>2. p \in Numbers
  BY <1>1, PartIs
<1>3. QED
  BY <1>1, <1>2, TypeNumbers DEF Numbers, IsSet

\* A number without the sign of zero is still one, of the same type.
LEMMA PositiveIs ==
  ASSUME NEW p \in Copies, IsSet(p)
  PROVE  LET q == PositiveZero(p)
         IN  /\ q \in Copies /\ q \in SetParts /\ IsSet(q)
             /\ q.type = p.type /\ q.length = p.length
             /\ p.type = STRING_T => q = p
<1> DEFINE q == PositiveZero(p)
<1>1. p \in Parts /\ p \in SetParts
  BY PartIs DEF Copies
<1>2. CASE q = p
  BY <1>1, <1>2
<1>3. CASE q # p
  <2> DEFINE z == [i \in DOMAIN p.value |-> 0]
  <2>1. p.type \in Floating /\ q = [p EXCEPT !.value = z]
    BY <1>3 DEF PositiveZero
  <2>2. /\ p.type \in Narrow \cup Wide /\ p \in Numbers /\ p.value \in Seq(Byte)
        /\ Len(p.value) = Width(p.type) /\ p.length = 1 + Width(p.type)
        /\ Len(p.value) \in {4, 8}
    BY <1>1, <2>1, NumberBytes
  <2>3. z \in Seq(Byte) /\ Len(z) = Len(p.value)
    <3>1. 0 \in Byte /\ DOMAIN p.value = 1 .. Len(p.value) /\ Len(p.value) \in Nat
      BY <2>2, LenProperties DEF Byte
    <3>2. QED
      BY <3>1
  <2> HIDE DEF z
  <2>4. /\ q \in [type : Narrow \cup Wide, value : Seq(Byte), length : Nat]
        /\ q.type = p.type /\ q.value = z /\ q.length = p.length
    BY <2>1, <2>2, <2>3 DEF Numbers
  <2> HIDE DEF q
  <2>5. q \in Numbers
    BY <2>2, <2>3, <2>4 DEF Numbers
  <2>6. p.type # STRING_T
    BY <2>2, TypeNumbers
  <2>7. q \in Copies /\ q \in SetParts /\ IsSet(q)
    BY <2>4, <2>5, <2>6 DEF Copies, Parts, SetParts, IsSet
  <2>8. QED
    BY <2>4, <2>6, <2>7 DEF q
<1>4. QED
  BY <1>2, <1>3

\* A message without the signs of zeros is a message of the same length.
LEMMA PositiveMsgIs ==
  ASSUME NEW m \in WellFormed, AllSet(m), StringsWhole(m)
  PROVE  LET w == PositiveZeros(m)
         IN  /\ w \in WellFormed /\ AllSet(w) /\ StringsWhole(w)
             /\ w.id = m.id /\ w.length = m.length
             /\ w.parts = [i \in 1 .. Len(m.parts) |-> PositiveZero(m.parts[i])]
<1> DEFINE w == PositiveZeros(m)
           s == m.parts
           n == Len(s)
           t == [i \in 1 .. n |-> PositiveZero(s[i])]
<1>1. /\ s \in Seq(Copies) /\ s \in Seq(SetParts) /\ n \in Nat
      /\ DOMAIN s = 1 .. n
      /\ m = [id |-> m.id, length |-> m.length, parts |-> s]
      /\ m.id \in Byte \X Byte /\ m.length \in Nat /\ m.length >= HeaderSize
  BY AllSetParts, LenProperties DEF WellFormed
<1>2. w = [id |-> m.id, length |-> m.length, parts |-> t]
  <2>1. w = [m EXCEPT !.parts = [i \in DOMAIN s |-> PositiveZero(s[i])]]
    BY Zenon DEF PositiveZeros
  <2>2. w = [m EXCEPT !.parts = t]
    BY <1>1, <2>1
  <2> HIDE DEF s, t, w
  <2>3. QED
    BY <1>1, <2>2
<1>3. w.id = m.id /\ w.length = m.length /\ w.parts = t
  BY <1>2
<1> HIDE DEF w
<1>4. ASSUME NEW i \in 1 .. n
      PROVE  /\ t[i] \in Copies /\ t[i] \in SetParts /\ IsSet(t[i])
             /\ t[i].length = s[i].length
             /\ t[i].type = STRING_T => Len(t[i].value) = t[i].length - StringHeader
  <2>1. s[i] \in Copies /\ IsSet(s[i])
    BY <1>1, ElementOfSeq DEF AllSet
  <2>2. t[i] = PositiveZero(s[i])
    OBVIOUS
  <2>3. s[i].type = STRING_T => Len(s[i].value) = s[i].length - StringHeader
    BY <1>1 DEF StringsWhole
  <2> HIDE DEF s, t
  <2>4. QED
    BY <2>1, <2>2, <2>3, PositiveIs
<1>5. /\ t \in Seq(Copies) /\ t \in Seq(SetParts) /\ Len(t) = n /\ DOMAIN t = 1 .. n
  <2>1. \A i \in 1 .. n : t[i] \in Copies /\ t[i] \in SetParts
    BY <1>4
  <2>2. t = [i \in 1 .. n |-> t[i]] /\ DOMAIN t = 1 .. n
    OBVIOUS
  <2> HIDE DEF t
  <2>3. QED
    BY <1>1, <2>1, <2>2
<1>6. AllSet(w) /\ StringsWhole(w)
  BY <1>3, <1>4, <1>5, Zenon DEF AllSet, StringsWhole
<1>7. ASSUME NEW junk \in Byte PROVE Len(Payload(t, junk)) = m.length - HeaderSize
  <2>1. Len(Payload(s, junk)) = m.length - HeaderSize
    BY DEF WellFormed
  <2>2. Len(Payload(t, junk)) = Len(Payload(s, junk))
    <3> HIDE DEF s, t
    <3>1. QED
      BY <1>1, <1>4, <1>5, PayloadLength
  <2>3. QED
    BY <2>1, <2>2
<1>8. w \in WellFormed
  BY <1>1, <1>2, <1>3, <1>5, <1>7 DEF WellFormed
<1>9. QED
  BY <1>3, <1>6, <1>8 DEF w

\* What is no number is not zero.
LEMMA NaNIsNotZero ==
  ASSUME NEW v \in Seq(Byte), Len(v) \in {4, 8}, IsNaN(v)
  PROVE  ~ IsZero(v)
<1>1. /\ DOMAIN v = 1 .. Len(v) /\ Len(v) \in DOMAIN v
  BY LenProperties
<1>2. v[Len(v)] % 128 = 127
  BY DEF IsNaN
<1>3. 0 % 128 = 0 /\ 128 % 128 = 0
  OBVIOUS
<1>4. QED
  BY <1>1, <1>2, <1>3 DEF IsZero

\* Two parts are equal when they are the same, up to the sign of zero, and numbers.
LEMMA SamePart ==
  ASSUME NEW p \in Copies, NEW q \in Copies, IsSet(p), IsSet(q),
         p.type = STRING_T => Len(p.value) = p.length - StringHeader,
         q.type = STRING_T => Len(q.value) = q.length - StringHeader
  PROVE  EqualParts(p, q)
           <=> /\ PositiveZero(p) = PositiveZero(q)
               /\ ~ (p.type \in Floating /\ IsNaN(p.value))
<1>1. /\ p \in Parts /\ q \in Parts /\ p.type # NOT_INIT /\ q.type # NOT_INIT
      /\ p = [type |-> p.type, value |-> p.value, length |-> p.length]
      /\ q = [type |-> q.type, value |-> q.value, length |-> q.length]
      /\ PositiveZero(p).type = p.type /\ PositiveZero(q).type = q.type
  BY PartIs, PositiveIs DEF Copies, IsSet
<1>2. CASE p.type # q.type
  BY <1>1, <1>2 DEF EqualParts
<1>3. CASE p.type = q.type /\ p.type \notin Floating
  <2>1. PositiveZero(p) = p /\ PositiveZero(q) = q
    BY <1>3 DEF PositiveZero
  <2>2. p.value = q.value => p.length = q.length
    <3>1. CASE p.type = STRING_T
      <4>1. p.length \in Nat /\ q.length \in Nat /\ StringHeader = 5
            /\ Len(p.value) \in Nat
        BY <1>1, PartIs, TypeNumbers, LenProperties
      <4>2. QED
        BY <1>3, <3>1, <4>1
    <3>2. CASE p.type # STRING_T
      <4>1. p \in Numbers /\ q \in Numbers
        BY <1>1, <1>3, <3>2, PartIs DEF IsSet, SetParts
      <4>2. QED
        BY <1>3, <4>1 DEF Numbers
    <3>3. QED
      BY <3>1, <3>2
  <2>3. p = q <=> p.value = q.value
    BY <1>1, <1>3, <2>2
  <2>4. EqualParts(p, q) <=> p.value = q.value
    BY <1>1, <1>3 DEF EqualParts, SameValue
  <2>5. QED
    BY <1>3, <2>1, <2>3, <2>4
<1>4. CASE p.type = q.type /\ p.type \in Floating
  <2> DEFINE v == p.value
             w == q.value
             n == Len(v)
             zeros == [i \in 1 .. n |-> 0]
             x == IF IsZero(v) THEN zeros ELSE v
             y == IF IsZero(w) THEN zeros ELSE w
  <2>1. /\ v \in Seq(Byte) /\ w \in Seq(Byte) /\ n \in {4, 8} /\ Len(w) = n
        /\ p.length = q.length
    BY <1>1, <1>4, NumberBytes
  <2>2. DOMAIN v = 1 .. n /\ DOMAIN w = 1 .. n /\ n \in Nat
    BY <2>1, LenProperties
  <2>3. /\ PositiveZero(p) = [type |-> p.type, value |-> x, length |-> p.length]
        /\ PositiveZero(q) = [type |-> q.type, value |-> y, length |-> q.length]
    <3>1. ASSUME NEW r \in Copies, r.type \in Floating, Len(r.value) = n,
                 r = [type |-> r.type, value |-> r.value, length |-> r.length],
                 DOMAIN r.value = 1 .. n
          PROVE  PositiveZero(r) =
                   [type |-> r.type, length |-> r.length,
                    value |-> IF IsZero(r.value) THEN zeros ELSE r.value]
      BY <3>1 DEF PositiveZero
    <3>2. QED
      BY <1>1, <1>4, <2>1, <2>2, <3>1
  <2>4. IsZero(zeros) /\ Len(zeros) = n /\ zeros \in Seq(Byte)
    BY <2>2 DEF IsZero, Byte
  <2>5. /\ IsNaN(v) => ~ IsZero(v)
        /\ IsNaN(w) => ~ IsZero(w)
        /\ ~ IsNaN(zeros)
    BY <2>1, <2>4, NaNIsNotZero
  <2>6. PositiveZero(p) = PositiveZero(q) <=> x = y
    <3> HIDE DEF x, y
    <3>1. QED
      BY <1>4, <2>1, <2>3
  <2>7. EqualParts(p, q) <=> /\ ~ IsNaN(v) /\ ~ IsNaN(w)
                             /\ v = w \/ (IsZero(v) /\ IsZero(w))
    BY <1>1, <1>4 DEF EqualParts, SameValue
  <2>8. (~ IsNaN(v) /\ ~ IsNaN(w) /\ (v = w \/ (IsZero(v) /\ IsZero(w))))
          <=> (x = y /\ ~ IsNaN(v))
    <3> HIDE DEF v, w, zeros
    <3>1. QED
      BY <2>4, <2>5
  <2>9. QED
    BY <1>4, <2>6, <2>7, <2>8
<1>5. QED
  BY <1>2, <1>3, <1>4

\* Messages of equally many parts are compared part by part.
LEMMA EqualResultIs ==
  ASSUME NEW m \in WellFormed, NEW n \in WellFormed,
         Len(m.parts) = Len(n.parts), Len(m.parts) > 0
  PROVE  EqualResult(m, n) = "true"
           <=> /\ m.id = n.id /\ m.length = n.length
               /\ \A i \in 1 .. Len(m.parts) : EqualParts(m.parts[i], n.parts[i])
<1>1. DOMAIN m.parts = 1 .. Len(m.parts)
  BY AllSetParts, LenProperties
<1>2. CASE m.id # n.id \/ m.length # n.length
  BY <1>2 DEF EqualResult
<1>3. CASE m.id = n.id /\ m.length = n.length
  <2> DEFINE alike == \A i \in DOMAIN m.parts : EqualParts(m.parts[i], n.parts[i])
             some  == CASE Len(m.parts) # Len(n.parts) -> "true"
                        [] Len(m.parts) = 0 /\ Len(n.parts) = 0 -> "not set"
                        [] OTHER -> IF alike THEN "true" ELSE "false"
  <2>1. EqualResult(m, n) = some
    <3>1. EqualResult(m, n) = CASE m.id # n.id \/ m.length # n.length -> "false"
                                [] OTHER -> some
      BY Zenon DEF EqualResult
    <3> HIDE DEF some
    <3>2. QED
      BY <1>3, <3>1
  <2>2. some = IF alike THEN "true" ELSE "false"
    <3> HIDE DEF alike
    <3> DEFINE k == Len(m.parts)
               l == Len(n.parts)
    <3>1. k = l /\ k # 0
      OBVIOUS
    <3>2. some = CASE k # l -> "true"
                   [] k = 0 /\ l = 0 -> "not set"
                   [] OTHER -> IF alike THEN "true" ELSE "false"
      BY Zenon
    <3> HIDE DEF k, l, some
    <3>3. QED
      BY <3>1, <3>2
  <2>3. EqualResult(m, n) = "true" <=> alike
    <3> HIDE DEF alike, some
    <3>1. QED
      BY <2>1, <2>2
  <2>4. QED
    BY <1>1, <1>3, <2>3
<1>4. QED
  BY <1>2, <1>3

\* see_object_equal and get_buffer agree on what a message is: messages that are
\* short enough, complete, and of equally many parts are equal exactly when they
\* are written as the same bytes, up to the sign of zeros, and hold nothing that is
\* no number (msg_buffer_equal, msg_part_equal, msg_buffer_get_buffer).
THEOREM EqualsAreExact == Spec => [](LengthsFit => EqualIsExact)
<1>1. ASSUME NEW m \in WellFormed, NEW n \in WellFormed, NEW junk \in Byte,
             Fits32(m.length), Fits32(n.length), Comparable(m, n)
      PROVE  EqualResult(m, n) = "true"
               <=> /\ ~ HasNaN(m)
                   /\ Encode(PositiveZeros(m), junk) = Encode(PositiveZeros(n), junk)
  <2> DEFINE v == PositiveZeros(m)
             w == PositiveZeros(n)
             k == Len(m.parts)
  <2>1. /\ Len(n.parts) = k /\ k > 0 /\ AllSet(m) /\ AllSet(n)
        /\ StringsWhole(m) /\ StringsWhole(n)
    BY <1>1, Zenon DEF Comparable
  <2>2. /\ v \in WellFormed /\ AllSet(v) /\ StringsWhole(v)
        /\ v.id = m.id /\ v.length = m.length
        /\ v.parts = [i \in 1 .. k |-> PositiveZero(m.parts[i])]
    BY <2>1, PositiveMsgIs, Zenon
  <2>3. /\ w \in WellFormed /\ AllSet(w) /\ StringsWhole(w)
        /\ w.id = n.id /\ w.length = n.length
        /\ w.parts = [i \in 1 .. k |-> PositiveZero(n.parts[i])]
    BY <2>1, PositiveMsgIs, Zenon
  <2> HIDE DEF v, w
  <2>4. Encode(v, junk) = Encode(w, junk) <=> v = w
    <3>1. /\ Decode(Encode(v, junk)) = [valid |-> TRUE, msg |-> v]
          /\ Decode(Encode(w, junk)) = [valid |-> TRUE, msg |-> w]
      BY <1>1, <2>2, <2>3, DecodeEncode
    <3>2. QED
      BY <3>1
  <2>5. v = w <=> v.id = w.id /\ v.length = w.length /\ v.parts = w.parts
    <3>1. /\ v = [id |-> v.id, length |-> v.length, parts |-> v.parts]
          /\ w = [id |-> w.id, length |-> w.length, parts |-> w.parts]
      <4>1. ASSUME NEW x \in WellFormed
            PROVE  x = [id |-> x.id, length |-> x.length, parts |-> x.parts]
        BY DEF WellFormed
      <4>2. QED
        BY <2>2, <2>3, <4>1
    <3>2. QED
      BY <3>1
  <2>6. v.parts = w.parts <=>
          \A i \in 1 .. k : PositiveZero(m.parts[i]) = PositiveZero(n.parts[i])
    BY <2>2, <2>3
  <2>7. ASSUME NEW i \in 1 .. k
        PROVE  EqualParts(m.parts[i], n.parts[i])
                 <=> /\ PositiveZero(m.parts[i]) = PositiveZero(n.parts[i])
                     /\ ~ (m.parts[i].type \in Floating /\ IsNaN(m.parts[i].value))
    <3>1. /\ m.parts \in Seq(Copies) /\ n.parts \in Seq(Copies)
          /\ DOMAIN m.parts = 1 .. k /\ DOMAIN n.parts = 1 .. k
      BY <2>1, AllSetParts, LenProperties
    <3>2. /\ m.parts[i] \in Copies /\ n.parts[i] \in Copies
          /\ IsSet(m.parts[i]) /\ IsSet(n.parts[i])
      BY <2>1, <3>1, ElementOfSeq DEF AllSet
    <3>3. /\ m.parts[i].type = STRING_T =>
               Len(m.parts[i].value) = m.parts[i].length - StringHeader
          /\ n.parts[i].type = STRING_T =>
               Len(n.parts[i].value) = n.parts[i].length - StringHeader
      BY <2>1, <3>1 DEF StringsWhole
    <3>4. QED
      BY <3>2, <3>3, SamePart
  <2>8. HasNaN(m) <=> \E i \in 1 .. k :
          m.parts[i].type \in Floating /\ IsNaN(m.parts[i].value)
    <3>1. DOMAIN m.parts = 1 .. k
      BY AllSetParts, LenProperties
    <3>2. QED
      BY <3>1 DEF HasNaN
  <2>9. EqualResult(m, n) = "true"
          <=> /\ m.id = n.id /\ m.length = n.length
              /\ \A i \in 1 .. k : EqualParts(m.parts[i], n.parts[i])
    BY <2>1, EqualResultIs, Zenon
  <2> HIDE DEF k
  <2>10. EqualResult(m, n) = "true" <=> ~ HasNaN(m) /\ v = w
    BY <2>2, <2>3, <2>5, <2>6, <2>7, <2>8, <2>9, Zenon
  <2>11. QED
    BY <2>4, <2>10, Zenon DEF v, w
<1>2. ASSUME IInv, LengthsFit PROVE EqualIsExact
  <2>1. SUFFICES ASSUME NEW m \in Msgs, NEW n \in Msgs, NEW junk \in DamageBytes,
                        Held(m), Held(n), Comparable(msgs[m], msgs[n])
                 PROVE  EqualResult(msgs[m], msgs[n]) = "true"
                          <=> /\ ~ HasNaN(msgs[m])
                              /\ Encode(PositiveZeros(msgs[m]), junk)
                                   = Encode(PositiveZeros(msgs[n]), junk)
    BY Zenon DEF EqualIsExact
  <2>2. /\ msgs[m] \in WellFormed /\ msgs[n] \in WellFormed /\ junk \in Byte
        /\ Fits32(msgs[m].length) /\ Fits32(msgs[n].length)
    BY <1>2, <2>1, HeldIs, MsgBufferAssumption DEF LengthsFit
  <2>3. QED
    BY <1>1, <2>1, <2>2, Zenon
<1>3. IInv => (LengthsFit => EqualIsExact)
  BY <1>2
<1>4. QED
  BY <1>3, Invariance, PTL
=============================================================================
