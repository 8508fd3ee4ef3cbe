----------------------------- MODULE MsgFormat -----------------------------
(* Messages and their parts as values, and how they are written as bytes and read
   back (MsgBuffer.c).

   A value is the sequence of its bytes in the order of the (little-endian) host;
   the network order is the reverse of it.  Strings are C strings: strdup stops
   at the first 0 byte.  A length is never large enough to wrap around in 32
   bits. *)
EXTENDS Naturals, SequencesExt

Byte == 0..255

(* see_msg_part_value_t *)

NOT_INIT == 0
INT32_T  == 1
INT64_T  == 2
UINT32_T == 3
UINT64_T == 4
STRING_T == 5
FLOAT_T  == 6
DOUBLE_T == 7

Narrow == {INT32_T, UINT32_T, FLOAT_T}
Wide   == {INT64_T, UINT64_T, DOUBLE_T}

Floating == {FLOAT_T, DOUBLE_T}

Width(t) == IF t \in Narrow THEN 4 ELSE 8

IsSet(p) == p.type # NOT_INIT

Start        == <<83, 77, 83, 71>>   \* "SMSG"
HeaderSize   == Len(Start) + 2 + 4   \* start, id, length
StringHeader == 1 + 4                \* type, length

\* see_host_to_network16, 32 and 64, and back.
SwapBytes(v) == Reverse(v)

\* A uint32_t in network order, and the number that such bytes stand for.
NetworkBytes(n) ==
    LET tail == n \div 256
        rest == tail \div 256
    IN  <<(rest \div 256) % 256, rest % 256, tail % 256, n % 256>>
HostNumber(b) == 256 * (256 * (256 * b[1] + b[2]) + b[3]) + b[4]

\* The numbers that a uint32_t can hold.
Fits32(n) == ((n \div 256) \div 256) \div 256 \in Byte

\* What strdup copies of bytes that a 0 byte follows.
CString(s) == SubSeq(s, 1, Min({i \in 1..Len(s) : s[i] = 0} \cup {Len(s) + 1}) - 1)

NoZero(s) == \A i \in 1..Len(s) : s[i] # 0

----------------------------------------------------------------------------
(* Parts *)

NewPart == [type |-> NOT_INIT, value |-> <<>>, length |-> 0]

\* The parts there can be: a number has as many bytes as its type, and a string at
\* most as many as its length says.
Numbers ==
    {p \in [type : Narrow \cup Wide, value : Seq(Byte), length : Nat] :
        Len(p.value) = Width(p.type) /\ p.length = 1 + Width(p.type)}

Strings ==
    {p \in [type : {STRING_T}, value : Seq(Byte), length : Nat] :
        p.length >= StringHeader + Len(p.value)}

Parts == {NewPart} \cup Numbers \cup Strings

\* A part after one of the write functions, for strings with length = strlen.
WrittenPart(w) ==
    [type |-> w.type, value |-> w.value,
     length |-> Len(w.value) + IF w.type = STRING_T THEN StringHeader ELSE 1]

\* A string is copied by strdup, but keeps its length.
CopyPart(p) == IF p.type = STRING_T THEN [p EXCEPT !.value = CString(@)] ELSE p

\* The bytes a part is written as.  When a string is shorter than its length
\* says, memcpy goes on behind its end: junk is what it finds there.
PartBytes(p, junk) ==
    IF p.type = STRING_T
    THEN <<STRING_T>> \o NetworkBytes(p.length)
         \o [i \in 1..(p.length - StringHeader) |->
                IF i <= Len(p.value) THEN p.value[i] ELSE junk]
    ELSE <<p.type>> \o SwapBytes(p.value)

Invalid == [valid |-> FALSE]

\* Mutant: A string that fills the message to its end refused.
ReadPartTight(bytes, pos, size) ==
    LET length == HostNumber(SubSeq(bytes, pos + 2, pos + 5))
    IN  IF size > StringHeader /\ bytes[pos + 1] = STRING_T
             /\ length \in StringHeader..(size - 1)
        THEN [valid |-> TRUE, size |-> length,
              part |-> WrittenPart([type |-> STRING_T, value |->
                  SubSeq(bytes, pos + 1 + StringHeader, pos + length)])]
        ELSE Invalid

\* What is read from position pos, of which size bytes belong to the message.
\* A string of fewer than five bytes is refused: its length, part of which is
\* then read from behind the message, is either too small or larger than size.
ReadPart(bytes, pos, size) ==
    LET type   == bytes[pos + 1]
        length == HostNumber(SubSeq(bytes, pos + 2, pos + 5))
    IN  CASE type \in Narrow \cup Wide /\ size >= 1 + Width(type) ->
               [valid |-> TRUE, size |-> 1 + Width(type),
                part |-> WrittenPart([type |-> type, value |->
                    SwapBytes(SubSeq(bytes, pos + 2, pos + 1 + Width(type)))])]
          [] type = STRING_T /\ size >= StringHeader
                /\ length \in StringHeader..size ->
               [valid |-> TRUE, size |-> length,
                part |-> WrittenPart([type |-> STRING_T, value |->
                    SubSeq(bytes, pos + 1 + StringHeader, pos + length)])]
          [] OTHER -> Invalid

----------------------------------------------------------------------------
(* Messages *)

NewMsg(id) == [id |-> id, length |-> HeaderSize, parts |-> <<>>]

\* Mutant: The length of the payload added, instead of that of the part.
WithPartPayload(msg, p) ==
    [msg EXCEPT !.parts  = Append(@, CopyPart(p)),
                !.length = @ + Len(p.value)]

\* A part is copied in, and counted in the length of the message when it is set.
WithPart(msg, p) ==
    [msg EXCEPT !.parts  = Append(@, CopyPart(p)),
                !.length = IF IsSet(p) THEN @ + p.length ELSE @]

AllSet(msg) == \A i \in DOMAIN msg.parts : IsSet(msg.parts[i])

\* No string of the message ends before its length says.
StringsWhole(msg) ==
    \A i \in DOMAIN msg.parts :
        LET p == msg.parts[i]
        IN  p.type = STRING_T => Len(p.value) = p.length - StringHeader

\* Parts added one after the other.
WithParts(msg, parts) ==
    LET added[i \in 0..Len(parts)] ==
            IF i = 0 THEN msg ELSE WithPart(added[i - 1], parts[i])
    IN  added[Len(parts)]

\* A message is copied part by part.
CopyMsg(msg) == WithParts(NewMsg(msg.id), msg.parts)

Encode(msg, junk) ==
    Start \o SwapBytes(msg.id) \o NetworkBytes(msg.length)
    \o FlattenSeq([i \in DOMAIN msg.parts |-> PartBytes(msg.parts[i], junk)])

\* The length that a buffer with a whole header declares.
Declared(bytes) == HostNumber(SubSeq(bytes, 7, 10))

\* Mutant: Only the size of the buffer tested, and not its start.
HeaderIsReadSize(bytes) ==
    Len(bytes) >= HeaderSize /\ Declared(bytes) <= Len(bytes)

HeaderIsRead(bytes) ==
    /\ Len(bytes) >= HeaderSize
    /\ SubSeq(bytes, 1, Len(Start)) = Start
    /\ Declared(bytes) <= Len(bytes)

\* The parts that are read from each position on, until the declared length is
\* reached; a length below that of a header ends the loop of from_buffer at once.
PartsFrom(bytes, length) ==
    LET from[pos \in HeaderSize..Len(bytes)] ==
            IF pos >= length THEN [valid |-> TRUE, parts |-> <<>>]
            ELSE LET first == ReadPart(bytes, pos, length - pos)
                     rest  == from[pos + first.size]
                 IN  IF first.valid /\ rest.valid
                     THEN [valid |-> TRUE, parts |-> <<first.part>> \o rest.parts]
                     ELSE Invalid
    IN  from

\* from_buffer: the parts are added to a new message.
Decode(bytes) ==
    LET read == PartsFrom(bytes, Declared(bytes))[HeaderSize]
    IN  IF HeaderIsRead(bytes) /\ read.valid
        THEN [valid |-> TRUE,
              msg   |-> WithParts(NewMsg(SwapBytes(SubSeq(bytes, 5, 6))), read.parts)]
        ELSE Invalid

\* The bytes of a float or double (IEEE 754) that is 0 or -0, or no number at all.
IsZero(v) == \A i \in DOMAIN v : v[i] = 0 \/ (i = Len(v) /\ v[i] = 128)
IsNaN(v) ==
    LET n        == Len(v)
        infinite == IF n = 4 THEN 128 ELSE 240
    IN  /\ v[n] % 128 = 127
        /\ \/ v[n - 1] > infinite
           \/ v[n - 1] = infinite /\ \E i \in 1..(n - 2) : v[i] # 0

\* Values of the same type, compared by strcmp or by the == of C.
SameValue(p, q) ==
    IF p.type \in Floating
    THEN /\ ~IsNaN(p.value) /\ ~IsNaN(q.value)
         /\ p.value = q.value \/ (IsZero(p.value) /\ IsZero(q.value))
    ELSE p.value = q.value

\* Mutant: Values compared by memcmp, floats and doubles too.
EqualPartsBytes(p, q) ==
    /\ p.type = q.type
    /\ p.type # NOT_INIT => p.value = q.value

\* Parts are equal when type and value are.  That the lengths of two strings differ
\* is found, too, and then forgotten: *result is set again.
EqualParts(p, q) ==
    /\ p.type = q.type
    /\ p.type # NOT_INIT => SameValue(p, q)

\* The *result of comparing two different messages.
EqualResult(m, n) ==
    CASE m.id # n.id \/ m.length # n.length -> "false"
      [] OTHER ->
           CASE Len(m.parts) # Len(n.parts) -> "true"
             [] Len(m.parts) = 0 /\ Len(n.parts) = 0 -> "not set"
             [] OTHER -> IF \A i \in DOMAIN m.parts :
                                EqualParts(m.parts[i], n.parts[i])
                         THEN "true" ELSE "false"
=============================================================================
