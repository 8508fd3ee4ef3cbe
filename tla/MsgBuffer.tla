----------------------------- MODULE MsgBuffer -----------------------------
(* Messages made of typed parts (MsgBuffer.c): building, copying, comparing,
   encoding and decoding them.  The client holds a number of message pointers,
   one part, and one encoded buffer that is handed to a decoder, possibly after
   it was damaged under way.

   The model is of a build with NDEBUG: the assertions of the code are stated
   as properties. *)
EXTENDS MsgFormat

CONSTANTS
    Msgs,         \* the message pointers of the client
    Ids,          \* message ids: pairs of bytes, low byte first
    Writes,       \* what is written in parts: records [type, value]
    MaxParts,     \* bound: a client adds no part to a message of this many
    DamageBytes,  \* the bytes that damage leaves behind, all below 128
    MaxDamage,    \* bound: how often a buffer is damaged
    MemFail,      \* TRUE: malloc, realloc and strdup may fail
    NULL

\* What is written fits its type, and ids and damage are bytes.
ASSUME MsgBufferAssumption ==
    /\ Ids \subseteq Byte \X Byte
    /\ \A w \in Writes : WrittenPart(w) \in Numbers \cup Strings
    /\ DamageBytes \subseteq Byte
    /\ MaxDamage \in Nat

VARIABLES
    msgs,     \* msgs[m]: NULL or the message [id, length, parts]
    part,     \* the client's part [type, value, length]
    buffer,   \* NULL or the bytes of the encoded message in transit
    damages,  \* how often a buffer was damaged
    ret       \* what the last call returned

vars == <<msgs, part, buffer, damages, ret>>

----------------------------------------------------------------------------
Init ==
    /\ msgs = [m \in Msgs |-> NULL]
    /\ part = NewPart
    /\ buffer = NULL
    /\ damages = 0
    /\ ret = "SUCCESS"

Held(m) == msgs[m] # NULL

\* A call that fails for lack of memory leaves everything as it was.
NoMemory ==
    /\ MemFail
    /\ ret' = "RUNTIME"
    /\ UNCHANGED <<msgs, part, buffer, damages>>

\* see_msg_buffer_new
New(m, id) ==
    /\ ~Held(m)
    /\ \/ /\ msgs' = [msgs EXCEPT ![m] = NewMsg(id)]
          /\ ret' = "SUCCESS"
          /\ UNCHANGED <<part, buffer, damages>>
       \/ NoMemory

\* see_object_decref of the only reference
Destroy(m) ==
    /\ Held(m)
    /\ msgs' = [msgs EXCEPT ![m] = NULL]
    /\ UNCHANGED <<part, buffer, damages, ret>>

\* see_msg_buffer_set_id
SetId(m, id) ==
    /\ Held(m)
    /\ msgs' = [msgs EXCEPT ![m].id = id]
    /\ ret' = "SUCCESS"
    /\ UNCHANGED <<part, buffer, damages>>

\* see_msg_part_write_int32 ... write_double.  A string is copied first.
WriteValue(w) ==
    \/ /\ part' = WrittenPart(w)
       /\ ret' = "SUCCESS"
       /\ UNCHANGED <<msgs, buffer, damages>>
    \/ w.type = STRING_T /\ NoMemory

\* see_msg_part_get_int32 ... get_double: a value only comes out as what it is.
GetValue(type) ==
    \/ /\ ret' = IF part.type = type THEN "SUCCESS" ELSE "MSG_PART_TYPE"
       /\ UNCHANGED <<msgs, part, buffer, damages>>
    \/ type = STRING_T /\ part.type = STRING_T /\ NoMemory

\* see_msg_buffer_add_part: a part that is not set is added all the same, but
\* the call fails when it asks for the length of the part.
AddPart(m) ==
    /\ Held(m)
    /\ Len(msgs[m].parts) < MaxParts
    /\ \/ /\ msgs' = [msgs EXCEPT ![m] = WithPart(@, part)]
          /\ ret' = IF IsSet(part) THEN "SUCCESS" ELSE "RUNTIME"
          /\ UNCHANGED <<part, buffer, damages>>
       \/ NoMemory

\* see_msg_buffer_get_part: the client's part is replaced by a copy.
GetPart(m, n) ==
    /\ Held(m)
    /\ IF n >= Len(msgs[m].parts)
       THEN /\ ret' = "INDEX"
            /\ UNCHANGED <<msgs, part, buffer, damages>>
       ELSE \/ /\ part' = CopyPart(msgs[m].parts[n + 1])
               /\ ret' = "SUCCESS"
               /\ UNCHANGED <<msgs, buffer, damages>>
            \/ NoMemory

\* see_object_copy; the message that *msg_out held is given up at the end.
Copy(m, n) ==
    /\ Held(m)
    /\ \/ /\ IF AllSet(msgs[m])
             THEN /\ msgs' = [msgs EXCEPT ![n] = CopyMsg(msgs[m])]
                  /\ ret' = "SUCCESS"
             ELSE /\ ret' = "RUNTIME"
                  /\ UNCHANGED msgs
          /\ UNCHANGED <<part, buffer, damages>>
       \/ NoMemory

\* see_msg_buffer_get_buffer.  The client encodes when it has a pointer to decode
\* the message into again, and one buffer at a time.
GetBuffer(m) ==
    /\ Held(m)
    /\ buffer = NULL
    /\ \E n \in Msgs : ~Held(n)
    /\ \/ /\ IF AllSet(msgs[m])
             THEN /\ \E junk \in DamageBytes : buffer' = Encode(msgs[m], junk)
                  /\ ret' = "SUCCESS"
             ELSE /\ ret' = "RUNTIME"
                  /\ UNCHANGED buffer
          /\ UNCHANGED <<msgs, part, damages>>
       \/ NoMemory

\* see_msg_buffer_from_buffer; the client then frees the buffer.  When there is
\* no memory for a string, the part that is missing is refused by add_part.
FromBuffer(m) ==
    /\ ~Held(m)
    /\ buffer # NULL
    /\ buffer' = NULL
    /\ LET read == Decode(buffer)
       IN  \/ /\ read.valid
              /\ msgs' = [msgs EXCEPT ![m] = read.msg]
              /\ ret' = "SUCCESS"
           \/ /\ ~read.valid
              /\ ret' = "MSG_INVALID"
              /\ UNCHANGED msgs
           \/ /\ MemFail
              /\ ret' \in {"RUNTIME", "INVALID_ARGUMENT"}
              /\ UNCHANGED msgs
    /\ UNCHANGED <<part, damages>>

\* External: on its way a byte changes, the end is lost, or bytes follow it.
Damage ==
    /\ buffer # NULL
    /\ damages < MaxDamage
    /\ damages' = damages + 1
    /\ \/ \E i \in DOMAIN buffer, byte \in DamageBytes :
             buffer' = [buffer EXCEPT ![i] = byte]
       \/ \E i \in 0..(Len(buffer) - 1) : buffer' = SubSeq(buffer, 1, i)
       \/ \E byte \in DamageBytes : buffer' = Append(buffer, byte)
    /\ UNCHANGED <<msgs, part, ret>>

\* While a buffer is in transit the client waits for it.
Next ==
    \/ /\ buffer = NULL
       /\ \/ \E m \in Msgs, id \in Ids : New(m, id) \/ SetId(m, id)
          \/ \E m \in Msgs : Destroy(m) \/ AddPart(m) \/ GetBuffer(m)
          \/ \E w \in Writes : WriteValue(w) \/ GetValue(w.type)
          \/ \E m \in Msgs, i \in 0..MaxParts : GetPart(m, i)
          \/ \E m, n \in Msgs : Copy(m, n)
    \/ \E m \in Msgs : FromBuffer(m)
    \/ Damage

Spec == Init /\ [][Next]_vars

----------------------------------------------------------------------------
(* Properties *)

Rets == {"SUCCESS", "RUNTIME", "MSG_INVALID", "MSG_PART_TYPE", "INDEX",
         "INVALID_ARGUMENT"}

Message == [id : Byte \X Byte, length : Nat, parts : Seq(Parts)]

\* The types of the variables: a number has as many bytes as its type, whether
\* it was written or read (the union of SeeMsgPart is read as that type).
TypeOK ==
    /\ part \in Parts
    /\ msgs \in [Msgs -> Message \cup {NULL}]
    /\ buffer \in Seq(Byte) \cup {NULL}
    /\ damages \in 0..MaxDamage
    /\ ret \in Rets

\* The length that add_part keeps up is the number of bytes get_buffer writes into
\* the block it allocates by that length (its assertion nwritten == length),
\* however the message was made: built, copied or read from a damaged buffer.
LengthExact ==
    \A m \in Msgs, junk \in DamageBytes :
        Held(m) /\ AllSet(msgs[m]) =>
            Len(Encode(msgs[m], junk)) = msgs[m].length

\* What get_buffer writes, from_buffer reads back as the same message: byte order,
\* types, lengths and order of the parts agree in the writer and the reader.
RoundTrip ==
    \A m \in Msgs, junk \in DamageBytes :
        Held(m) /\ AllSet(msgs[m]) /\ StringsWhole(msgs[m]) =>
            Decode(Encode(msgs[m], junk)) = [valid |-> TRUE, msg |-> msgs[m]]

\* Whatever from_buffer accepts of a buffer, damaged or not, is what its declared
\* number of bytes say, no more and no less: the message would be written as those
\* bytes.  Excepted are a declared length below that of a header, and a string
\* with a 0 byte in it, which the reader cuts off there.
AcceptedIsWhatWasRead ==
    [][\A m \in Msgs, junk \in DamageBytes :
          FromBuffer(m) /\ msgs'[m] # NULL /\ StringsWhole(msgs'[m])
            /\ Declared(buffer) >= HeaderSize =>
              Encode(msgs'[m], junk) = SubSeq(buffer, 1, Declared(buffer))]_vars

\* Some part of the message is a float or double that is no number.
HasNaN(msg) ==
    \E i \in DOMAIN msg.parts :
        msg.parts[i].type \in Floating /\ IsNaN(msg.parts[i].value)

\* The message with 0 for every -0.
PositiveZero(p) ==
    IF p.type \in Floating /\ IsZero(p.value)
    THEN [p EXCEPT !.value = [i \in DOMAIN @ |-> 0]] ELSE p
PositiveZeros(msg) ==
    [msg EXCEPT !.parts = [i \in DOMAIN @ |-> PositiveZero(@[i])]]

\* Complete messages with equally many parts, and at least one.
Comparable(m, n) ==
    /\ Len(m.parts) = Len(n.parts) /\ Len(m.parts) > 0
    /\ \A msg \in {m, n} : AllSet(msg) /\ StringsWhole(msg)

\* see_object_equal and get_buffer agree on what a message is: two of them that can
\* be compared are equal exactly when they are written as the same bytes.  Numbers
\* are compared as C compares them: 0 is -0, and what is no number is not even
\* equal to itself.
EqualIsExact ==
    \A m, n \in Msgs, junk \in DamageBytes :
        m # n /\ Held(m) /\ Held(n) /\ Comparable(msgs[m], msgs[n]) =>
            (EqualResult(msgs[m], msgs[n]) = "true"
               <=> /\ ~HasNaN(msgs[m])
                   /\ Encode(PositiveZeros(msgs[m]), junk)
                        = Encode(PositiveZeros(msgs[n]), junk))

SameContents(m, n) ==
    /\ m.id = n.id
    /\ Len(m.parts) = Len(n.parts)
    /\ \A i \in DOMAIN m.parts : /\ m.parts[i].type = n.parts[i].type
                                 /\ SameValue(m.parts[i], n.parts[i])

\* What SeeObject.h says of see_object_equal, of messages that are complete: the
\* result is 1 for equal messages, 0 otherwise.
EqualMeansSameContents ==
    \A m, n \in Msgs :
        m # n /\ Held(m) /\ Held(n) /\ AllSet(msgs[m]) /\ AllSet(msgs[n])
          /\ EqualResult(msgs[m], msgs[n]) = "true" =>
            SameContents(msgs[m], msgs[n])

=============================================================================
