----------------------------- MODULE SerialLink -----------------------------
(* Messages over a serial link (serial_write_msg, serial_read_msg and
   obtain_synced_msg_buffer in Serial.c): a program that writes messages to a
   device in as many pieces as the device likes, and one that reads them, in other
   pieces, from a device that may time out.  Noise may get on the line.

   The devices, external here, are a queue of bytes: PosixSerial.tla models the
   calls that open and configure them. *)
EXTENDS MsgFormat

CONSTANTS
    Messages,    \* the messages that are sent
    Noise,       \* the bytes that noise consists of, all below 128
    MaxSent,     \* bound: how many messages are sent
    MaxTroubles  \* bound: how often a device or malloc fails or noise comes

\* The messages are what comes of adding parts that were written: strings have no 0
\* byte in them, and are as long as they say.
ASSUME SerialLinkAssumption ==
    /\ \A m \in Messages :
          /\ m \in [id : Byte \X Byte, length : Nat, parts : Seq(Numbers \cup Strings)]
          /\ m = CopyMsg(m) /\ StringsWhole(m) /\ Fits32(m.length)
    /\ Noise \subseteq Byte
    /\ MaxSent \in Nat /\ MaxTroubles \in Nat

VARIABLES
    sent,      \* the messages that write_msg was called with
    writing,   \* what write_msg still has to write
    line,      \* the bytes written and not yet read
    reader,    \* the state of read_msg
    received,  \* the messages it returned
    ret,       \* what it returned last
    intact,    \* ghost: nothing got lost or added on the line
    troubles   \* how many failures and bytes of noise there were

vars == <<sent, writing, line, reader, received, ret, intact, troubles>>

NoJunk == 0
Bytes(m) == Encode(m, NoJunk)

----------------------------------------------------------------------------
Idle == [pc |-> "idle", got |-> <<>>, size |-> 0]

Init ==
    /\ sent = <<>>
    /\ writing = <<>>
    /\ line = <<>>
    /\ reader = Idle
    /\ received = <<>>
    /\ ret = "SUCCESS"
    /\ intact = TRUE
    /\ troubles = 0

----------------------------------------------------------------------------
(* The writer *)

\* serial_write_msg encodes the message and starts its loop.
WriteMsg(m) ==
    /\ writing = <<>>
    /\ Len(sent) < MaxSent
    /\ sent' = Append(sent, m)
    /\ writing' = Bytes(m)
    /\ UNCHANGED <<line, reader, received, ret, intact, troubles>>

\* Mutant: the count goes down, but the pointer stays.
WriteSomeAgain ==
    \E n \in 1..Len(writing) :
        /\ line' = line \o SubSeq(writing, 1, n)
        /\ writing' = SubSeq(writing, 1, Len(writing) - n)
        /\ UNCHANGED <<sent, reader, received, ret, intact, troubles>>

\* One round of the loop: the device takes the first n bytes.
WriteSome ==
    \E n \in 1..Len(writing) :
        /\ line' = line \o SubSeq(writing, 1, n)
        /\ writing' = SubSeq(writing, n + 1, Len(writing))
        /\ UNCHANGED <<sent, reader, received, ret, intact, troubles>>

\* The device fails; the message remains unfinished.
WriteFails ==
    /\ writing # <<>>
    /\ troubles < MaxTroubles
    /\ troubles' = troubles + 1
    /\ writing' = <<>>
    /\ intact' = FALSE
    /\ UNCHANGED <<sent, line, reader, received, ret>>

----------------------------------------------------------------------------
(* The reader *)

\* Mutant: the bytes compared one place too far.
OutOfSyncShifted(sync) == \A i \in DOMAIN Start : sync[i + 1] # Start[i]

\* The condition of the loop that discards bytes: none of the four is right.
OutOfSync(sync) == \A i \in DOMAIN Start : sync[i] # Start[i]

\* The header moves up by one; the new byte goes to sync[sizeof(start) - 1], where
\* start is a pointer of 8 bytes.
Shifted(sync, byte) ==
    [i \in 1..HeaderSize |-> CASE i = 8 -> byte
                               [] i = HeaderSize -> sync[i]
                               [] OTHER -> sync[i + 1]]

\* The reader returns from read_msg.
Return(code) ==
    /\ reader' = Idle
    /\ ret' = code

\* Mutant: the message is not handed to the caller.
FinishForgets(bytes) ==
    /\ Return(IF Decode(bytes).valid THEN "SUCCESS" ELSE "MSG_INVALID")
    /\ UNCHANGED received

\* from_buffer decides on what was read.
Finish(bytes) ==
    LET read == Decode(bytes)
    IN  IF read.valid
        THEN Return("SUCCESS") /\ received' = Append(received, read.msg)
        ELSE Return("MSG_INVALID") /\ UNCHANGED received

\* What follows when the header is complete.  If the size is less than that of a
\* header, the rest to read is size - 10 modulo 2^64, into a block that is too
\* small: what then happens is undefined.
TakeHeader(sync) ==
    LET size == Declared(sync)
    IN  CASE OutOfSync(sync) ->
               /\ reader' = [pc |-> "sync", got |-> sync, size |-> 0]
               /\ UNCHANGED <<received, ret>>
          [] ~OutOfSync(sync) /\ size < HeaderSize ->
               /\ reader' = [pc |-> "undefined", got |-> sync, size |-> size]
               /\ UNCHANGED <<received, ret>>
          [] ~OutOfSync(sync) /\ size = HeaderSize ->
               Finish(sync)
          [] OTHER ->
               /\ reader' = [pc |-> "body", got |-> sync, size |-> size]
               /\ UNCHANGED <<received, ret>>

\* The client calls read_msg.
ReadMsg ==
    /\ reader.pc = "idle"
    /\ reader' = [reader EXCEPT !.pc = "header"]
    /\ UNCHANGED <<sent, writing, line, received, ret, intact, troubles>>

\* How many bytes read_msg asks the device for.
Wanted ==
    CASE reader.pc = "header" -> HeaderSize - Len(reader.got)
      [] reader.pc = "sync" -> 1
      [] reader.pc = "body" -> reader.size - Len(reader.got)
      [] OTHER -> 0

\* The device gives it the first n bytes of the line.
ReadSome ==
    \E n \in 1..Min({Wanted, Len(line)}) :
        LET got == reader.got \o SubSeq(line, 1, n)
        IN  /\ line' = SubSeq(line, n + 1, Len(line))
            /\ CASE reader.pc = "sync" ->
                      TakeHeader(Shifted(reader.got, line[1]))
                 [] reader.pc = "header" /\ n = Wanted ->
                      TakeHeader(got)
                 [] reader.pc = "body" /\ n = Wanted ->
                      Finish(got)
                 [] OTHER ->
                      /\ reader' = [reader EXCEPT !.got = got]
                      /\ UNCHANGED <<received, ret>>
            /\ UNCHANGED <<sent, writing, intact, troubles>>

\* No byte comes in time.  What was read of a message is forgotten.
ReadTimesOut ==
    /\ reader.pc \in {"header", "sync", "body"}
    /\ line = <<>>
    /\ Return("TIMEOUT")
    /\ intact' = (intact /\ reader.got = <<>>)
    /\ UNCHANGED <<sent, writing, line, received, troubles>>

\* The bytes complete a header or a message, for which there is no memory.
ReadNoMemory ==
    /\ reader.pc \in {"header", "body"}
    /\ Len(line) >= Wanted
    /\ troubles < MaxTroubles
    /\ troubles' = troubles + 1
    /\ line' = SubSeq(line, Wanted + 1, Len(line))
    /\ Return("RUNTIME")
    /\ intact' = FALSE
    /\ UNCHANGED <<sent, writing, received>>

\* The device fails.
ReadFails ==
    /\ reader.pc \in {"header", "sync", "body"}
    /\ troubles < MaxTroubles
    /\ troubles' = troubles + 1
    /\ Return("RUNTIME")
    /\ intact' = (intact /\ reader.got = <<>>)
    /\ UNCHANGED <<sent, writing, line, received>>

\* The undefined case: the process is killed, which is the end of the reader, or
\* it gets what is on the line, and then an error.
Undefined ==
    /\ reader.pc = "undefined"
    /\ \/ /\ reader' = [reader EXCEPT !.pc = "killed"]
          /\ UNCHANGED <<line, ret>>
       \/ /\ \E code \in {"TIMEOUT", "RUNTIME"} : Return(code)
          /\ line' = <<>>
    /\ UNCHANGED <<sent, writing, received, intact, troubles>>

----------------------------------------------------------------------------
\* External: a byte that nobody wrote.
LineNoise(byte) ==
    /\ troubles < MaxTroubles
    /\ troubles' = troubles + 1
    /\ line' = Append(line, byte)
    /\ intact' = FALSE
    /\ UNCHANGED <<sent, writing, reader, received, ret>>

Reader == ReadMsg \/ ReadSome \/ Undefined

Next ==
    \/ \E m \in Messages : WriteMsg(m)
    \/ WriteSome \/ WriteFails
    \/ Reader \/ ReadTimesOut \/ ReadNoMemory \/ ReadFails
    \/ \E byte \in Noise : LineNoise(byte)

Spec == Init /\ [][Next]_vars /\ WF_vars(WriteSome) /\ WF_vars(Reader)

----------------------------------------------------------------------------
(* Properties *)

Rets == {"SUCCESS", "MSG_INVALID", "TIMEOUT", "RUNTIME"}

\* The types of the variables; what was read is never more than was asked for.
TypeOK ==
    /\ sent \in Seq(Messages)
    /\ {writing, line} \subseteq Seq(Byte)
    /\ reader \in [pc   : {"idle", "header", "sync", "body", "undefined", "killed"},
                   got  : Seq(Byte),
                   size : Nat]
    /\ reader.pc = "header" => Len(reader.got) < HeaderSize
    /\ reader.pc \in {"sync", "undefined"} => Len(reader.got) = HeaderSize
    /\ reader.pc = "body" => Len(reader.got) \in HeaderSize..(reader.size - 1)
    /\ ret \in Rets
    /\ intact \in BOOLEAN
    /\ troubles \in 0..MaxTroubles

\* The messages sent that have not been received.
Underway == SubSeq(sent, Len(received) + 1, Len(sent))

\* As long as the line is undisturbed, the bytes in the hands of the reader, on
\* the line and in the hands of the writer are those of the messages underway, none
\* lost and none twice, however the devices cut them into pieces.
EveryByteOnce ==
    intact =>
        reader.got \o line \o writing =
            FlattenSeq([i \in DOMAIN Underway |-> Bytes(Underway[i])])

\* A message is rejected, and memory misused, only when the line was disturbed.
RejectsOnlyDisturbed ==
    intact => ret # "MSG_INVALID" /\ reader.pc \notin {"sync", "undefined", "killed"}

\* The link delivers every message in order, and in the end, while undisturbed.
Link == INSTANCE MsgLink WITH underway <- Underway
ImplementsMsgLink == Link!Spec

\* What Serial.h says of read_msg: it discards all stuff before a "SMSG", so that
\* it takes nothing else for the header of a message.
HeaderIsFound ==
    reader.pc = "body" => SubSeq(reader.got, 1, Len(Start)) = Start
=============================================================================
