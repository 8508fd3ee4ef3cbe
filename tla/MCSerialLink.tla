---------------------------- MODULE MCSerialLink ----------------------------
(* Small instance of SerialLink: a message of one part and one without, and noise
   that is, or is not, the first byte of a header. *)
EXTENDS SerialLink

Full  == WithPart(NewMsg(<<2, 1>>),
                  WrittenPart([type |-> INT32_T, value |-> <<1, 0, 0, 0>>]))
Empty == NewMsg(<<3, 0>>)

MCMessages == {Full, Empty}
MCNoise == {Start[1], 120}
=============================================================================
