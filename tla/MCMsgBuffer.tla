---------------------------- MODULE MCMsgBuffer ----------------------------
(* Small instance of MsgBuffer: two messages of at most two parts.  In the first
   set of values a byte of damage turns the FLOAT, which is -0, into 0 or into an
   INT32 of the same bytes, or a string into a FLOAT; the DOUBLE is no number.  In
   the second set two parts take as many bytes as one. *)
EXTENDS MsgBuffer, TLC

CONSTANTS a, b

MCMsgs == {a, b}
MCIds == {<<2, 1>>}
MCWrites == {[type |-> FLOAT_T,  value |-> <<0, 0, 0, 128>>],
             [type |-> DOUBLE_T, value |-> <<1, 0, 0, 0, 0, 0, 240, 127>>],
             [type |-> STRING_T, value |-> <<104>>]}
LongWrites == {[type |-> INT32_T,  value |-> <<1, 0, 0, 0>>],
               [type |-> STRING_T, value |-> <<104, 101, 108, 108, 111>>]}

\* No operation tells one message pointer from the other.
Symmetry == Permutations(MCMsgs)
=============================================================================
