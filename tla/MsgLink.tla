------------------------------ MODULE MsgLink ------------------------------
(* What a serial link promises to two programs that exchange messages over it:
   a message that was sent is received, whole, unchanged and in order, for as
   long as the line is left undisturbed.  Afterwards it promises nothing. *)
EXTENDS Sequences

CONSTANTS Messages

VARIABLES
    underway,   \* the messages sent and not yet received
    received,   \* the messages received
    intact      \* no message was disturbed on its way

Init ==
    /\ underway = <<>>
    /\ received = <<>>
    /\ intact = TRUE

Send(m) ==
    /\ underway' = Append(underway, m)
    /\ UNCHANGED <<received, intact>>

Receive ==
    /\ intact
    /\ underway # <<>>
    /\ received' = Append(received, Head(underway))
    /\ underway' = Tail(underway)
    /\ UNCHANGED intact

\* A failing call, a timeout in the middle of a message, or noise.
Disturb ==
    /\ intact' = FALSE
    /\ UNCHANGED <<underway, received>>

Disturbed == ~intact /\ ~intact'

Next ==
    \/ \E m \in Messages : Send(m)
    \/ Receive
    \/ Disturb
    \/ Disturbed

linkVars == <<underway, received, intact>>

Spec == Init /\ [][Next]_linkVars /\ WF_linkVars(Receive)
=============================================================================
