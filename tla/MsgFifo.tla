------------------------------- MODULE MsgFifo -------------------------------
(***************************************************************************)
(* What prelude_msgbuf_set / prelude_msgbuf_mark_end at one end and        *)
(* prelude_msg_read / prelude_msg_get at the other promise together: every *)
(* message arrives whole, once and in order, unless it is too long, or     *)
(* comes after one that was.  Msg implements it (see MCMsg).               *)
(***************************************************************************)
EXTENDS Naturals, Sequences

CONSTANTS Messages,  \* what may be sent
          Fits(_)    \* the receiver accepts a message of this length

VARIABLES sent, received

vars == <<sent, received>>

Init == sent = <<>> /\ received = <<>>

Send(m) == sent' = Append(sent, m) /\ UNCHANGED received

Receive ==
    /\ Len(received) < Len(sent)
    /\ LET next == sent[Len(received) + 1]
       IN  Fits(next) /\ received' = Append(received, next)
    /\ UNCHANGED sent

Next == Receive \/ \E m \in Messages : Send(m)

Spec == Init /\ [][Next]_vars /\ WF_vars(Receive)

=============================================================================
