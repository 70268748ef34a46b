----------------------------- MODULE FailoverQueue -----------------------------
(***************************************************************************)
(* What the failover of src/prelude-failover.c promises its caller: a FIFO *)
(* queue of messages that outlives the process.  Failover implements it    *)
(* (its property ImplementsQueue).                                         *)
(***************************************************************************)
EXTENDS Naturals, Sequences

CONSTANTS Msgs,    \* messages
          NoMsg    \* no message in hand

VARIABLES queue,     \* messages that a restart would find
          held,      \* the message handed to the caller, or NoMsg
          delivered, \* messages the caller passed to a manager
          transaction \* transactions are enabled

vars == <<queue, held, delivered, transaction>>

Init == queue = <<>> /\ held = NoMsg /\ delivered = <<>> /\ transaction = FALSE

\* A message is added at the end.
Save(m) == queue' = Append(queue, m) /\ UNCHANGED <<held, delivered, transaction>>

\* Without transactions the message leaves the queue when it is handed out.
Take ==
    /\ ~ transaction
    /\ queue # <<>> /\ held = NoMsg
    /\ held' = Head(queue) /\ queue' = Tail(queue)
    /\ UNCHANGED <<delivered, transaction>>

\* With transactions it stays ...
Borrow ==
    /\ transaction
    /\ queue # <<>> /\ held = NoMsg
    /\ held' = Head(queue)
    /\ UNCHANGED <<queue, delivered, transaction>>

\* ... until the caller says that it was delivered.
Commit ==
    /\ transaction
    /\ queue # <<>> /\ delivered # <<>> /\ held = NoMsg
    /\ delivered[Len(delivered)] = Head(queue)
    /\ queue' = Tail(queue)
    /\ UNCHANGED <<held, delivered, transaction>>

Deliver ==
    /\ held # NoMsg
    /\ delivered' = Append(delivered, held) /\ held' = NoMsg
    /\ UNCHANGED <<queue, transaction>>

\* A message that could not be delivered goes back to the end of the queue.
SaveAgain ==
    /\ ~ transaction
    /\ held # NoMsg
    /\ queue' = Append(queue, held) /\ held' = NoMsg
    /\ UNCHANGED <<delivered, transaction>>

\* The caller gives a borrowed message back.
GiveBack ==
    /\ transaction /\ held # NoMsg
    /\ held' = NoMsg
    /\ UNCHANGED <<queue, delivered, transaction>>

SetTransaction ==
    /\ held = NoMsg /\ transaction' \in BOOLEAN
    /\ UNCHANGED <<queue, held, delivered>>

\* The caller dies, with a message in hand or without.
Die == held' = NoMsg /\ transaction' = FALSE /\ UNCHANGED <<queue, delivered>>

Next ==
    \/ \E m \in Msgs : Save(m)
    \/ Take \/ Borrow \/ Commit \/ Deliver \/ SaveAgain \/ GiveBack
    \/ SetTransaction \/ Die

Spec == Init /\ [][Next]_vars

=============================================================================
