-------------------------------- MODULE MCMsg --------------------------------
(***************************************************************************)
(* Instances of Msg for TLC, and the refinement of MsgFifo.                *)
(***************************************************************************)
EXTENDS Msg

Data(n) == [i \in 1 .. n |-> i + 3]
Chunk(t, n) == [tag |-> t, data |-> Data(n)]

\* With 13 bytes in a buffer, 8 of them for data: messages that leave room for
\* another one, that fill the buffer, of two fragments with the priority set
\* in the first or in the second, of three fragments, and one too long.
MCMessages == {
    [tag |-> 1, priority |-> 1, chunks |-> <<Chunk(1, 0)>>],
    [tag |-> 2, priority |-> 2, chunks |-> <<Chunk(1, 2), Chunk(2, 2)>>],
    [tag |-> 3, priority |-> 3, chunks |-> <<Chunk(1, 4), Chunk(2, 1)>>],
    [tag |-> 1, priority |-> 3, chunks |-> <<Chunk(2, 7), Chunk(3, 0)>>],
    [tag |-> 2, priority |-> 1, chunks |-> <<Chunk(2, 15)>>],
    [tag |-> 3, priority |-> 2, chunks |-> <<Chunk(1, 3), Chunk(3, 13)>>] }

\* The data of a message as prelude_msg_set writes it.
Length(m) == IF Len(m.chunks) = 1 THEN CHUNK + Len(m.chunks[1].data)
             ELSE 2 * CHUNK + Len(m.chunks[1].data) + Len(m.chunks[2].data)
MsgFits(m) == Length(m) < max_message_size

Fifo == INSTANCE MsgFifo WITH Fits <- MsgFits

\* Every message arrives whole, once and in the order in which it was written,
\* with its tag and its priority, through any fragments, partial reads and
\* writes, asynchronous sends and a relay; only messages too long are refused.
ImplementsFifo == Fifo!Spec

=============================================================================
