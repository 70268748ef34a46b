--------------------------------- MODULE Msg ---------------------------------
(***************************************************************************)
(* Messages (src/prelude-msg.c) and the buffers through which they are     *)
(* written (src/prelude-msgbuf.c).                                         *)
(*                                                                         *)
(* An application writes messages into a msgbuf of MSGBUF_SIZE bytes; what *)
(* does not fit is sent in fragments, by the thread that writes or, in     *)
(* asynchronous mode, by the asynchronous thread.  A relay reads them,     *)
(* puts them together and writes them again, as failover_flush and         *)
(* managers do; a receiver reads them and takes them apart.  Descriptors   *)
(* do not block: every read and write moves some bytes and is resumed.     *)
(*                                                                         *)
(* A byte is a number below WORD, and every integer of the wire format is  *)
(* one byte.  The version, the tag, the priority, the fragment flag and    *)
(* the length are kept of the header, its time stamps are not.             *)
(***************************************************************************)
EXTENDS Integers, Sequences

CONSTANTS
    Messages,          \* [tag, priority, chunks : Seq([tag, data])]
    MSGBUF_SIZE,
    max_message_size,
    WORD,              \* 2^32: lengths are computed modulo WORD
    Modes,             \* whether PRELUDE_MSGBUF_FLAGS_ASYNC is set
    Pipe,              \* bytes that fit the buffer of a descriptor
    NoMsg,             \* no message
    MaxMessages        \* bound on the number of messages

VERSION == 1           \* PRELUDE_MSG_VERSION
HDR == 5               \* PRELUDE_MSG_HDR_SIZE
CHUNK == 2             \* tag and length before the data of a chunk
MINIMUM_FRAGMENT_DATA_SIZE == 1
PRIORITY_NONE == 0
Links == {"relay", "receiver"}  \* descriptors, by who reads them

ASSUME SizeAssumption == MSGBUF_SIZE \in Nat /\ MSGBUF_SIZE > HDR /\ MSGBUF_SIZE - HDR < WORD
ASSUME LimitAssumption == WORD \in Nat /\ max_message_size \in Nat \ {0} /\ max_message_size + HDR <= WORD
ASSUME PipeAssumption == Pipe \in Nat \ {0}
ASSUME MessagesAssumption ==
    \A x \in Messages :
        /\ x.tag \in Nat /\ x.priority \in Nat /\ Len(x.chunks) \in {1, 2}
        /\ \A i \in 1 .. Len(x.chunks) : x.chunks[i].tag \in Nat /\ x.chunks[i].data \in Seq(Nat)

VARIABLES
    async,      \* flags of the msgbuf
    msg,        \* msgbuf->msg
    pc,         \* what the application does next
    cur,        \* the message it writes
    pending,    \* bytes set_data has still to copy
    joblist,    \* messages left to the asynchronous thread
    wire,       \* bytes in each descriptor
    open,       \* the descriptor was not closed by its reader
    in,         \* the message each reader reads, or NoMsg
    complete,   \* prelude_msg_read has returned that message to its caller
    chunks,     \* chunks the receiver has got out of its message
    sent,       \* history: messages of which the end was marked
    received    \* history: messages the receiver took apart

writer == <<async, msg, pc, cur, pending, sent>>
reader == <<in, complete, chunks, received>>
vars == <<writer, joblist, wire, open, reader>>

Uninitialized == 0     \* content of a fresh buffer; never looked at

Min2(a, b) == IF a <= b THEN a ELSE b

\* Copies a sequence of bytes to position `at' of a buffer.
Memcpy(buf, at, bytes) ==
    [i \in DOMAIN buf |-> IF i \in at .. at + Len(bytes) - 1 THEN bytes[i - at + 1] ELSE buf[i]]

\* n bytes of a buffer from position `at'.
Slice(buf, at, n) == [i \in 1 .. n |-> buf[at + i - 1]]

-----------------------------------------------------------------------------
(* Operations on one message.                                              *)

prelude_msg_dynamic_new ==
    [version |-> VERSION, tag |-> 0, priority |-> PRIORITY_NONE, is_fragment |-> 0,
     datalen |-> MSGBUF_SIZE, header_index |-> 0, read_index |-> 0, write_index |-> HDR,
     fd_write_index |-> 0, hdrbuf |-> <<>>,
     payload |-> [i \in 0 .. MSGBUF_SIZE - 1 |-> Uninitialized]]

\* The message prelude_msg_read allocates.
EmptyMsg ==
    [version |-> 0, tag |-> 0, priority |-> PRIORITY_NONE, is_fragment |-> 0,
     datalen |-> 0, header_index |-> 0, read_index |-> HDR, write_index |-> 0,
     fd_write_index |-> 0, hdrbuf |-> <<>>, payload |-> <<>>]

write_message_header(m) ==
    [m EXCEPT !.payload = Memcpy(@, m.header_index,
        <<VERSION, m.tag, m.priority, m.is_fragment, (m.write_index - m.header_index - HDR) % WORD>>)]

prelude_msg_is_empty(m) == m.write_index - m.header_index - HDR = 0

prelude_msg_recycle(m) ==
    [m EXCEPT !.header_index = 0, !.fd_write_index = 0, !.write_index = HDR,
              !.read_index = IF @ # 0 THEN HDR ELSE @]

\* What call_alloc_cb resets in the message its callback has left.
CallAllocReset(m) == [m EXCEPT !.header_index = 0, !.write_index = HDR, !.is_fragment = 0]

\* prelude_msg_write_r: the message as it is written, and up to which byte.
Outgoing(m) == IF m.header_index = 0 THEN write_message_header(m) ELSE m
Dlen(m) == IF m.header_index # 0 /\ m.is_fragment = 0 THEN m.write_index - HDR ELSE m.write_index
NoData(m) == m.write_index = HDR

\* The message after n bytes of it were written.
Written(m, n) ==
    [Outgoing(m) EXCEPT !.fd_write_index = IF @ + n = Dlen(m) THEN 0 ELSE @ + n]

\* Bytes that a descriptor can take of a message.
Takes(l, m) == 1 .. Min2(Dlen(m) - m.fd_write_index, Pipe - Len(wire[l]))
Write(l, m, n) ==
    wire' = [wire EXCEPT ![l] = @ \o Slice(Outgoing(m).payload, m.fd_write_index, n)]

-----------------------------------------------------------------------------
(* The application writes a message: prelude_msg_set_tag, the first chunk, *)
(* prelude_msg_set_priority, the other chunks, prelude_msgbuf_mark_end.    *)

Encode(c) == <<c.tag, Len(c.data)>> \o c.data

Begin(x) ==
    /\ pc = "idle" /\ Len(sent) < MaxMessages
    /\ cur' = x
    /\ msg' = [msg EXCEPT !.tag = x.tag]
    /\ pending' = Encode(x.chunks[1])
    /\ pc' = "set 1"
    /\ UNCHANGED <<async, joblist, wire, open, reader, sent>>

Setting(n) == pc = (IF n = 1 THEN "set 1" ELSE "set 2")

\* Copies what fits; if there is more, what the message holds is a fragment.
set_data(n) ==
    LET k == Min2(Len(pending), msg.datalen - msg.write_index)
        more == k < Len(pending)
    IN  /\ Setting(n) /\ pending # <<>>
        /\ pending' = SubSeq(pending, k + 1, Len(pending))
        /\ msg' = [msg EXCEPT !.payload = Memcpy(@, msg.write_index, SubSeq(pending, 1, k)),
                              !.write_index = @ + k,
                              !.is_fragment = IF more THEN 1 ELSE @]
        /\ pc' = IF more THEN (IF n = 1 THEN "flush 1" ELSE "flush 2") ELSE pc
        /\ UNCHANGED <<async, cur, joblist, wire, open, reader, sent>>

prelude_msg_set_priority ==
    /\ pc = "set 1" /\ pending = <<>>
    /\ msg' = [msg EXCEPT !.priority = cur.priority]
    /\ IF Len(cur.chunks) = 2
       THEN pending' = Encode(cur.chunks[2]) /\ pc' = "set 2"
       ELSE pc' = "end" /\ UNCHANGED pending
    /\ UNCHANGED <<async, cur, joblist, wire, open, reader, sent>>

LastChunkSet ==
    /\ pc = "set 2" /\ pending = <<>>
    /\ pc' = "end"
    /\ UNCHANGED <<async, msg, cur, pending, sent, joblist, wire, open, reader>>

\* The header of the message is written; if the buffer has no room for
\* another header and a byte, it is flushed at once.
prelude_msg_mark_end ==
    LET m == write_message_header(msg)
        full == msg.write_index + HDR + MINIMUM_FRAGMENT_DATA_SIZE > msg.datalen
    IN  /\ pc = "end"
        /\ sent' = Append(sent, cur)
        /\ IF prelude_msg_is_empty(msg)
           THEN pc' = "send" /\ UNCHANGED msg
           ELSE /\ pc' = IF full THEN "flush end" ELSE "send"
                /\ msg' = IF full THEN m
                          ELSE [m EXCEPT !.header_index = msg.write_index, !.write_index = @ + HDR]
        /\ UNCHANGED <<async, cur, pending, joblist, wire, open, reader>>

\* The buffer is destroyed without prelude_msgbuf_mark_end, as the client does
\* with the reply to an option request: what it holds is sent.
prelude_msgbuf_destroy ==
    /\ pc = "end" /\ ~ prelude_msg_is_empty(msg)
    /\ sent' = Append(sent, cur)
    /\ pc' = "destroy"
    /\ UNCHANGED <<async, msg, cur, pending, joblist, wire, open, reader>>

Flushing == pc \in {"flush 1", "flush 2", "flush end", "send", "destroy"}

\* Where the application goes on after default_send_msg_cb.  Inside
\* call_alloc_cb the message is reset, after prelude_msgbuf_mark_end it is not;
\* after prelude_msgbuf_destroy the next message is written to a new buffer.
Return(m) ==
    /\ msg' = CASE pc = "send" -> m
                [] pc = "destroy" -> prelude_msg_dynamic_new
                [] OTHER -> CallAllocReset(m)
    /\ pc' = CASE pc = "flush 1" -> "set 1" [] pc = "flush 2" -> "set 2"
               [] pc = "flush end" -> "send" [] OTHER -> "idle"
    /\ UNCHANGED <<async, cur, pending, sent, reader>>

\* do_send_msg with a callback that writes until the message is written, as
\* client_write_cb does through the pool.  (connection_write_msgbuf, the callback
\* of a connection's own buffer, returns EAGAIN instead, and is not modelled.)
SendSome ==
    /\ Flushing /\ ~ async /\ open["relay"] /\ ~ NoData(msg)
    /\ \E n \in Takes("relay", msg) :
        /\ Write("relay", msg, n)
        /\ IF msg.fd_write_index + n < Dlen(msg)
           THEN msg' = Written(msg, n) /\ UNCHANGED <<async, pc, cur, pending, sent, reader>>
           ELSE Return([prelude_msg_recycle(Written(msg, n)) EXCEPT !.priority = PRIORITY_NONE])
    /\ UNCHANGED <<joblist, open>>

\* There is nothing to write, or the descriptor is closed: the callback of
\* the client reports no error.
SendNone ==
    /\ Flushing /\ ~ async /\ (NoData(msg) \/ ~ open["relay"])
    /\ Return([prelude_msg_recycle(msg) EXCEPT !.priority = PRIORITY_NONE])
    /\ UNCHANGED <<joblist, wire, open>>

do_send_msg_async ==
    /\ Flushing /\ async
    /\ joblist' = Append(joblist, msg)
    /\ Return(prelude_msg_dynamic_new)
    /\ UNCHANGED <<wire, open>>

\* The asynchronous thread writes the first message of its list; it is
\* destroyed once it is written.
JobWrites ==
    /\ joblist # <<>> /\ open["relay"] /\ ~ NoData(Head(joblist))
    /\ \E n \in Takes("relay", Head(joblist)) :
        /\ Write("relay", Head(joblist), n)
        /\ joblist' = IF Head(joblist).fd_write_index + n = Dlen(Head(joblist)) THEN Tail(joblist)
                      ELSE [joblist EXCEPT ![1] = Written(@, n)]
    /\ UNCHANGED <<writer, open, reader>>

JobWritesNone ==
    /\ joblist # <<>> /\ (NoData(Head(joblist)) \/ ~ open["relay"])
    /\ joblist' = Tail(joblist)
    /\ UNCHANGED <<writer, wire, open, reader>>

-----------------------------------------------------------------------------
(* Readers.  Each step is one prelude_io_read; prelude_msg_read returns    *)
(* PRELUDE_ERROR_EAGAIN when the descriptor is empty, and is called again. *)

Reading(l) == IF in[l] = NoMsg THEN EmptyMsg ELSE in[l]

\* slice_message_header and the checks of read_message_header after it.
Extended(m, tmp) == (m.datalen + tmp) % WORD
BadHeader(m, h) ==
    \/ Extended(m, h[5]) <= m.datalen
    \/ Extended(m, h[5]) >= max_message_size
    \/ (Extended(m, h[5]) + HDR) % WORD <= m.datalen
    \/ (IF m.datalen = 0 THEN h[1] ELSE m.version) # VERSION

\* Mutant: the priority of the last fragment is taken.
SliceLastPriority(m, h) ==
    LET dlen == Extended(m, h[5])
    IN  [m EXCEPT !.version = IF m.datalen = 0 THEN h[1] ELSE @,
                  !.tag = IF m.datalen = 0 THEN h[2] ELSE @,
                  !.priority = h[3], !.is_fragment = h[4], !.datalen = dlen,
                  !.write_index = dlen + HDR, !.header_index = HDR, !.hdrbuf = h,
                  !.payload = [i \in 0 .. HDR + dlen - 1 |->
                                  IF i \in DOMAIN @ THEN @[i] ELSE Uninitialized]]

\* Mutant: the buffer is allocated for the fragment only.
SliceShortBuffer(m, h) ==
    LET dlen == Extended(m, h[5])
    IN  [m EXCEPT !.version = IF m.datalen = 0 THEN h[1] ELSE @,
                  !.tag = IF m.datalen = 0 THEN h[2] ELSE @,
                  !.priority = IF @ = PRIORITY_NONE THEN h[3] ELSE @,
                  !.is_fragment = h[4], !.datalen = dlen,
                  !.write_index = dlen + HDR, !.header_index = HDR, !.hdrbuf = h,
                  !.payload = [i \in 0 .. HDR + h[5] - 1 |->
                                  IF i \in DOMAIN @ THEN @[i] ELSE Uninitialized]]

\* The tag is that of the first fragment, the priority that of the first
\* fragment that has one; the buffer is extended by the fragment.
slice_message_header(m, h) ==
    LET dlen == Extended(m, h[5])
    IN  [m EXCEPT !.version = IF m.datalen = 0 THEN h[1] ELSE @,
                  !.tag = IF m.datalen = 0 THEN h[2] ELSE @,
                  !.priority = IF @ = PRIORITY_NONE THEN h[3] ELSE @,
                  !.is_fragment = h[4], !.datalen = dlen,
                  !.write_index = dlen + HDR, !.header_index = HDR, !.hdrbuf = h,
                  !.payload = [i \in 0 .. HDR + dlen - 1 |->
                                  IF i \in DOMAIN @ THEN @[i] ELSE Uninitialized]]

\* A reader that meets a bad header destroys the message; its caller closes
\* the descriptor.
read_message_header(l) ==
    LET m == Reading(l)
        k == Min2(HDR - m.header_index, Len(wire[l]))
        h == SubSeq(m.hdrbuf, 1, m.header_index) \o SubSeq(wire[l], 1, k)
        bad == Len(h) = HDR /\ BadHeader(m, h)
    IN  /\ open[l] /\ ~ complete[l] /\ wire[l] # <<>> /\ m.header_index # HDR
        /\ in' = [in EXCEPT ![l] = IF bad THEN NoMsg
                                   ELSE IF Len(h) = HDR THEN slice_message_header(m, h)
                                   ELSE [m EXCEPT !.header_index = Len(h), !.hdrbuf = h]]
        /\ open' = [open EXCEPT ![l] = ~ bad]
        /\ wire' = [wire EXCEPT ![l] = IF bad THEN <<>> ELSE SubSeq(@, k + 1, Len(@))]
        /\ UNCHANGED <<writer, joblist, complete, chunks, received>>

\* The message after k more bytes of its content were read.
ContentRead(m, k, bytes) ==
    LET n == [m EXCEPT !.payload = Memcpy(@, m.read_index, bytes), !.read_index = @ + k]
    IN  IF m.read_index + k < m.datalen + HDR THEN n
        ELSE IF m.is_fragment = 1 THEN [n EXCEPT !.header_index = 0]
        ELSE [n EXCEPT !.is_fragment = 0, !.header_index = 0, !.read_index = HDR]

read_message_content(l) ==
    LET m == Reading(l)
        k == Min2(m.datalen + HDR - m.read_index, Len(wire[l]))
    IN  /\ ~ complete[l] /\ wire[l] # <<>> /\ m.header_index = HDR
        /\ in' = [in EXCEPT ![l] = ContentRead(m, k, SubSeq(wire[l], 1, k))]
        /\ complete' = [complete EXCEPT ![l] = m.read_index + k = m.datalen + HDR /\ m.is_fragment = 0]
        /\ wire' = [wire EXCEPT ![l] = SubSeq(@, k + 1, Len(@))]
        /\ UNCHANGED <<writer, joblist, open, chunks, received>>

\* The relay writes the message it has read and destroys it.
prelude_msg_write ==
    LET m == in["relay"]
    IN  /\ complete["relay"] /\ open["receiver"]
        /\ \E n \in Takes("receiver", m) :
            /\ Write("receiver", m, n)
            /\ LET done == m.fd_write_index + n = Dlen(m)
               IN  /\ in' = [in EXCEPT !["relay"] = IF done THEN NoMsg ELSE Written(m, n)]
                   /\ complete' = [complete EXCEPT !["relay"] = ~ done]
        /\ UNCHANGED <<writer, joblist, open, chunks, received>>

\* The receiver gets the next chunk, or finds that there is none left, or that
\* the lengths do not agree and drops the message.
prelude_msg_get ==
    LET m == in["receiver"]
        end == m.datalen + HDR
        bad == \/ m.read_index > end - CHUNK
               \/ m.read_index + CHUNK + m.payload[m.read_index + 1] > end
        len == m.payload[m.read_index + 1]
        chunk == [tag |-> m.payload[m.read_index], data |-> Slice(m.payload, m.read_index + CHUNK, len)]
    IN  /\ complete["receiver"]
        /\ IF m.read_index < end /\ ~ bad
           THEN /\ chunks' = Append(chunks, chunk)
                /\ in' = [in EXCEPT !["receiver"].read_index = @ + CHUNK + len]
                /\ UNCHANGED <<complete, received>>
           ELSE /\ chunks' = <<>>
                /\ in' = [in EXCEPT !["receiver"] = NoMsg]
                /\ complete' = [complete EXCEPT !["receiver"] = FALSE]
                /\ received' = IF m.read_index = end
                               THEN Append(received, [tag |-> m.tag, priority |-> m.priority, chunks |-> chunks])
                               ELSE received
        /\ UNCHANGED <<writer, joblist, wire, open>>

-----------------------------------------------------------------------------
Init ==
    /\ async \in Modes
    /\ msg = prelude_msg_dynamic_new /\ pc = "idle" /\ cur = NoMsg /\ pending = <<>>
    /\ joblist = <<>> /\ wire = [l \in Links |-> <<>>] /\ open = [l \in Links |-> TRUE]
    /\ in = [l \in Links |-> NoMsg] /\ complete = [l \in Links |-> FALSE]
    /\ chunks = <<>> /\ sent = <<>> /\ received = <<>>

WriterStep ==
    \/ set_data(1) \/ set_data(2) \/ prelude_msg_set_priority \/ LastChunkSet \/ prelude_msg_mark_end
    \/ prelude_msgbuf_destroy \/ SendSome \/ SendNone \/ do_send_msg_async

Next ==
    \/ \E x \in Messages : Begin(x)
    \/ WriterStep
    \/ JobWrites \/ JobWritesNone
    \/ \E l \in Links : read_message_header(l) \/ read_message_content(l)
    \/ prelude_msg_write \/ prelude_msg_get

Spec == Init /\ [][Next]_vars

\* The application finishes the message it has begun, the asynchronous thread
\* runs, readers read what there is.
FairSpec ==
    /\ Spec
    /\ WF_vars(WriterStep) /\ WF_vars(JobWrites \/ JobWritesNone)
    /\ \A l \in Links : WF_vars(read_message_header(l) \/ read_message_content(l))
    /\ WF_vars(prelude_msg_write) /\ WF_vars(prelude_msg_get)

-----------------------------------------------------------------------------
\* No index leaves its buffer, however messages are cut into fragments and
\* these into reads and writes: what is written
\* lies in the payload, what is read was allocated (the buffer is extended
\* with each fragment), the header of a message starts inside it, and no
\* message of max_message_size bytes is ever put together.
InBounds ==
    /\ \A i \in 1 .. Len(joblist) : joblist[i].write_index <= MSGBUF_SIZE
    /\ msg.header_index + HDR <= msg.write_index /\ msg.write_index <= MSGBUF_SIZE
    /\ msg.fd_write_index < Dlen(msg)
    /\ \A l \in Links : in[l] # NoMsg =>
        /\ in[l].datalen < max_message_size
        /\ in[l].read_index <= in[l].datalen + HDR
        /\ in[l].payload # <<>> => DOMAIN in[l].payload = 0 .. in[l].datalen + HDR - 1
        /\ complete[l] => in[l].write_index = in[l].datalen + HDR

=============================================================================
