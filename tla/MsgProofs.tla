------------------------------ MODULE MsgProofs ------------------------------
(***************************************************************************)
(* Proofs about Msg, for any messages, sizes of buffers, limits and        *)
(* descriptors: no index leaves its buffer, however messages are cut into  *)
(* fragments, written and read in parts, and put together.                 *)
(***************************************************************************)
EXTENDS Msg, SequenceTheorems, TLAPS

-----------------------------------------------------------------------------
(* The inductive invariant.                                                *)

Buffer(n) == [0 .. n - 1 -> Nat]

Record(P) ==
    [version : Nat, tag : Nat, priority : Nat, is_fragment : Nat, datalen : Nat,
     header_index : Nat, read_index : Nat, write_index : Nat, fd_write_index : Nat,
     hdrbuf : Seq(Nat), payload : P]

Own == Record(Buffer(MSGBUF_SIZE))

\* A message that is written: the buffer of a msgbuf, or one that was queued.
Outward(m) ==
    /\ m \in Own /\ m.datalen = MSGBUF_SIZE
    /\ m.header_index + HDR <= m.write_index /\ m.write_index <= MSGBUF_SIZE
    /\ m.fd_write_index < Dlen(m)

\* A message that is read: nothing is allocated before its first header was
\* read, then the buffer is as long as the fragments whose headers were read.
Inward(m) ==
    /\ \/ m.datalen = 0 /\ m \in Record({<<>>})
       \/ m.datalen > 0 /\ m \in Record(Buffer(m.datalen + HDR)) /\ m.write_index = m.datalen + HDR
    /\ m.datalen < max_message_size
    /\ HDR <= m.read_index /\ m.read_index <= m.datalen + HDR
    /\ m.header_index <= HDR /\ m.header_index <= Len(m.hdrbuf)
    /\ m.header_index = HDR => m.datalen > 0

\* A message that prelude_msg_read has returned.
Whole(m) == m.datalen > 0 /\ m.header_index = 0 /\ m.fd_write_index < m.write_index

Labels == {"idle", "set 1", "set 2", "flush 1", "flush 2", "flush end", "end", "send", "destroy"}

\* Between two calls of the send callback, nothing of the buffer is written.
Writer ==
    /\ Outward(msg) /\ pending \in Seq(Nat) /\ pc \in Labels
    /\ pc # "idle" => cur \in Messages
    /\ ~ Flushing => msg.fd_write_index = 0

Queued == joblist \in Seq(Own) /\ \A i \in 1 .. Len(joblist) : Outward(joblist[i])

Descriptors == wire \in [Links -> Seq(Nat)]

ReaderOf(l) ==
    /\ in[l] # NoMsg => Inward(in[l])
    /\ in[l] # NoMsg /\ ~ complete[l] => in[l].fd_write_index = 0
    /\ complete[l] => Inward(in[l]) /\ Whole(in[l])

Readers ==
    /\ DOMAIN in = Links /\ complete \in [Links -> BOOLEAN]
    /\ \A l \in Links : ReaderOf(l)

MsgInv == Writer /\ Queued /\ Descriptors /\ Readers

-----------------------------------------------------------------------------
(* Buffers and messages.                                                   *)

\* The constants, as the proofs use them.
LEMMA Sizes ==
    /\ MSGBUF_SIZE \in Nat /\ MSGBUF_SIZE > HDR /\ HDR = 5
    /\ WORD \in Nat /\ WORD > 0 /\ max_message_size \in Nat /\ max_message_size > 0
    /\ Pipe \in Nat
  BY SizeAssumption, LimitAssumption, PipeAssumption DEF HDR

\* A length taken modulo the word is a number.
LEMMA ModuloType ==
    ASSUME NEW a \in Nat, NEW b \in Nat, b > 0
    PROVE  a % b \in Nat
  OBVIOUS

\* Bytes that are copied stay inside the buffer.
LEMMA MemcpyType ==
    ASSUME NEW n \in Nat, NEW f \in Buffer(n), NEW at \in Nat, NEW bytes \in Seq(Nat)
    PROVE  Memcpy(f, at, bytes) \in Buffer(n)
<1>1. Len(bytes) \in Nat /\ \A j \in 1 .. Len(bytes) : bytes[j] \in Nat
  BY LenProperties, ElementOfSeq
<1>2. ASSUME NEW i \in 0 .. n - 1, i \in at .. at + Len(bytes) - 1 PROVE bytes[i - at + 1] \in Nat
  <2>1. i - at + 1 \in 1 .. Len(bytes)
    BY <1>1, <1>2
  <2> QED BY <1>1, <2>1
<1>3. DOMAIN f = 0 .. n - 1 /\ \A i \in 0 .. n - 1 : f[i] \in Nat
  BY DEF Buffer
<1> QED BY <1>2, <1>3 DEF Memcpy, Buffer

\* Bytes that are taken out of a buffer.
LEMMA SliceType ==
    ASSUME NEW n \in Nat, NEW f \in Buffer(n), NEW at \in Nat, NEW k \in Nat, at + k <= n
    PROVE  Slice(f, at, k) \in Seq(Nat)
<1>1. ASSUME NEW i \in 1 .. k PROVE f[at + i - 1] \in Nat
  <2>1. at + i - 1 \in 0 .. n - 1
    OBVIOUS
  <2> QED BY <2>1 DEF Buffer
<1>2. Slice(f, at, k) \in [1 .. k -> Nat]
  BY <1>1 DEF Slice
<1> QED BY <1>2

\* A sequence cut in two.
LEMMA Cut ==
    ASSUME NEW s \in Seq(Nat), NEW k \in Nat, k <= Len(s)
    PROVE  /\ SubSeq(s, 1, k) \in Seq(Nat) /\ Len(SubSeq(s, 1, k)) = k
           /\ SubSeq(s, k + 1, Len(s)) \in Seq(Nat)
<1>1. Len(s) \in Nat /\ \A j \in 1 .. Len(s) : s[j] \in Nat
  BY LenProperties, ElementOfSeq
<1>2. \A j \in 1 .. k : s[j] \in Nat
  BY <1>1
<1>3. \A j \in k + 1 .. Len(s) : s[j] \in Nat
  BY <1>1
<1> QED BY <1>1, <1>2, <1>3, SubSeqProperties

\* What remains of a record of any type when some fields are replaced.
LEMMA RecordFields ==
    ASSUME NEW P, NEW m \in Record(P)
    PROVE  /\ m.version \in Nat /\ m.tag \in Nat /\ m.priority \in Nat /\ m.is_fragment \in Nat
           /\ m.datalen \in Nat /\ m.header_index \in Nat /\ m.read_index \in Nat
           /\ m.write_index \in Nat /\ m.fd_write_index \in Nat /\ m.hdrbuf \in Seq(Nat) /\ m.payload \in P
  BY DEF Record

\* write_message_header changes the payload only.
LEMMA HeaderFacts ==
    ASSUME NEW n \in Nat, NEW m \in Record(Buffer(n)), m.header_index + HDR <= m.write_index
    PROVE  \E f \in Buffer(n) : write_message_header(m) = [m EXCEPT !.payload = f]
<1>1. /\ m.tag \in Nat /\ m.priority \in Nat /\ m.is_fragment \in Nat /\ m.header_index \in Nat
      /\ m.write_index \in Nat /\ m.payload \in Buffer(n)
  BY RecordFields
<1> DEFINE len == (m.write_index - m.header_index - HDR) % WORD
           bytes == <<VERSION, m.tag, m.priority, m.is_fragment, len>>
<1>2. len \in Nat
  <2>1. m.write_index - m.header_index - HDR \in Nat
    BY <1>1, Sizes
  <2> QED BY <2>1, Sizes
<1>3. bytes \in Seq(Nat)
  <2> HIDE DEF len
  <2> QED BY <1>1, <1>2 DEF VERSION
<1>4. Memcpy(m.payload, m.header_index, bytes) \in Buffer(n)
  <2> HIDE DEF bytes
  <2> QED BY <1>1, <1>3, MemcpyType
<1>5. write_message_header(m) = [m EXCEPT !.payload = Memcpy(m.payload, m.header_index, bytes)]
  BY DEF write_message_header, Record
<1> HIDE DEF bytes
<1> QED BY <1>4, <1>5

\* The indexes of a message do not change when its header is written.
LEMMA SameIndexes ==
    ASSUME NEW n \in Nat, NEW m \in Record(Buffer(n)), NEW f \in Buffer(n),
           NEW o, o = [m EXCEPT !.payload = f]
    PROVE  /\ o \in Record(Buffer(n)) /\ o.payload = f
           /\ o.version = m.version /\ o.tag = m.tag /\ o.priority = m.priority
           /\ o.is_fragment = m.is_fragment /\ o.datalen = m.datalen /\ o.header_index = m.header_index
           /\ o.read_index = m.read_index /\ o.write_index = m.write_index
           /\ o.fd_write_index = m.fd_write_index /\ o.hdrbuf = m.hdrbuf
  BY DEF Record

\* prelude_msg_write_r: the bytes it passes on are in the buffer, and the message
\* it leaves has the indexes it had.
LEMMA WrittenFacts ==
    ASSUME NEW n \in Nat, NEW m \in Record(Buffer(n)), m.header_index + HDR <= m.write_index,
           m.write_index <= n, NEW k \in Nat, m.fd_write_index + k <= Dlen(m)
    PROVE  /\ Slice(Outgoing(m).payload, m.fd_write_index, k) \in Seq(Nat)
           /\ Written(m, k) \in Record(Buffer(n))
           /\ Written(m, k).datalen = m.datalen /\ Written(m, k).header_index = m.header_index
           /\ Written(m, k).read_index = m.read_index /\ Written(m, k).write_index = m.write_index
           /\ Written(m, k).is_fragment = m.is_fragment /\ Written(m, k).hdrbuf = m.hdrbuf
           /\ Written(m, k).fd_write_index =
                 IF m.fd_write_index + k = Dlen(m) THEN 0 ELSE m.fd_write_index + k
<1>1. /\ m.write_index \in Nat /\ m.fd_write_index \in Nat /\ m.header_index \in Nat /\ m.payload \in Buffer(n)
  BY RecordFields
<1>2. PICK f \in Buffer(n) : Outgoing(m) = [m EXCEPT !.payload = f]
  <2>1. CASE m.header_index = 0
    BY <2>1, HeaderFacts DEF Outgoing
  <2>2. CASE m.header_index # 0
    <3>1. m = [m EXCEPT !.payload = m.payload]
      BY DEF Record
    <3> QED BY <1>1, <2>2, <3>1 DEF Outgoing
  <2> QED BY <2>1, <2>2
<1> DEFINE o == Outgoing(m)
<1>3. /\ o \in Record(Buffer(n)) /\ o.payload = f /\ o.is_fragment = m.is_fragment
      /\ o.datalen = m.datalen /\ o.header_index = m.header_index
      /\ o.read_index = m.read_index /\ o.write_index = m.write_index
      /\ o.fd_write_index = m.fd_write_index /\ o.hdrbuf = m.hdrbuf
  BY <1>2, SameIndexes
<1> HIDE DEF o
<1>4. Dlen(m) <= m.write_index
  BY <1>1, Sizes DEF Dlen
<1>5. m.fd_write_index + k <= n
  BY <1>1, <1>4, Sizes DEF Dlen
<1>6. Slice(f, m.fd_write_index, k) \in Seq(Nat)
  BY <1>1, <1>5, SliceType
<1>7. Slice(Outgoing(m).payload, m.fd_write_index, k) \in Seq(Nat)
  BY <1>3, <1>6 DEF o
<1> DEFINE fd == IF m.fd_write_index + k = Dlen(m) THEN 0 ELSE m.fd_write_index + k
<1>8. Written(m, k) = [o EXCEPT !.fd_write_index = fd]
  BY <1>3 DEF Written, o, Record
<1>9. fd \in Nat
  BY <1>1
<1> HIDE DEF fd
<1>10. /\ Written(m, k) \in Record(Buffer(n)) /\ Written(m, k).fd_write_index = fd
       /\ Written(m, k).datalen = o.datalen /\ Written(m, k).header_index = o.header_index
       /\ Written(m, k).read_index = o.read_index /\ Written(m, k).write_index = o.write_index
       /\ Written(m, k).is_fragment = o.is_fragment /\ Written(m, k).hdrbuf = o.hdrbuf
  BY <1>3, <1>8, <1>9 DEF Record
<1> QED BY <1>3, <1>7, <1>10 DEF fd

\* What is left to write of a message.
LEMMA DlenFacts ==
    ASSUME NEW m, Outward(m)
    PROVE  /\ m \in Record(Buffer(MSGBUF_SIZE)) /\ Dlen(m) \in Nat /\ Dlen(m) <= m.write_index
           /\ m.write_index \in Nat /\ m.header_index \in Nat /\ m.fd_write_index \in Nat /\ m.is_fragment \in Nat
<1>1. m \in Record(Buffer(MSGBUF_SIZE))
  BY DEF Outward, Own
<1>2. m.write_index \in Nat /\ m.header_index \in Nat /\ m.fd_write_index \in Nat /\ m.is_fragment \in Nat
  BY <1>1, RecordFields
<1>3. Dlen(m) \in Nat /\ Dlen(m) <= m.write_index
  BY <1>2, Sizes DEF Dlen, Outward
<1> QED BY <1>1, <1>2, <1>3

\* A partial write leaves a message that can be written on.
LEMMA WrittenOutward ==
    ASSUME NEW m, Outward(m), NEW k \in Nat, m.fd_write_index + k <= Dlen(m)
    PROVE  /\ Slice(Outgoing(m).payload, m.fd_write_index, k) \in Seq(Nat)
           /\ Written(m, k) \in Own /\ Written(m, k).datalen = MSGBUF_SIZE
           /\ m.fd_write_index + k # Dlen(m) => Outward(Written(m, k))
<1>1. /\ m \in Record(Buffer(MSGBUF_SIZE)) /\ Dlen(m) \in Nat
      /\ m.write_index \in Nat /\ m.header_index \in Nat /\ m.fd_write_index \in Nat
      /\ m.header_index + HDR <= m.write_index /\ m.write_index <= MSGBUF_SIZE /\ m.datalen = MSGBUF_SIZE
  BY DlenFacts DEF Outward
<1> DEFINE w == Written(m, k)
<1>2. /\ Slice(Outgoing(m).payload, m.fd_write_index, k) \in Seq(Nat)
      /\ w \in Record(Buffer(MSGBUF_SIZE)) /\ w.datalen = m.datalen /\ w.header_index = m.header_index
      /\ w.write_index = m.write_index /\ w.is_fragment = m.is_fragment
      /\ w.fd_write_index = IF m.fd_write_index + k = Dlen(m) THEN 0 ELSE m.fd_write_index + k
  BY <1>1, WrittenFacts, Sizes
<1> HIDE DEF w
<1>3. ASSUME m.fd_write_index + k # Dlen(m) PROVE Outward(w)
  <2>1. Dlen(w) = Dlen(m)
    BY <1>2 DEF Dlen
  <2>2. w.fd_write_index < Dlen(w)
    <3>1. w.fd_write_index = m.fd_write_index + k
      BY <1>2, <1>3
    <3>2. m.fd_write_index + k < Dlen(m)
      BY <1>1, <1>3
    <3> QED BY <2>1, <3>1, <3>2
  <2> QED BY <1>1, <1>2, <2>2 DEF Outward, Own
<1> QED BY <1>1, <1>2, <1>3 DEF w, Own

\* The empty buffer that prelude_msg_recycle and call_alloc_cb leave.
LEMMA EmptyOutward ==
    ASSUME NEW m \in Own, m.datalen = MSGBUF_SIZE, m.header_index = 0, m.write_index = HDR, m.fd_write_index = 0
    PROVE  Outward(m)
  BY Sizes DEF Outward, Dlen

\* What the application goes on with after the send callback.
LEMMA Recycled ==
    ASSUME NEW m \in Own, m.datalen = MSGBUF_SIZE,
           NEW r, r = [prelude_msg_recycle(m) EXCEPT !.priority = PRIORITY_NONE]
    PROVE  r \in Own /\ r.datalen = MSGBUF_SIZE /\ Outward(r) /\ r.fd_write_index = 0
<1>1. r \in Own /\ r.datalen = MSGBUF_SIZE /\ r.header_index = 0 /\ r.write_index = HDR /\ r.fd_write_index = 0
  BY DEF Own, Record, prelude_msg_recycle, PRIORITY_NONE, HDR
<1> QED BY <1>1, EmptyOutward

\* The buffer prelude_msg_dynamic_new allocates.
LEMMA NewOutward ==
    /\ prelude_msg_dynamic_new \in Own /\ prelude_msg_dynamic_new.datalen = MSGBUF_SIZE
    /\ Outward(prelude_msg_dynamic_new) /\ prelude_msg_dynamic_new.fd_write_index = 0
<1> DEFINE f == [i \in 0 .. MSGBUF_SIZE - 1 |-> Uninitialized]
           d == prelude_msg_dynamic_new
<1>1. f \in Buffer(MSGBUF_SIZE) /\ <<>> \in Seq(Nat)
  BY EmptySeq DEF Buffer, Uninitialized
<1> HIDE DEF f
<1>2. /\ d \in Own /\ d.datalen = MSGBUF_SIZE /\ d.header_index = 0 /\ d.write_index = HDR
      /\ d.fd_write_index = 0
  BY <1>1, Sizes DEF Own, Record, prelude_msg_dynamic_new, VERSION, PRIORITY_NONE, f
<1> HIDE DEF d
<1>3. Outward(d)
  BY <1>2, EmptyOutward
<1> QED BY <1>2, <1>3 DEF d

\* The buffer call_alloc_cb leaves.
LEMMA ResetOutward ==
    ASSUME NEW m \in Own, m.datalen = MSGBUF_SIZE, m.fd_write_index = 0, NEW r, r = CallAllocReset(m)
    PROVE  Outward(r) /\ r.fd_write_index = 0
<1>1. /\ r \in Own /\ r.datalen = MSGBUF_SIZE /\ r.header_index = 0 /\ r.write_index = HDR
      /\ r.fd_write_index = 0
  BY DEF Own, Record, CallAllocReset, HDR
<1> QED BY <1>1, EmptyOutward

-----------------------------------------------------------------------------
(* The writer.                                                             *)

\* Bytes that the descriptor takes.
LEMMA TakesFacts ==
    ASSUME Descriptors, NEW l \in Links, NEW m, Dlen(m) \in Nat, m.fd_write_index \in Nat, NEW k \in Takes(l, m)
    PROVE  k \in Nat /\ k > 0 /\ m.fd_write_index + k <= Dlen(m)
<1>1. Len(wire[l]) \in Nat
  BY LenProperties DEF Descriptors
<1> QED BY <1>1, Sizes DEF Takes, Min2

\* Write leaves bytes in the descriptor.
LEMMA WriteType ==
    ASSUME Descriptors, NEW l \in Links, NEW m, NEW k,
           Slice(Outgoing(m).payload, m.fd_write_index, k) \in Seq(Nat), Write(l, m, k)
    PROVE  Descriptors'
<1> DEFINE s == Slice(Outgoing(m).payload, m.fd_write_index, k)
<1>1. wire' = [wire EXCEPT ![l] = @ \o s] /\ s \in Seq(Nat)
  BY DEF Write
<1> HIDE DEF s
<1>2. wire[l] \in Seq(Nat)
  BY DEF Descriptors
<1>3. wire[l] \o s \in Seq(Nat)
  BY <1>1, <1>2, ConcatProperties
<1> QED BY <1>1, <1>3 DEF Descriptors

\* The data of a chunk, as it is written.
LEMMA EncodeType ==
    ASSUME NEW x \in Messages, NEW i \in 1 .. Len(x.chunks)
    PROVE  Encode(x.chunks[i]) \in Seq(Nat)
<1> DEFINE c == x.chunks[i]
<1>1. c.tag \in Nat /\ c.data \in Seq(Nat)
  BY MessagesAssumption
<1> HIDE DEF c
<1>2. Len(c.data) \in Nat
  BY <1>1, LenProperties
<1>3. <<c.tag, Len(c.data)>> \in Seq(Nat)
  BY <1>1, <1>2
<1>4. <<c.tag, Len(c.data)>> \o c.data \in Seq(Nat)
  BY <1>1, <1>3, ConcatProperties
<1> QED BY <1>4 DEF Encode, c

\* The three ways on after the send callback.
LEMMA ReturnFacts ==
    ASSUME Writer, Flushing, NEW m \in Own, m.datalen = MSGBUF_SIZE, Outward(m), m.fd_write_index = 0, Return(m)
    PROVE  Writer'
<1>1. pc \in {"flush 1", "flush 2", "flush end", "send", "destroy"}
  BY DEF Flushing
<1>2. /\ pc' \in {"set 1", "set 2", "send", "idle"} /\ pending' = pending /\ cur' = cur /\ cur \in Messages
      /\ pending \in Seq(Nat)
  BY <1>1 DEF Return, Writer
<1>3. Outward(msg)' /\ msg'.fd_write_index = 0
  <2>1. msg' = m \/ msg' = prelude_msg_dynamic_new \/ msg' = CallAllocReset(m)
    BY <1>1 DEF Return
  <2>2. CASE msg' = m
    BY <2>2 DEF Outward, Dlen
  <2>3. CASE msg' = prelude_msg_dynamic_new
    BY <2>3, NewOutward DEF Outward, Dlen
  <2>4. CASE msg' = CallAllocReset(m)
    BY <2>4, ResetOutward DEF Outward, Dlen
  <2> QED BY <2>1, <2>2, <2>3, <2>4
<1> QED BY <1>2, <1>3 DEF Writer, Labels

\* set_data copies no more than the room that is left.
LEMMA SetDataStep ==
    ASSUME Writer, NEW n \in {1, 2}, set_data(n)
    PROVE  Writer'
<1> DEFINE room == msg.datalen - msg.write_index
           k == Min2(Len(pending), room)
           more == k < Len(pending)
           f == Memcpy(msg.payload, msg.write_index, SubSeq(pending, 1, k))
           frag == IF more THEN 1 ELSE msg.is_fragment
           w == msg.write_index + k
<1>1. /\ Outward(msg) /\ pending \in Seq(Nat) /\ Len(pending) \in Nat
      /\ msg \in Record(Buffer(MSGBUF_SIZE)) /\ msg.write_index \in Nat /\ msg.header_index \in Nat
      /\ msg.payload \in Buffer(MSGBUF_SIZE) /\ msg.is_fragment \in Nat
      /\ msg.header_index + HDR <= msg.write_index /\ msg.write_index <= MSGBUF_SIZE
      /\ msg.datalen = MSGBUF_SIZE
  BY DlenFacts, RecordFields, LenProperties DEF Writer, Outward
<1>2. pc \in {"set 1", "set 2"} /\ cur \in Messages /\ msg.fd_write_index = 0 /\ cur' = cur
  BY DEF set_data, Setting, Writer, Flushing
<1>3. k \in Nat /\ k <= Len(pending) /\ msg.write_index + k <= MSGBUF_SIZE
  BY <1>1, Sizes DEF Min2
<1>4. /\ pending' = SubSeq(pending, k + 1, Len(pending))
      /\ msg' = [msg EXCEPT !.payload = f, !.write_index = w, !.is_fragment = frag]
      /\ pc' \in {"flush 1", "flush 2", "set 1", "set 2"}
  BY <1>1, <1>2 DEF set_data, Record
<1> HIDE DEF k
<1>5. SubSeq(pending, 1, k) \in Seq(Nat) /\ pending' \in Seq(Nat)
  BY <1>1, <1>3, <1>4, Cut
<1>6. f \in Buffer(MSGBUF_SIZE)
  BY <1>1, <1>5, MemcpyType, Sizes
<1>7. frag \in Nat /\ w \in Nat
  BY <1>1, <1>3
<1> HIDE DEF f, frag, w
<1>a. /\ msg' \in Own /\ msg'.datalen = MSGBUF_SIZE /\ msg'.header_index = msg.header_index
      /\ msg'.write_index = w /\ msg'.fd_write_index = 0
  BY <1>1, <1>2, <1>4, <1>6, <1>7 DEF Own, Record
<1>8. /\ msg' \in Own /\ msg'.datalen = MSGBUF_SIZE /\ msg'.header_index = msg.header_index
      /\ msg'.write_index = msg.write_index + k /\ msg'.fd_write_index = 0
  BY <1>a DEF w
<1>9. msg'.header_index + HDR <= msg'.write_index /\ msg'.write_index <= MSGBUF_SIZE
  BY <1>1, <1>3, <1>8, Sizes
<1>10. 0 < Dlen(msg)'
  BY <1>1, <1>3, <1>8, <1>9, Sizes DEF Dlen
<1>11. Outward(msg)'
  BY <1>8, <1>9, <1>10 DEF Outward
<1> QED BY <1>2, <1>4, <1>5, <1>8, <1>11 DEF Writer, Labels

\* prelude_msg_mark_end starts the next message only if it fits.
LEMMA MarkEndStep ==
    ASSUME Writer, prelude_msg_mark_end
    PROVE  Writer'
<1>1. /\ Outward(msg) /\ msg \in Record(Buffer(MSGBUF_SIZE)) /\ msg.write_index \in Nat /\ msg.header_index \in Nat
      /\ msg.header_index + HDR <= msg.write_index /\ msg.write_index <= MSGBUF_SIZE
      /\ msg.datalen = MSGBUF_SIZE /\ msg.is_fragment \in Nat
  BY DlenFacts DEF Writer, Outward
<1>2. /\ msg.fd_write_index = 0 /\ cur \in Messages /\ cur' = cur /\ pending' = pending /\ pending \in Seq(Nat)
      /\ pc' \in {"send", "flush end"}
  BY DEF prelude_msg_mark_end, Writer, Flushing
<1>3. CASE prelude_msg_is_empty(msg)
  <2>1. msg' = msg
    BY <1>3 DEF prelude_msg_mark_end
  <2> QED BY <1>1, <1>2, <2>1 DEF Writer, Labels, Outward, Dlen
<1>4. CASE ~ prelude_msg_is_empty(msg)
  <2> DEFINE m == write_message_header(msg)
             full == msg.write_index + HDR + MINIMUM_FRAGMENT_DATA_SIZE > msg.datalen
  <2>1. PICK f \in Buffer(MSGBUF_SIZE) : m = [msg EXCEPT !.payload = f]
    BY <1>1, HeaderFacts, Sizes
  <2>2. /\ m \in Record(Buffer(MSGBUF_SIZE)) /\ m.datalen = msg.datalen /\ m.header_index = msg.header_index
        /\ m.write_index = msg.write_index /\ m.fd_write_index = msg.fd_write_index
        /\ m.is_fragment = msg.is_fragment
    BY <1>1, <2>1, SameIndexes, Sizes
  <2>3. msg' = IF full THEN m ELSE [m EXCEPT !.header_index = msg.write_index, !.write_index = @ + HDR]
    BY <1>4 DEF prelude_msg_mark_end
  <2> HIDE DEF m
  <2>4. CASE full
    <3>1. msg' = m
      BY <2>3, <2>4
    <3>2. Dlen(msg)' = Dlen(msg)
      BY <2>2, <3>1 DEF Dlen
    <3>3. Outward(msg)'
      BY <1>1, <2>2, <3>1, <3>2 DEF Outward, Own
    <3> QED BY <1>2, <2>2, <3>1, <3>3 DEF Writer, Labels
  <2>5. CASE ~ full
    <3> DEFINE w == msg.write_index + HDR
    <3>a. w \in Nat
      BY <1>1, Sizes
    <3>b. msg' = [m EXCEPT !.header_index = msg.write_index, !.write_index = w]
      BY <2>2, <2>3, <2>5 DEF Record
    <3> HIDE DEF w
    <3>c. /\ msg' \in Own /\ msg'.datalen = MSGBUF_SIZE /\ msg'.header_index = msg.write_index
          /\ msg'.write_index = w /\ msg'.fd_write_index = 0
      BY <1>1, <1>2, <2>2, <3>a, <3>b DEF Own, Record
    <3>1. /\ msg' \in Own /\ msg'.datalen = MSGBUF_SIZE /\ msg'.header_index = msg.write_index
          /\ msg'.write_index = msg.write_index + HDR /\ msg'.fd_write_index = 0
      BY <3>c DEF w
    <3>2. msg'.write_index <= MSGBUF_SIZE
      BY <1>1, <2>5, <3>1, Sizes DEF MINIMUM_FRAGMENT_DATA_SIZE
    <3>3. 0 < Dlen(msg)'
      BY <1>1, <3>1, Sizes DEF Dlen
    <3>4. Outward(msg)'
      BY <1>1, <3>1, <3>2, <3>3, Sizes DEF Outward
    <3> QED BY <1>2, <3>1, <3>4 DEF Writer, Labels
  <2> QED BY <2>4, <2>5
<1> QED BY <1>3, <1>4

\* do_send_msg writes some bytes of the buffer, or the last ones.
LEMMA SendSomeStep ==
    ASSUME Writer, Descriptors, SendSome
    PROVE  Writer' /\ Descriptors'
<1>1. Outward(msg) /\ Flushing
  BY DEF Writer, SendSome
<1>2. Dlen(msg) \in Nat /\ msg.fd_write_index \in Nat
  BY <1>1, DlenFacts
<1>3. PICK n \in Takes("relay", msg) :
        /\ Write("relay", msg, n)
        /\ IF msg.fd_write_index + n < Dlen(msg)
           THEN msg' = Written(msg, n) /\ UNCHANGED <<async, pc, cur, pending, sent, reader>>
           ELSE Return([prelude_msg_recycle(Written(msg, n)) EXCEPT !.priority = PRIORITY_NONE])
  BY DEF SendSome
<1>4. n \in Nat /\ n > 0 /\ msg.fd_write_index + n <= Dlen(msg)
  BY <1>2, TakesFacts DEF Links
<1>5. /\ Slice(Outgoing(msg).payload, msg.fd_write_index, n) \in Seq(Nat)
      /\ Written(msg, n) \in Own /\ Written(msg, n).datalen = MSGBUF_SIZE
      /\ msg.fd_write_index + n # Dlen(msg) => Outward(Written(msg, n))
  BY <1>1, <1>4, WrittenOutward
<1>6. Descriptors'
  BY <1>3, <1>5, WriteType DEF Links
<1>7. CASE msg.fd_write_index + n < Dlen(msg)
  <2>1. msg' = Written(msg, n) /\ pc' = pc /\ cur' = cur /\ pending' = pending
    BY <1>3, <1>7
  <2>2. Outward(Written(msg, n))
    BY <1>2, <1>4, <1>5, <1>7
  <2>3. Outward(msg)'
    BY <2>1, <2>2 DEF Outward, Dlen
  <2> QED BY <1>1, <1>6, <2>1, <2>3 DEF Writer, Flushing
<1>8. CASE ~ (msg.fd_write_index + n < Dlen(msg))
  <2> DEFINE r == [prelude_msg_recycle(Written(msg, n)) EXCEPT !.priority = PRIORITY_NONE]
  <2>1. Return(r)
    BY <1>3, <1>8
  <2>2. r \in Own /\ r.datalen = MSGBUF_SIZE /\ Outward(r) /\ r.fd_write_index = 0
    BY <1>5, Recycled
  <2> HIDE DEF r
  <2> QED BY <1>1, <1>6, <2>1, <2>2, ReturnFacts
<1> QED BY <1>7, <1>8

\* Every action leaves the buffer of the application in order.
LEMMA WriterKept ==
    ASSUME MsgInv, [Next]_vars
    PROVE  Writer'
<1> USE DEF MsgInv
<1>1. ASSUME NEW x \in Messages, Begin(x) PROVE Writer'
  <2>1. Outward(msg) /\ msg.fd_write_index = 0
    BY <1>1 DEF Writer, Begin, Flushing
  <2>2. msg' = [msg EXCEPT !.tag = x.tag] /\ cur' = x /\ pending' = Encode(x.chunks[1]) /\ pc' = "set 1"
    BY <1>1 DEF Begin
  <2>3. x.tag \in Nat /\ 1 \in 1 .. Len(x.chunks)
    BY MessagesAssumption
  <2>4. pending' \in Seq(Nat)
    BY <2>2, <2>3, EncodeType
  <2>5. /\ msg' \in Own /\ msg'.datalen = msg.datalen /\ msg'.header_index = msg.header_index
        /\ msg'.write_index = msg.write_index /\ msg'.fd_write_index = msg.fd_write_index
        /\ msg'.is_fragment = msg.is_fragment
    BY <2>1, <2>2, <2>3 DEF Outward, Own, Record
  <2>6. Outward(msg)'
    BY <2>1, <2>5 DEF Outward, Dlen
  <2> QED BY <2>1, <2>2, <2>4, <2>5, <2>6 DEF Writer, Labels
<1>2. ASSUME set_data(1) \/ set_data(2) PROVE Writer'
  BY <1>2, SetDataStep
<1>3. ASSUME prelude_msg_set_priority PROVE Writer'
  <2>1. Outward(msg) /\ msg.fd_write_index = 0 /\ cur \in Messages /\ pending \in Seq(Nat)
    BY <1>3 DEF Writer, prelude_msg_set_priority, Flushing
  <2>2. msg' = [msg EXCEPT !.priority = cur.priority] /\ cur' = cur /\ pc' \in {"set 2", "end"}
    BY <1>3 DEF prelude_msg_set_priority
  <2>3. cur.priority \in Nat
    BY <2>1, MessagesAssumption
  <2>4. pending' \in Seq(Nat)
    <3>1. CASE Len(cur.chunks) = 2
      <4>1. 2 \in 1 .. Len(cur.chunks)
        BY <3>1
      <4>2. pending' = Encode(cur.chunks[2])
        BY <1>3, <3>1 DEF prelude_msg_set_priority
      <4> QED BY <2>1, <4>1, <4>2, EncodeType
    <3>2. CASE Len(cur.chunks) # 2
      BY <1>3, <2>1, <3>2 DEF prelude_msg_set_priority
    <3> QED BY <3>1, <3>2
  <2>5. /\ msg' \in Own /\ msg'.datalen = msg.datalen /\ msg'.header_index = msg.header_index
        /\ msg'.write_index = msg.write_index /\ msg'.fd_write_index = msg.fd_write_index
        /\ msg'.is_fragment = msg.is_fragment
    BY <2>1, <2>2, <2>3 DEF Outward, Own, Record
  <2>6. Outward(msg)'
    BY <2>1, <2>5 DEF Outward, Dlen
  <2> QED BY <2>1, <2>2, <2>4, <2>5, <2>6 DEF Writer, Labels
<1>4. ASSUME LastChunkSet \/ prelude_msgbuf_destroy PROVE Writer'
  <2>1. /\ msg' = msg /\ cur' = cur /\ pending' = pending /\ pc' \in {"end", "destroy"} /\ pc \in {"set 2", "end"}
    BY <1>4 DEF LastChunkSet, prelude_msgbuf_destroy
  <2>2. Outward(msg) /\ msg.fd_write_index = 0 /\ cur \in Messages /\ pending \in Seq(Nat)
    BY <2>1 DEF Writer, Flushing
  <2>3. Outward(msg)'
    BY <2>1, <2>2 DEF Outward, Dlen
  <2> QED BY <2>1, <2>2, <2>3 DEF Writer, Labels
<1>5. ASSUME prelude_msg_mark_end PROVE Writer'
  BY <1>5, MarkEndStep
<1>6. ASSUME SendSome PROVE Writer'
  BY <1>6, SendSomeStep
<1>7. ASSUME SendNone PROVE Writer'
  <2> DEFINE r == [prelude_msg_recycle(msg) EXCEPT !.priority = PRIORITY_NONE]
  <2>1. Return(r) /\ Flushing
    BY <1>7 DEF SendNone
  <2>2. msg \in Own /\ msg.datalen = MSGBUF_SIZE
    BY DEF Writer, Outward
  <2>3. r \in Own /\ r.datalen = MSGBUF_SIZE /\ Outward(r) /\ r.fd_write_index = 0
    BY <2>2, Recycled
  <2> HIDE DEF r
  <2> QED BY <2>1, <2>3, ReturnFacts
<1>8. ASSUME do_send_msg_async PROVE Writer'
  <2>1. Flushing /\ Return(prelude_msg_dynamic_new)
    BY <1>8 DEF do_send_msg_async
  <2> QED BY <2>1, NewOutward, ReturnFacts
<1>9. ASSUME UNCHANGED writer PROVE Writer'
  <2>1. msg' = msg /\ cur' = cur /\ pending' = pending /\ pc' = pc
    BY <1>9 DEF writer
  <2>2. Outward(msg)'
    BY <2>1 DEF Writer, Outward, Dlen
  <2> QED BY <2>1, <2>2 DEF Writer, Flushing
<1>10. CASE JobWrites \/ JobWritesNone
  BY <1>9, <1>10 DEF JobWrites, JobWritesNone
<1>11. CASE \E l \in Links : read_message_header(l) \/ read_message_content(l)
  BY <1>9, <1>11 DEF read_message_header, read_message_content
<1>12. CASE prelude_msg_write \/ prelude_msg_get
  BY <1>9, <1>12 DEF prelude_msg_write, prelude_msg_get
<1>13. CASE UNCHANGED vars
  BY <1>9, <1>13 DEF vars
<1> QED BY <1>1, <1>2, <1>3, <1>4, <1>5, <1>6, <1>7, <1>8, <1>10, <1>11, <1>12, <1>13 DEF Next, WriterStep


-----------------------------------------------------------------------------
(* The queue of the asynchronous thread.                                   *)

\* JobWrites: the bytes written are in the buffer, the rest can be written.
LEMMA JobWritesStep ==
    ASSUME Queued, Descriptors, JobWrites
    PROVE  Queued' /\ Descriptors'
<1> DEFINE h == Head(joblist)
<1>1. joblist \in Seq(Own) /\ joblist # <<>> /\ Len(joblist) \in Nat /\ Len(joblist) >= 1
  BY LenProperties, EmptySeq DEF Queued, JobWrites
<1>2. h = joblist[1] /\ Outward(h)
  BY <1>1, HeadTailProperties DEF Queued
<1>3. Dlen(h) \in Nat /\ h.fd_write_index \in Nat
  BY <1>2, DlenFacts
<1>4. PICK n \in Takes("relay", h) :
        /\ Write("relay", h, n)
        /\ joblist' = IF h.fd_write_index + n = Dlen(h) THEN Tail(joblist)
                      ELSE [joblist EXCEPT ![1] = Written(@, n)]
  BY DEF JobWrites
<1> HIDE DEF h
<1>5. n \in Nat /\ n > 0 /\ h.fd_write_index + n <= Dlen(h)
  BY <1>3, TakesFacts DEF Links
<1>6. /\ Slice(Outgoing(h).payload, h.fd_write_index, n) \in Seq(Nat) /\ Written(h, n) \in Own
      /\ h.fd_write_index + n # Dlen(h) => Outward(Written(h, n))
  BY <1>2, <1>5, WrittenOutward
<1>7. Descriptors'
  BY <1>4, <1>6, WriteType DEF Links
<1>8. Queued'
  <2>1. CASE h.fd_write_index + n = Dlen(h)
    <3>1. joblist' = Tail(joblist)
      BY <1>4, <2>1
    <3>2. /\ joblist' \in Seq(Own) /\ Len(joblist') = Len(joblist) - 1
          /\ \A i \in 1 .. Len(joblist') : joblist'[i] = joblist[i + 1]
      BY <1>1, <3>1, HeadTailProperties
    <3>3. ASSUME NEW i \in 1 .. Len(joblist') PROVE Outward(joblist[i])'
      <4>1. joblist'[i] = joblist[i + 1] /\ i + 1 \in 1 .. Len(joblist)
        BY <1>1, <3>2
      <4>2. Outward(joblist[i + 1])
        BY <4>1 DEF Queued
      <4> QED BY <4>1, <4>2 DEF Outward, Dlen
    <3> QED BY <3>2, <3>3 DEF Queued
  <2>2. CASE h.fd_write_index + n # Dlen(h)
    <3> DEFINE w == Written(h, n)
    <3>1. joblist' = [joblist EXCEPT ![1] = w] /\ w \in Own /\ Outward(w)
      BY <1>2, <1>4, <1>6, <2>2
    <3> HIDE DEF w
    <3>2. joblist' \in Seq(Own) /\ Len(joblist') = Len(joblist)
      BY <1>1, <3>1
    <3>3. ASSUME NEW i \in 1 .. Len(joblist') PROVE Outward(joblist[i])'
      <4>1. joblist'[i] = w \/ joblist'[i] = joblist[i]
        BY <1>1, <3>1, <3>2
      <4>2. Outward(joblist[i])
        BY <3>2 DEF Queued
      <4> QED BY <3>1, <4>1, <4>2 DEF Outward, Dlen
    <3> QED BY <3>2, <3>3 DEF Queued
  <2> QED BY <2>1, <2>2
<1> QED BY <1>7, <1>8

\* Every action leaves messages in the queue that can be written.
LEMMA QueuedKept ==
    ASSUME MsgInv, [Next]_vars
    PROVE  Queued'
<1> USE DEF MsgInv
<1>1. ASSUME UNCHANGED joblist PROVE Queued'
  BY <1>1 DEF Queued, Outward, Dlen
<1>2. ASSUME do_send_msg_async PROVE Queued'
  <2>1. joblist' = Append(joblist, msg) /\ msg \in Own /\ Outward(msg) /\ joblist \in Seq(Own)
    BY <1>2 DEF do_send_msg_async, Writer, Outward, Queued
  <2>2. /\ joblist' \in Seq(Own) /\ Len(joblist') = Len(joblist) + 1 /\ Len(joblist) \in Nat
        /\ \A i \in 1 .. Len(joblist) : joblist'[i] = joblist[i]
        /\ joblist'[Len(joblist) + 1] = msg
    BY <2>1, AppendProperties, LenProperties
  <2>3. ASSUME NEW i \in 1 .. Len(joblist') PROVE Outward(joblist[i])'
    <3>1. CASE i \in 1 .. Len(joblist)
      <4>1. Outward(joblist[i]) /\ joblist'[i] = joblist[i]
        BY <2>2, <3>1 DEF Queued
      <4> QED BY <4>1 DEF Outward, Dlen
    <3>2. CASE i = Len(joblist) + 1
      BY <2>1, <2>2, <3>2 DEF Outward, Dlen
    <3> QED BY <2>2, <3>1, <3>2
  <2> QED BY <2>2, <2>3 DEF Queued
<1>3. ASSUME JobWrites PROVE Queued'
  BY <1>3, JobWritesStep
<1>4. ASSUME JobWritesNone PROVE Queued'
  <2>1. joblist' = Tail(joblist) /\ joblist \in Seq(Own) /\ joblist # <<>> /\ Len(joblist) \in Nat
    BY <1>4, LenProperties DEF JobWritesNone, Queued
  <2>2. /\ joblist' \in Seq(Own) /\ Len(joblist') = Len(joblist) - 1
        /\ \A i \in 1 .. Len(joblist') : joblist'[i] = joblist[i + 1]
    BY <2>1, HeadTailProperties
  <2>3. ASSUME NEW i \in 1 .. Len(joblist') PROVE Outward(joblist[i])'
    <3>1. joblist'[i] = joblist[i + 1] /\ i + 1 \in 1 .. Len(joblist)
      BY <2>1, <2>2
    <3>2. Outward(joblist[i + 1])
      BY <3>1 DEF Queued
    <3> QED BY <3>1, <3>2 DEF Outward, Dlen
  <2> QED BY <2>2, <2>3 DEF Queued
<1>5. CASE \E x \in Messages : Begin(x)
  BY <1>1, <1>5 DEF Begin
<1>6. CASE WriterStep
  BY <1>1, <1>2, <1>6 DEF WriterStep, set_data, prelude_msg_set_priority, LastChunkSet,
     prelude_msg_mark_end, prelude_msgbuf_destroy, SendSome, SendNone
<1>7. CASE \E l \in Links : read_message_header(l) \/ read_message_content(l)
  BY <1>1, <1>7 DEF read_message_header, read_message_content
<1>8. CASE prelude_msg_write \/ prelude_msg_get \/ UNCHANGED vars
  BY <1>1, <1>8 DEF prelude_msg_write, prelude_msg_get, vars
<1> QED BY <1>3, <1>4, <1>5, <1>6, <1>7, <1>8 DEF Next

-----------------------------------------------------------------------------
(* The readers.                                                            *)

\* A step of one reader leaves the other alone.
LEMMA ReaderSteps ==
    ASSUME Readers, NEW l \in Links, NEW x, NEW b \in BOOLEAN,
           in' = [in EXCEPT ![l] = x], complete' = [complete EXCEPT ![l] = b],
           x # NoMsg => Inward(x), x # NoMsg /\ ~ b => x.fd_write_index = 0,
           b => Inward(x) /\ Whole(x)
    PROVE  Readers'
<1>1. DOMAIN in' = Links /\ complete' \in [Links -> BOOLEAN]
  BY DEF Readers
<1>2. ASSUME NEW k \in Links PROVE ReaderOf(k)'
  <2>1. CASE k = l
    <3>1. in'[k] = x /\ complete'[k] = b
      BY <2>1 DEF Readers
    <3> QED BY <3>1 DEF ReaderOf, Inward, Whole
  <2>2. CASE k # l
    <3>1. in'[k] = in[k] /\ complete'[k] = complete[k] /\ ReaderOf(k)
      BY <2>2 DEF Readers
    <3> QED BY <3>1 DEF ReaderOf, Inward, Whole
  <2> QED BY <2>1, <2>2
<1> QED BY <1>1, <1>2 DEF Readers

\* The fields of a message that is read.
LEMMA InwardFields ==
    ASSUME NEW m, Inward(m)
    PROVE  /\ m.version \in Nat /\ m.tag \in Nat /\ m.priority \in Nat /\ m.is_fragment \in Nat
           /\ m.datalen \in Nat /\ m.header_index \in Nat /\ m.read_index \in Nat
           /\ m.write_index \in Nat /\ m.fd_write_index \in Nat /\ m.hdrbuf \in Seq(Nat)
           /\ m \in Record({<<>>} \cup Buffer(m.datalen + HDR))
<1>1. m \in Record({<<>>} \cup Buffer(m.datalen + HDR))
  BY DEF Inward, Record
<1> QED BY <1>1, RecordFields

\* The message prelude_msg_read starts with.
LEMMA EmptyInward == Inward(EmptyMsg) /\ EmptyMsg.fd_write_index = 0 /\ EmptyMsg.header_index = 0
<1> DEFINE e == EmptyMsg
<1>1. /\ e \in Record({<<>>}) /\ e.datalen = 0 /\ e.header_index = 0 /\ e.read_index = HDR
      /\ e.fd_write_index = 0 /\ e.hdrbuf = <<>>
  BY EmptySeq, Sizes DEF Record, EmptyMsg, PRIORITY_NONE
<1>2. Len(<<>>) = 0
  BY EmptySeq
<1> HIDE DEF e
<1>3. Inward(e)
  BY <1>1, <1>2, Sizes DEF Inward
<1> QED BY <1>1, <1>3 DEF e


\* A header that passes the checks extends the buffer by its fragment.
LEMMA SliceInward ==
    ASSUME NEW m, Inward(m), NEW h \in Seq(Nat), Len(h) = HDR, ~ BadHeader(m, h)
    PROVE  /\ Inward(slice_message_header(m, h))
           /\ slice_message_header(m, h).fd_write_index = m.fd_write_index
<1>1. /\ m.version \in Nat /\ m.tag \in Nat /\ m.priority \in Nat /\ m.datalen \in Nat
      /\ m.read_index \in Nat /\ m.fd_write_index \in Nat
      /\ m \in Record({<<>>} \cup Buffer(m.datalen + HDR))
  BY InwardFields
<1>2. HDR <= m.read_index /\ m.read_index <= m.datalen + HDR /\ m.datalen < max_message_size
  BY DEF Inward
<1>3. h[1] \in Nat /\ h[2] \in Nat /\ h[3] \in Nat /\ h[4] \in Nat /\ h[5] \in Nat
  <2>1. \A i \in 1 .. 5 : h[i] \in Nat
    BY ElementOfSeq, Sizes
  <2> QED BY <2>1
<1> DEFINE dlen == Extended(m, h[5])
           f == [i \in 0 .. HDR + dlen - 1 |-> IF i \in DOMAIN m.payload THEN m.payload[i] ELSE Uninitialized]
           version == IF m.datalen = 0 THEN h[1] ELSE m.version
           tag == IF m.datalen = 0 THEN h[2] ELSE m.tag
           priority == IF m.priority = PRIORITY_NONE THEN h[3] ELSE m.priority
           s == slice_message_header(m, h)
           w == dlen + HDR
<1>4. dlen \in Nat /\ dlen > m.datalen /\ dlen < max_message_size
  <2>1. dlen \in Nat
    <3> DEFINE n == m.datalen + h[5]
    <3>a. \A x, y \in Nat : x + y \in Nat
      OBVIOUS
    <3>0. n \in Nat
      BY ONLY <1>1, <1>3, <3>a, ZenonT(60)
    <3>1. n \in Nat /\ dlen = n % WORD
      BY ONLY <3>0 DEF Extended
    <3> HIDE DEF n, dlen
    <3>2. n % WORD \in Nat
      BY ONLY <3>1, Sizes, ModuloType
    <3> QED BY ONLY <3>1, <3>2
  <2>2. ~ (dlen <= m.datalen) /\ ~ (dlen >= max_message_size)
    BY DEF BadHeader
  <2> HIDE DEF dlen
  <2> QED BY <1>1, <2>1, <2>2, Sizes
<1>5. s = [m EXCEPT !.version = version, !.tag = tag, !.priority = priority, !.is_fragment = h[4],
                    !.datalen = dlen, !.write_index = w, !.header_index = HDR, !.hdrbuf = h, !.payload = f]
  BY <1>1 DEF slice_message_header, Record
<1>6. version \in Nat /\ tag \in Nat /\ priority \in Nat
  BY <1>1, <1>3
<1> HIDE DEF dlen
<1>7. w \in Nat /\ w = dlen + HDR
  BY <1>4, Sizes
<1>8. f \in Buffer(w)
  <2>1. 0 .. HDR + dlen - 1 = 0 .. w - 1
    BY <1>4, Sizes
  <2>2. ASSUME NEW i \in DOMAIN m.payload, i \in 0 .. w - 1 PROVE m.payload[i] \in Nat
    <3>1. m.payload \in {<<>>} \cup Buffer(m.datalen + HDR)
      BY <1>1 DEF Record
    <3>2. m.payload = <<>> => DOMAIN m.payload = {}
      OBVIOUS
    <3> QED BY <2>2, <3>1, <3>2 DEF Buffer
  <2> QED BY <2>1, <2>2 DEF Buffer, Uninitialized
<1> DEFINE P == {<<>>} \cup Buffer(m.datalen + HDR)
           hdr == HDR
<1> HIDE DEF f, version, tag, priority, w, s, P, hdr
<1>a. m \in Record(P) /\ hdr \in Nat /\ hdr = HDR
  BY <1>1, Sizes DEF P, hdr
<1>b. s = [m EXCEPT !.version = version, !.tag = tag, !.priority = priority, !.is_fragment = h[4],
                    !.datalen = dlen, !.write_index = w, !.header_index = hdr, !.hdrbuf = h, !.payload = f]
  BY <1>5, <1>a
<1>c. s \in Record(Buffer(w))
  BY ONLY <1>a, <1>b, <1>3, <1>4, <1>6, <1>7, <1>8, h \in Seq(Nat) DEF Record
<1>d. /\ s.datalen = dlen /\ s.write_index = w /\ s.header_index = hdr /\ s.hdrbuf = h
      /\ s.read_index = m.read_index /\ s.fd_write_index = m.fd_write_index
  BY ONLY <1>a, <1>b DEF Record
<1>9. /\ s \in Record(Buffer(w)) /\ s.datalen = dlen /\ s.write_index = w /\ s.header_index = HDR /\ s.hdrbuf = h
      /\ s.read_index = m.read_index /\ s.fd_write_index = m.fd_write_index
  BY <1>a, <1>c, <1>d
<1>10. s \in Record(Buffer(s.datalen + HDR)) /\ s.write_index = s.datalen + HDR
  BY <1>7, <1>9
<1>11. s.datalen > 0 /\ s.datalen < max_message_size /\ HDR <= s.read_index /\ s.read_index <= s.datalen + HDR
  BY <1>1, <1>2, <1>4, <1>9, Sizes
<1>12. s.header_index <= HDR /\ s.header_index <= Len(s.hdrbuf)
  <2>1. s.header_index = 5 /\ Len(s.hdrbuf) = 5
    BY <1>9, Sizes
  <2> QED BY <2>1, Sizes
<1>13. Inward(s)
  BY <1>10, <1>11, <1>12 DEF Inward
<1> QED BY <1>9, <1>13 DEF s

\* A part of a header that was read is kept.
LEMMA PartInward ==
    ASSUME NEW m, Inward(m), NEW h \in Seq(Nat), Len(h) < HDR,
           NEW p, p = [m EXCEPT !.header_index = Len(h), !.hdrbuf = h]
    PROVE  Inward(p) /\ p.fd_write_index = m.fd_write_index
<1>1. Len(h) \in Nat
  BY LenProperties
<1>2. /\ p.datalen = m.datalen /\ p.write_index = m.write_index /\ p.header_index = Len(h) /\ p.hdrbuf = h
      /\ p.read_index = m.read_index /\ p.fd_write_index = m.fd_write_index
  BY InwardFields DEF Record
<1>3. ASSUME NEW P, m \in Record(P) PROVE p \in Record(P)
  BY <1>1, <1>3 DEF Record
<1>4. \/ p.datalen = 0 /\ p \in Record({<<>>})
      \/ p.datalen > 0 /\ p \in Record(Buffer(p.datalen + HDR)) /\ p.write_index = p.datalen + HDR
  BY <1>2, <1>3 DEF Inward
<1>5. /\ p.datalen < max_message_size /\ HDR <= p.read_index /\ p.read_index <= p.datalen + HDR
  BY <1>2 DEF Inward
<1>6. p.header_index <= HDR /\ p.header_index <= Len(p.hdrbuf) /\ p.header_index # HDR
  <2>1. Len(p.hdrbuf) = Len(h)
    BY <1>2
  <2> DEFINE n == Len(h)
  <2>2. p.header_index = n /\ Len(p.hdrbuf) = n /\ n \in Nat /\ n < 5
    BY <1>1, <1>2, <2>1, Sizes
  <2> HIDE DEF n
  <2> QED BY ONLY <2>2, Sizes
<1> QED BY <1>2, <1>4, <1>5, <1>6 DEF Inward

\* read_message_header, for either reader.
LEMMA HeaderStep ==
    ASSUME Descriptors, Readers, NEW l \in Links, read_message_header(l)
    PROVE  Descriptors' /\ Readers'
<1> DEFINE m == Reading(l)
           k == Min2(HDR - m.header_index, Len(wire[l]))
           a == SubSeq(m.hdrbuf, 1, m.header_index)
           b == SubSeq(wire[l], 1, k)
           h == a \o b
           bad == Len(h) = HDR /\ BadHeader(m, h)
           x == IF bad THEN NoMsg ELSE IF Len(h) = HDR THEN slice_message_header(m, h)
                ELSE [m EXCEPT !.header_index = Len(h), !.hdrbuf = h]
<1>1. Inward(m) /\ m.fd_write_index = 0
  <2>1. ~ complete[l]
    BY DEF read_message_header
  <2> QED BY <2>1, EmptyInward DEF Readers, ReaderOf, Reading
<1>2. /\ m.header_index # HDR /\ in' = [in EXCEPT ![l] = x] /\ complete' = complete /\ ~ complete[l]
      /\ wire' = [wire EXCEPT ![l] = IF bad THEN <<>> ELSE SubSeq(@, k + 1, Len(@))]
  BY DEF read_message_header
<1>3. wire[l] \in Seq(Nat) /\ Len(wire[l]) \in Nat
  BY LenProperties DEF Descriptors
<1> HIDE DEF m
<1>4. m.header_index \in Nat /\ m.hdrbuf \in Seq(Nat) /\ m.header_index <= HDR /\ m.header_index <= Len(m.hdrbuf)
  BY <1>1, InwardFields DEF Inward
<1>5. k \in Nat /\ k <= Len(wire[l]) /\ k <= HDR - m.header_index
  BY <1>3, <1>4, Sizes DEF Min2
<1> HIDE DEF k
<1>6. /\ a \in Seq(Nat) /\ Len(a) = m.header_index /\ b \in Seq(Nat) /\ Len(b) = k
      /\ SubSeq(wire[l], k + 1, Len(wire[l])) \in Seq(Nat)
  BY <1>3, <1>4, <1>5, Cut
<1> HIDE DEF a, b
<1>7. h \in Seq(Nat) /\ Len(h) = m.header_index + k
  BY <1>6, ConcatProperties, ZenonT(60)
<1> HIDE DEF h
<1>8. Len(h) = HDR \/ Len(h) < HDR
  BY <1>4, <1>5, <1>7, Sizes
<1>9. x # NoMsg => Inward(x) /\ x.fd_write_index = 0
  <2>1. CASE bad
    BY <2>1
  <2>2. CASE ~ bad /\ Len(h) = HDR
    <3>1. x = slice_message_header(m, h) /\ ~ BadHeader(m, h)
      BY <2>2
    <3> QED BY <1>1, <1>7, <2>2, <3>1, SliceInward
  <2>3. CASE ~ bad /\ Len(h) # HDR
    <3>1. x = [m EXCEPT !.header_index = Len(h), !.hdrbuf = h] /\ Len(h) < HDR
      BY <1>8, <2>3
    <3> HIDE DEF x
    <3> QED BY <1>1, <1>7, <3>1, PartInward
  <2> QED BY <2>1, <2>2, <2>3
<1>10. Descriptors'
  <2>1. <<>> \in Seq(Nat)
    BY EmptySeq
  <2> HIDE DEF bad
  <2> QED BY <1>2, <1>6, <2>1 DEF Descriptors
<1>11. complete' = [complete EXCEPT ![l] = FALSE]
  BY <1>2 DEF Readers
<1> HIDE DEF x
<1>12. Readers'
  BY <1>2, <1>9, <1>11, ReaderSteps
<1> QED BY <1>10, <1>12

\* read_message_content, for either reader.
LEMMA ContentStep ==
    ASSUME Descriptors, Readers, NEW l \in Links, read_message_content(l)
    PROVE  Descriptors' /\ Readers'
<1> DEFINE m == Reading(l)
           k == Min2(m.datalen + HDR - m.read_index, Len(wire[l]))
           bytes == SubSeq(wire[l], 1, k)
           x == ContentRead(m, k, bytes)
           b == m.read_index + k = m.datalen + HDR /\ m.is_fragment = 0
<1>1. Inward(m) /\ m.fd_write_index = 0
  <2>1. ~ complete[l]
    BY DEF read_message_content
  <2> QED BY <2>1, EmptyInward DEF Readers, ReaderOf, Reading
<1>2. /\ m.header_index = HDR /\ in' = [in EXCEPT ![l] = x] /\ complete' = [complete EXCEPT ![l] = b]
      /\ wire' = [wire EXCEPT ![l] = SubSeq(@, k + 1, Len(@))]
  BY DEF read_message_content
<1>3. wire[l] \in Seq(Nat) /\ Len(wire[l]) \in Nat
  BY LenProperties DEF Descriptors
<1> HIDE DEF m
<1>4. /\ m.datalen \in Nat /\ m.read_index \in Nat /\ m.is_fragment \in Nat /\ m.hdrbuf \in Seq(Nat)
      /\ Len(m.hdrbuf) \in Nat
  BY <1>1, InwardFields, LenProperties
<1>5. /\ m.datalen > 0 /\ m \in Record(Buffer(m.datalen + HDR)) /\ m.write_index = m.datalen + HDR
      /\ m.datalen < max_message_size /\ HDR <= m.read_index /\ m.read_index <= m.datalen + HDR
  BY <1>1, <1>2, Sizes DEF Inward
<1>6. k \in Nat /\ k <= Len(wire[l]) /\ m.read_index + k <= m.datalen + HDR
  BY <1>3, <1>4, <1>5, Sizes, SMTT(60) DEF Min2
<1> HIDE DEF k
<1>7. bytes \in Seq(Nat) /\ SubSeq(wire[l], k + 1, Len(wire[l])) \in Seq(Nat)
  BY <1>3, <1>6, Cut
<1> HIDE DEF bytes
<1>8. Descriptors'
  BY <1>2, <1>7 DEF Descriptors
<1> DEFINE f == Memcpy(m.payload, m.read_index, bytes)
           r == m.read_index + k
           n == [m EXCEPT !.payload = f, !.read_index = r]
           size == m.datalen + HDR
<1>9. size \in Nat /\ r \in Nat /\ r <= size /\ HDR <= r
  <2>1. \A d, i, j \in Nat : d + 5 \in Nat /\ i + j \in Nat /\ (5 <= i => 5 <= i + j)
    OBVIOUS
  <2>2. m.datalen \in Nat /\ m.read_index \in Nat /\ k \in Nat /\ HDR = 5
    BY ONLY <1>4, <1>6, Sizes
  <2>3. r <= size /\ HDR <= m.read_index
    BY ONLY <1>5, <1>6
  <2> QED BY ONLY <2>1, <2>2, <2>3, ZenonT(60)
<1>10. f \in Buffer(size)
  BY <1>4, <1>5, <1>7, <1>9, MemcpyType, RecordFields
<1>11. x = IF r < size THEN n ELSE IF m.is_fragment = 1 THEN [n EXCEPT !.header_index = 0]
           ELSE [n EXCEPT !.is_fragment = 0, !.header_index = 0, !.read_index = HDR]
  BY <1>5 DEF ContentRead, Record
<1>12. m \in Record(Buffer(size)) /\ b = (r = size /\ m.is_fragment = 0) /\ size = m.datalen + HDR
  BY <1>5
<1> HIDE DEF f, r, size, b, x
<1>13. /\ n \in Record(Buffer(size)) /\ n.datalen = m.datalen /\ n.write_index = m.write_index
       /\ n.header_index = m.header_index /\ n.read_index = r /\ n.fd_write_index = m.fd_write_index
       /\ n.hdrbuf = m.hdrbuf
  BY <1>9, <1>10, <1>12 DEF Record
<1> HIDE DEF n
<1>14. /\ x \in Record(Buffer(size)) /\ x.datalen = m.datalen /\ x.write_index = m.write_index
       /\ x.fd_write_index = m.fd_write_index /\ x.hdrbuf = m.hdrbuf
       /\ x.header_index \in {0, HDR} /\ x.read_index \in {r, HDR}
       /\ r = size => x.header_index = 0
  <2>1. CASE r < size
    BY <1>2, <1>9, <1>11, <1>13, <2>1
  <2>2. CASE ~ (r < size) /\ m.is_fragment = 1
    <3>1. x = [n EXCEPT !.header_index = 0]
      BY <1>11, <2>2
    <3> QED BY <1>13, <3>1 DEF Record
  <2>3. CASE ~ (r < size) /\ m.is_fragment # 1
    <3>1. x = [n EXCEPT !.is_fragment = 0, !.header_index = 0, !.read_index = HDR]
      BY <1>11, <2>3
    <3> QED BY <1>13, <3>1, Sizes DEF Record
  <2> QED BY <2>1, <2>2, <2>3
<1>15. Inward(x)
  <2>1. x \in Record(Buffer(x.datalen + HDR)) /\ x.write_index = x.datalen + HDR /\ x.datalen > 0
    BY <1>5, <1>12, <1>14
  <2>2. HDR <= x.read_index /\ x.read_index <= x.datalen + HDR
    BY <1>4, <1>9, <1>12, <1>14, Sizes
  <2>3. x.header_index <= HDR /\ x.header_index <= Len(x.hdrbuf)
    <3>1. HDR <= Len(m.hdrbuf)
      BY <1>1, <1>2 DEF Inward
    <3> QED BY <1>4, <1>14, <3>1, Sizes
  <2> QED BY <1>5, <1>14, <2>1, <2>2, <2>3 DEF Inward
<1>16. b => Whole(x)
  <2>1. 0 < m.datalen + HDR
    BY <1>4, Sizes
  <2>2. x.fd_write_index < x.write_index
    BY <1>1, <1>5, <1>14, <2>1
  <2> QED BY <1>5, <1>12, <1>14, <2>2 DEF Whole
<1>17. b \in BOOLEAN
  BY <1>12
<1>18. Readers'
  BY <1>1, <1>2, <1>14, <1>15, <1>16, <1>17, ReaderSteps
<1> QED BY <1>8, <1>18


\* The fields of a message that was read.
LEMMA WholeFields ==
    ASSUME NEW m, Inward(m), Whole(m)
    PROVE  /\ m.datalen \in Nat /\ m.fd_write_index \in Nat /\ m.read_index \in Nat /\ m.hdrbuf \in Seq(Nat)
           /\ m.header_index = 0 /\ m.datalen > 0 /\ m.datalen < max_message_size
           /\ m \in Record(Buffer(m.datalen + HDR)) /\ m.write_index = m.datalen + HDR
           /\ HDR <= m.read_index /\ m.read_index <= m.datalen + HDR /\ m.fd_write_index < m.write_index
<1>1. m.datalen \in Nat /\ m.fd_write_index \in Nat /\ m.read_index \in Nat /\ m.hdrbuf \in Seq(Nat)
  BY InwardFields
<1>2. m.datalen > 0 /\ m.header_index = 0 /\ m.fd_write_index < m.write_index
  BY DEF Whole
<1>3. /\ m \in Record(Buffer(m.datalen + HDR)) /\ m.write_index = m.datalen + HDR
      /\ m.datalen < max_message_size /\ HDR <= m.read_index /\ m.read_index <= m.datalen + HDR
  BY <1>1, <1>2 DEF Inward
<1> QED BY <1>1, <1>2, <1>3

\* prelude_msg_write: the relay passes on what it has read, from its buffer.
LEMMA RelayStep ==
    ASSUME Descriptors, Readers, prelude_msg_write
    PROVE  Descriptors' /\ Readers'
<1> DEFINE m == in["relay"]
<1>1. Inward(m) /\ Whole(m)
  BY DEF Readers, ReaderOf, prelude_msg_write, Links
<1>2. PICK n \in Takes("receiver", m) :
        /\ Write("receiver", m, n)
        /\ in' = [in EXCEPT !["relay"] = IF m.fd_write_index + n = Dlen(m) THEN NoMsg ELSE Written(m, n)]
        /\ complete' = [complete EXCEPT !["relay"] = ~ (m.fd_write_index + n = Dlen(m))]
  BY DEF prelude_msg_write
<1> HIDE DEF m
<1> DEFINE size == m.datalen + HDR
<1>3. /\ m.datalen \in Nat /\ m.fd_write_index \in Nat /\ m.read_index \in Nat /\ m.hdrbuf \in Seq(Nat)
      /\ m.header_index = 0 /\ m.datalen > 0 /\ m.datalen < max_message_size
      /\ m \in Record(Buffer(size)) /\ m.write_index = size
      /\ HDR <= m.read_index /\ m.read_index <= size
  BY <1>1, WholeFields
<1>4. size \in Nat /\ HDR <= size /\ 0 + HDR <= size
  BY <1>3, Sizes
<1>5. Dlen(m) = size
  BY <1>3 DEF Dlen
<1> HIDE DEF size
<1>6. n \in Nat /\ n > 0 /\ m.fd_write_index + n <= Dlen(m)
  BY <1>3, <1>4, <1>5, TakesFacts DEF Links
<1> DEFINE w == Written(m, n)
           done == m.fd_write_index + n = Dlen(m)
           x == IF done THEN NoMsg ELSE w
<1>7. /\ Slice(Outgoing(m).payload, m.fd_write_index, n) \in Seq(Nat)
      /\ w \in Record(Buffer(size)) /\ w.datalen = m.datalen /\ w.header_index = m.header_index
      /\ w.read_index = m.read_index /\ w.write_index = m.write_index /\ w.hdrbuf = m.hdrbuf
      /\ w.fd_write_index = IF done THEN 0 ELSE m.fd_write_index + n
  <2>1. m.header_index + HDR <= m.write_index /\ m.write_index <= size
    BY <1>3, <1>4
  <2> QED BY <1>3, <1>4, <1>6, <2>1, WrittenFacts
<1>8. Descriptors'
  BY <1>2, <1>7, WriteType DEF Links
<1> HIDE DEF w
<1>9. ~ done => Inward(w) /\ Whole(w)
  <2>1. SUFFICES ASSUME ~ done PROVE Inward(w) /\ Whole(w)
    OBVIOUS
  <2>2. m.fd_write_index + n < size
    <3>1. m.fd_write_index + n # size /\ m.fd_write_index + n <= size
      BY <1>5, <1>6, <2>1
    <3>2. m.fd_write_index \in Nat /\ n \in Nat /\ size \in Nat
      BY <1>3, <1>4, <1>6
    <3> QED BY ONLY <3>1, <3>2
  <2>3. w.fd_write_index < w.write_index
    BY <1>3, <1>7, <2>1, <2>2
  <2>4. Whole(w)
    BY <1>3, <1>7, <2>3 DEF Whole
  <2>5. w \in Record(Buffer(w.datalen + HDR)) /\ w.write_index = w.datalen + HDR /\ w.read_index <= w.datalen + HDR
    BY <1>3, <1>7 DEF size
  <2>6. w.header_index <= HDR /\ w.header_index <= Len(w.hdrbuf) /\ w.header_index # HDR
    <3>1. Len(m.hdrbuf) \in Nat
      BY <1>3, LenProperties
    <3> QED BY <1>3, <1>7, <3>1, Sizes
  <2> QED BY <1>3, <1>7, <2>4, <2>5, <2>6 DEF Inward
<1>10. /\ in' = [in EXCEPT !["relay"] = x] /\ complete' = [complete EXCEPT !["relay"] = ~ done]
       /\ (~ done) \in BOOLEAN /\ (x # NoMsg => ~ done /\ x = w) /\ (~ done => x = w)
  BY <1>2 DEF w
<1> HIDE DEF x, done
<1>11. Readers'
  <2>1. x # NoMsg => Inward(x)
    BY <1>9, <1>10
  <2>2. x # NoMsg /\ ~ ~ done => x.fd_write_index = 0
    BY <1>10
  <2>3. ~ done => Inward(x) /\ Whole(x)
    BY <1>9, <1>10
  <2> QED BY <1>10, <2>1, <2>2, <2>3, ReaderSteps DEF Links
<1> QED BY <1>8, <1>11

\* prelude_msg_get: the chunk that is taken ends inside the message.
LEMMA GetStep ==
    ASSUME Readers, prelude_msg_get
    PROVE  Readers'
<1> DEFINE m == in["receiver"]
           end == m.datalen + HDR
           len == m.payload[m.read_index + 1]
           bad == m.read_index > end - CHUNK \/ m.read_index + CHUNK + len > end
<1>1. Inward(m) /\ Whole(m) /\ complete["receiver"]
  BY DEF Readers, ReaderOf, prelude_msg_get, Links
<1>2. CASE ~ (m.read_index < end /\ ~ bad)
  <2>1. /\ in' = [in EXCEPT !["receiver"] = NoMsg]
        /\ complete' = [complete EXCEPT !["receiver"] = FALSE]
    BY <1>2 DEF prelude_msg_get
  <2> QED BY <2>1, ReaderSteps DEF Links
<1>3. CASE m.read_index < end /\ ~ bad
  <2> DEFINE r == m.read_index + CHUNK + len
             x == [m EXCEPT !.read_index = r]
  <2>1. in' = [in EXCEPT !["receiver"].read_index = @ + CHUNK + len] /\ complete' = complete
    BY <1>3 DEF prelude_msg_get
  <2>2. in' = [in EXCEPT !["receiver"] = x]
    BY <2>1 DEF Readers, Links
  <2>3. complete' = [complete EXCEPT !["receiver"] = TRUE]
    BY <1>1, <2>1 DEF Readers
  <2> HIDE DEF m
  <2>4. /\ m.datalen \in Nat /\ m.read_index \in Nat /\ m.datalen > 0 /\ m.datalen < max_message_size
        /\ m \in Record(Buffer(m.datalen + HDR)) /\ m.write_index = m.datalen + HDR /\ HDR <= m.read_index
        /\ m.header_index = 0 /\ m.fd_write_index < m.write_index /\ m.hdrbuf \in Seq(Nat)
    BY <1>1, WholeFields
  <2>5. len \in Nat
    <3>1. m.payload \in Buffer(m.datalen + HDR)
      BY <2>4, RecordFields
    <3>2. m.read_index + 1 \in 0 .. m.datalen + HDR - 1
      <4>1. ~ (m.read_index > end - CHUNK)
        BY <1>3
      <4> QED BY <2>4, <4>1, Sizes DEF CHUNK
    <3> DEFINE i == m.read_index + 1
               size == m.datalen + HDR
    <3>3. m.payload \in Buffer(size) /\ i \in 0 .. size - 1
      <4>1. m.datalen + HDR - 1 = size - 1
        BY <2>4, Sizes
      <4> QED BY <3>1, <3>2, <4>1
    <3> HIDE DEF i, size
    <3>4. m.payload[i] \in Nat
      BY <3>3 DEF Buffer
    <3> QED BY <3>4 DEF i
  <2>6. r \in Nat /\ HDR <= r /\ r <= m.datalen + HDR
    <3>1. ~ (m.read_index + CHUNK + len > end)
      BY <1>3
    <3> HIDE DEF len
    <3> QED BY <2>4, <2>5, <3>1, Sizes DEF CHUNK
  <2> DEFINE size == m.datalen + HDR
  <2>7. m \in Record(Buffer(size))
    BY <2>4
  <2> HIDE DEF r, size
  <2>8. /\ x \in Record(Buffer(size)) /\ x.datalen = m.datalen /\ x.write_index = m.write_index
        /\ x.header_index = m.header_index /\ x.fd_write_index = m.fd_write_index /\ x.hdrbuf = m.hdrbuf
        /\ x.read_index = r
    BY ONLY <2>6, <2>7 DEF Record
  <2> HIDE DEF x
  <2>9. Inward(x) /\ Whole(x)
    <3>1. x \in Record(Buffer(x.datalen + HDR)) /\ x.write_index = x.datalen + HDR
      BY <2>4, <2>8 DEF size
    <3>2. x.header_index <= HDR /\ x.header_index <= Len(x.hdrbuf) /\ x.header_index # HDR
      <4>1. Len(m.hdrbuf) \in Nat
        BY <2>4, LenProperties
      <4> QED BY <2>4, <2>8, <4>1, Sizes
    <3>3. HDR <= x.read_index /\ x.read_index <= x.datalen + HDR
      BY <2>6, <2>8
    <3> QED BY <2>4, <2>8, <3>1, <3>2, <3>3 DEF Inward, Whole
  <2> QED BY <2>2, <2>3, <2>9, ReaderSteps DEF Links
<1> QED BY <1>2, <1>3

\* Every action leaves bytes in the descriptors and messages whose indexes lie
\* in their buffers with the readers.
LEMMA ReadersKept ==
    ASSUME MsgInv, [Next]_vars
    PROVE  Descriptors' /\ Readers'
<1> USE DEF MsgInv
<1>1. ASSUME UNCHANGED wire PROVE Descriptors'
  BY <1>1 DEF Descriptors
<1>2. ASSUME UNCHANGED <<in, complete>> PROVE Readers'
  BY <1>2 DEF Readers, ReaderOf, Inward, Whole
<1>3. CASE \E x \in Messages : Begin(x)
  BY <1>1, <1>2, <1>3 DEF Begin, reader
<1>4. CASE SendSome
  <2>1. UNCHANGED reader
    BY <1>4 DEF SendSome, Return
  <2> QED BY <1>2, <1>4, <2>1, SendSomeStep DEF reader
<1>5. CASE JobWrites
  <2>1. UNCHANGED reader
    BY <1>5 DEF JobWrites
  <2> QED BY <1>2, <1>5, <2>1, JobWritesStep DEF reader
<1>6. CASE set_data(1) \/ set_data(2) \/ prelude_msg_set_priority \/ LastChunkSet \/ prelude_msg_mark_end
  BY <1>1, <1>2, <1>6 DEF set_data, prelude_msg_set_priority, LastChunkSet, prelude_msg_mark_end, reader
<1>7. CASE prelude_msgbuf_destroy \/ SendNone \/ do_send_msg_async \/ JobWritesNone
  BY <1>1, <1>2, <1>7 DEF prelude_msgbuf_destroy, SendNone, do_send_msg_async, JobWritesNone, Return, reader
<1>8. CASE \E l \in Links : read_message_header(l) \/ read_message_content(l)
  BY <1>8, HeaderStep, ContentStep
<1>9. CASE prelude_msg_write
  BY <1>9, RelayStep
<1>10. CASE prelude_msg_get
  BY <1>1, <1>10, GetStep DEF prelude_msg_get
<1>11. CASE UNCHANGED vars
  BY <1>1, <1>2, <1>11 DEF vars, reader
<1> QED BY <1>3, <1>4, <1>5, <1>6, <1>7, <1>8, <1>9, <1>10, <1>11 DEF Next, WriterStep

-----------------------------------------------------------------------------
(* The theorems.                                                           *)

\* The invariant holds when the buffer was just allocated.
LEMMA MsgInit ==
    ASSUME Init
    PROVE  MsgInv
<1>1. Outward(msg) /\ msg.fd_write_index = 0
  BY NewOutward DEF Init
<1>2. Writer
  BY <1>1, EmptySeq DEF Init, Writer, Labels
<1>3. Queued
  BY EmptySeq DEF Init, Queued
<1>4. Descriptors
  BY EmptySeq DEF Init, Descriptors
<1>5. Readers
  BY DEF Init, Readers, ReaderOf
<1> QED BY <1>2, <1>3, <1>4, <1>5 DEF MsgInv

\* Buffers that are written, queued and read keep their sizes and the order of
\* their indexes, at every step of every thread.
THEOREM MsgInvariant == Spec => []MsgInv
<1>1. ASSUME MsgInv, [Next]_vars PROVE MsgInv'
  BY <1>1, WriterKept, QueuedKept, ReadersKept DEF MsgInv
<1> QED BY MsgInit, <1>1, PTL DEF Spec

\* No write and no read of prelude-msg.c leaves its buffer, for any messages,
\* any size of the buffers and of the descriptors, and any cut into fragments;
\* no message as long as max_message_size is put together.
THEOREM MsgInBounds == Spec => []InBounds
<1>1. ASSUME MsgInv PROVE InBounds
  <2>1. \A i \in 1 .. Len(joblist) : joblist[i].write_index <= MSGBUF_SIZE
    BY <1>1 DEF MsgInv, Queued, Outward
  <2>2. /\ msg.header_index + HDR <= msg.write_index /\ msg.write_index <= MSGBUF_SIZE
        /\ msg.fd_write_index < Dlen(msg)
    BY <1>1 DEF MsgInv, Writer, Outward
  <2>3. ASSUME NEW l \in Links, in[l] # NoMsg
        PROVE  /\ in[l].datalen < max_message_size
               /\ in[l].read_index <= in[l].datalen + HDR
               /\ in[l].payload # <<>> => DOMAIN in[l].payload = 0 .. in[l].datalen + HDR - 1
               /\ complete[l] => in[l].write_index = in[l].datalen + HDR
    <3> DEFINE m == in[l]
    <3>1. Inward(m) /\ (complete[l] => m.datalen > 0)
      BY <1>1, <2>3 DEF MsgInv, Readers, ReaderOf, Whole
    <3> HIDE DEF m
    <3>2. m.datalen < max_message_size /\ m.read_index <= m.datalen + HDR /\ m.datalen \in Nat
      BY <3>1, InwardFields DEF Inward
    <3>3. CASE m.datalen = 0
      <4>1. m.payload = <<>> /\ ~ complete[l]
        BY <3>1, <3>3 DEF Inward, Record
      <4> QED BY <3>2, <4>1 DEF m
    <3>4. CASE m.datalen > 0
      <4>1. m.payload \in Buffer(m.datalen + HDR) /\ m.write_index = m.datalen + HDR
        BY <3>1, <3>4 DEF Inward, Record
      <4>2. DOMAIN m.payload = 0 .. m.datalen + HDR - 1
        <5> DEFINE size == m.datalen + HDR
        <5>1. m.payload \in Buffer(size)
          BY <4>1
        <5>2. m.datalen + HDR - 1 = size - 1
          BY <3>2, Sizes
        <5> HIDE DEF size
        <5>3. DOMAIN m.payload = 0 .. size - 1
          BY <5>1 DEF Buffer
        <5> QED BY <5>2, <5>3
      <4> QED BY <3>2, <4>1, <4>2 DEF m
    <3> QED BY <3>2, <3>3, <3>4
  <2> QED BY <2>1, <2>2, <2>3 DEF InBounds
<1> QED BY MsgInvariant, <1>1, PTL

=============================================================================
