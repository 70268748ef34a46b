----------------------------- MODULE ClientProofs -----------------------------
(***************************************************************************)
(* Proofs about Client: what managers are sent, and that nothing is used   *)
(* after it was freed, for any number of alerts, heartbeats and requests.  *)
(***************************************************************************)
EXTENDS Client, SequenceTheorems, TLAPS

\* The clients the theorems are about.  Only a client that sends asynchronously
\* handles requests itself, as the reply would leave its tag in the buffer of
\* the others; and a client whose timers run in the asynchronous thread is not
\* destroyed while that thread may run its heartbeat.
Sound ==
    /\ Programs \subseteq [async_send : BOOLEAN, async_timer : BOOLEAN, destroys : BOOLEAN,
                           polls : BOOLEAN, recvs : BOOLEAN]
    /\ \A p \in Programs : (p.recvs => p.async_send) /\ (p.async_timer => ~ p.destroys)

-----------------------------------------------------------------------------
(* Messages and buffers.                                                   *)

Statuses == {"NEED_INIT", "INIT_DONE", "STARTING", "RUNNING", "EXITING"}

Msgs == [kind : {"alert", "heartbeat", "request", "reply"},
         status : Statuses \union {"none"}, n : Nat]

\* A buffer is empty, or holds one part of a message.
One(m, k) == <<<<m, k>>>>
Bufs == [tag : {IDMEF, OPTION_REPLY}, parts : {<<>>} \union {One(m, k) : m \in Msgs, k \in 1 .. 2}]

\* The content of a buffer that may come before, or after, another message.
Done(c) == c = <<>> \/ \E m \in Msgs : c = One(m, Parts(m))
Starts(c) == c = <<>> \/ \E m \in Msgs : c = One(m, 1)

\* d may follow c.
Linked(c, d) ==
    \/ Done(c) /\ Starts(d)
    \/ \E m \in Msgs : Parts(m) = 2 /\ c = One(m, 1) /\ d = One(m, 2)

StatusIs(c, s) == c # <<>> /\ c[1][1].status = s

-----------------------------------------------------------------------------
(* The inductive invariant.                                                *)

Labels == {"idle", "lock", "write", "flush", "add", "unlock", "start", "beat", "reset",
           "free", "done", "handled", "broadcast", "release", "none"}
Locked == {"write", "flush", "add", "unlock"}
InCall == Locked \union {"lock"}

Types ==
    /\ program \in Programs /\ status \in Statuses /\ client \in {"alive", "freed"}
    /\ armed \in BOOLEAN /\ msgbuf_lock \in Threads \union {"none"}
    /\ pc \in [Threads -> Labels] /\ ret \in [Threads -> Labels]
    /\ cur \in [Threads -> Msgs] /\ part \in [Threads -> Nat]
    /\ alerts \in Nat /\ beats \in Nat /\ requests \in Nat
    /\ joblist \in Seq(Bufs) /\ out \in Seq(Bufs) /\ obj \in Bufs /\ buf \in Bufs

\* Where the threads are, and what the program makes them do.
Where ==
    /\ \A t \in Threads : pc[t] \in Locked <=> msgbuf_lock = t
    /\ pc["async"] \notin {"start", "free", "done"} /\ pc["app"] \notin {"broadcast", "release"}
    /\ ~ program.async_timer => pc["async"] \in {"idle", "broadcast", "release"}
    /\ ~ program.async_send =>
        /\ joblist = <<>> /\ pc["async"] \notin {"broadcast", "release"}
        /\ \A t \in Threads : pc[t] # "add"
    /\ \A t \in Threads : pc[t] \in InCall => ret[t] \in {"start", "idle", "beat", "handled"}
    /\ pc["async"] \in InCall => ret["async"] # "start"
    /\ client = "freed" <=> pc["app"] = "done"
    /\ pc["app"] \in {"free", "done"} => program.destroys /\ ~ armed
    /\ pc["async"] # "broadcast" => obj.parts = <<>>

\* What the status of the client says of the threads.
Phase ==
    /\ status \in {"NEED_INIT", "INIT_DONE"} =>
        pc["app"] \in {"idle", "free", "done"} /\ pc["async"] = "idle" /\ joblist = <<>>
    /\ armed => status = "RUNNING"
    /\ status = "STARTING" =>
        /\ pc["app"] \in InCall \union {"start"}
        /\ pc["app"] \in InCall => ret["app"] = "start" /\ cur["app"] = Heartbeat("STARTING", 0)
    /\ pc["app"] = "start" \/ (pc["app"] \in InCall /\ ret["app"] = "start") => status = "STARTING"
    /\ status = "EXITING" =>
        /\ program.destroys
        /\ pc["app"] \in InCall \union {"beat", "free", "done"}
        /\ pc["app"] \in InCall => ret["app"] = "beat" /\ cur["app"] = Heartbeat("EXITING", 0)
    /\ \A t \in Threads :
        /\ pc[t] = "reset" => status = "RUNNING"
        /\ pc[t] = "beat" \/ (pc[t] \in InCall /\ ret[t] = "beat") => status \in {"RUNNING", "EXITING"}
        /\ pc[t] \in InCall /\ cur[t].status = "STARTING" => t = "app" /\ status = "STARTING"
        /\ pc[t] \in InCall /\ cur[t].status = "EXITING" => t = "app" /\ status = "EXITING"
        /\ pc[t] \in InCall /\ cur[t].kind = "reply" => program.async_send

\* The pool has one reference of the client and one for every message that is
\* queued, being queued or being sent.
OfClient == IF client = "alive" THEN 1 ELSE 0
OfJob == IF pc["async"] \in {"broadcast", "release"} THEN 1 ELSE 0
OfAdd == IF pc["app"] = "add" \/ pc["async"] = "add" THEN 1 ELSE 0
References == refcount = OfClient + Len(joblist) + OfJob + OfAdd

\* The last buffer given to the pool, the one before the list and the one
\* before the buffer of the client.
LastOut == IF out = <<>> THEN <<>> ELSE out[Len(out)].parts
Front == IF pc["async"] = "broadcast" THEN obj.parts ELSE LastOut
Back == IF joblist = <<>> THEN Front ELSE joblist[Len(joblist)].parts

\* Each buffer may follow the one before it, on its way and in the pool.
Chain ==
    /\ \A i \in 1 .. Len(out) : out[i].parts # <<>>
    /\ out # <<>> => Starts(out[1].parts)
    /\ \A i \in 1 .. Len(out) - 1 : Linked(out[i].parts, out[i + 1].parts)
    /\ pc["async"] = "broadcast" => Linked(LastOut, obj.parts)
    /\ joblist # <<>> => Linked(Front, joblist[1].parts)
    /\ \A i \in 1 .. Len(joblist) - 1 : Linked(joblist[i].parts, joblist[i + 1].parts)

\* What the thread that holds the lock has written.
Writing(t) ==
    /\ pc[t] = "write" =>
        /\ buf.parts = <<>>
        /\ \/ part[t] = 1 /\ Parts(cur[t]) >= 1 /\ Done(Back)
           \/ part[t] = 2 /\ Parts(cur[t]) = 2 /\ Back = One(cur[t], 1)
    /\ pc[t] \in {"flush", "add"} =>
        \/ part[t] = 1 /\ Parts(cur[t]) = 0 /\ buf.parts = <<>> /\ Done(Back)
        \/ part[t] = 2 /\ Parts(cur[t]) >= 1 /\ buf.parts = One(cur[t], 1) /\ Done(Back)
        \/ part[t] = 3 /\ Parts(cur[t]) = 2 /\ buf.parts = One(cur[t], 2) /\ Back = One(cur[t], 1)
    /\ pc[t] = "unlock" => buf.parts = <<>> /\ Done(Back)

Writer ==
    /\ msgbuf_lock = "none" => buf.parts = <<>> /\ Done(Back)
    /\ \A t \in Threads : Writing(t) /\ (pc[t] = "lock" => part[t] = 1)

\* IDMEF messages have their tag.  The buffer has another one only while it
\* holds a reply.
Tagged(b) == b.parts # <<>> /\ b.parts[1][1].kind \in {"alert", "heartbeat"} => b.tag = IDMEF
Tags ==
    /\ \A i \in 1 .. Len(out) : Tagged(out[i])
    /\ \A i \in 1 .. Len(joblist) : Tagged(joblist[i])
    /\ Tagged(obj)
    /\ buf.tag # IDMEF =>
        /\ program.async_send
        /\ \E t \in Threads : pc[t] \in {"flush", "add"} /\ cur[t].kind = "reply"

\* Nothing was sent, is being sent or is queued, up to position n of the list.
Silent(n) == out = <<>> /\ obj.parts = <<>> /\ \A k \in 1 .. n : joblist[k].parts = <<>>
AllSilent == Silent(Len(joblist))

\* The first message is the heartbeat of prelude_client_start ...
FirstOut ==
    /\ \A i \in 1 .. Len(out) : StatusIs(out[i].parts, "STARTING") <=> i = 1
    /\ obj.parts # <<>> => (StatusIs(obj.parts, "STARTING") <=> out = <<>>)
    /\ \A i \in 1 .. Len(joblist) : joblist[i].parts # <<>> =>
        (StatusIs(joblist[i].parts, "STARTING") <=> Silent(i - 1))

\* ... and a thread that sends another one comes later.
FirstCall ==
    /\ \A t \in Threads :
        /\ pc[t] \in InCall \ {"unlock"} /\ Parts(cur[t]) # 0 =>
            (cur[t].status = "STARTING" <=> AllSilent)
        /\ pc[t] = "unlock" /\ Parts(cur[t]) # 0 => ~ AllSilent
    /\ pc["app"] = "start" \/ status \in {"RUNNING", "EXITING"} => ~ AllSilent
    /\ status \in {"NEED_INIT", "INIT_DONE"} => AllSilent

\* The last one is that of prelude_client_destroy.
Over == status = "EXITING" /\ pc["app"] \in {"unlock", "beat", "free", "done"}
Final ==
    /\ \A i \in 1 .. Len(out) : StatusIs(out[i].parts, "EXITING") =>
        i = Len(out) /\ joblist = <<>> /\ obj.parts = <<>> /\ Over
    /\ StatusIs(obj.parts, "EXITING") => joblist = <<>> /\ Over
    /\ \A i \in 1 .. Len(joblist) : StatusIs(joblist[i].parts, "EXITING") =>
        i = Len(joblist) /\ Over

ClientInv ==
    /\ Types /\ Where /\ Phase /\ References /\ Chain /\ Writer /\ Tags
    /\ FirstOut /\ FirstCall /\ Final

-----------------------------------------------------------------------------
(* Facts about buffers and records.                                        *)

\* A buffer of one part: what it holds.
LEMMA OneFacts ==
    ASSUME NEW m, NEW k
    PROVE  /\ One(m, k) # <<>> /\ Len(One(m, k)) = 1
           /\ One(m, k)[1][1] = m /\ One(m, k)[1][2] = k
           /\ Append(<<>>, <<m, k>>) = One(m, k)
  BY DEF One

\* ... and that it names its message and its part.
LEMMA OneInjective ==
    ASSUME NEW m, NEW k, NEW n, NEW l, One(m, k) = One(n, l)
    PROVE  m = n /\ k = l
<1>1. One(m, k)[1][1] = One(n, l)[1][1] /\ One(m, k)[1][2] = One(n, l)[1][2]
  OBVIOUS
<1> QED BY <1>1, OneFacts

\* The messages of the model are messages.
LEMMA MsgTypes ==
    /\ \A n \in Nat : Alert(n) \in Msgs /\ Reply(n) \in Msgs
    /\ \A n \in Nat, s \in Statuses : Heartbeat(s, n) \in Msgs
    /\ Request \in Msgs
  BY DEF Alert, Reply, Heartbeat, Request, Msgs

\* Every kind of message has at most two parts.
LEMMA PartsOf ==
    /\ \A n : Parts(Alert(n)) = 2 /\ Parts(Reply(n)) = 1
    /\ \A n, s : Parts(Heartbeat(s, n)) = 1
    /\ Parts(Request) = 0
    /\ \A m : Parts(m) \in {0, 1, 2} /\ (m.kind = "request" <=> Parts(m) = 0)
             /\ (m.kind \in {"heartbeat", "reply"} => Parts(m) = 1)
  BY DEF Parts, Alert, Reply, Heartbeat, Request

\* The kind and the status of each message.
LEMMA MsgFields ==
    /\ \A n : Alert(n).kind = "alert" /\ Alert(n).status = "none"
    /\ \A n : Reply(n).kind = "reply" /\ Reply(n).status = "none"
    /\ \A n, s : Heartbeat(s, n).kind = "heartbeat" /\ Heartbeat(s, n).status = s
    /\ Request.kind = "request" /\ Request.status = "none"
  BY DEF Alert, Reply, Heartbeat, Request

\* What Sound says of the program that runs.
LEMMA ProgramFacts ==
    ASSUME Sound, program \in Programs
    PROVE  /\ program.async_send \in BOOLEAN /\ program.async_timer \in BOOLEAN
           /\ program.destroys \in BOOLEAN
           /\ program.recvs => program.async_send
           /\ program.async_timer => ~ program.destroys
  BY DEF Sound

-----------------------------------------------------------------------------
\* Every step keeps the types.
LEMMA TypesStep == Types /\ Writer /\ [Next]_vars => Types'
<1> SUFFICES ASSUME Types, Writer, [Next]_vars PROVE Types'
  OBVIOUS
<1>1. CASE get_next_job
  <2>1. Head(joblist) \in Bufs /\ Tail(joblist) \in Seq(Bufs)
    BY <1>1, HeadTailProperties DEF Types, get_next_job
  <2> QED BY <1>1, <2>1 DEF Types, get_next_job, Goto, shared, counts, Labels, Threads
<1>2. CASE broadcast_async_cb
  <2>1. EmptyBuf \in Bufs
    BY DEF EmptyBuf, Bufs
  <2>2. out' \in Seq(Bufs)
    BY <1>2, AppendProperties DEF Types, broadcast_async_cb, Given
  <2> QED BY <1>2, <2>1, <2>2 DEF Types, broadcast_async_cb, Goto, shared, counts, Labels, Threads
<1>3. CASE pool_destroy
  BY <1>3 DEF Types, pool_destroy, Goto, shared, counts, Labels, Threads, Statuses
<1>4. ASSUME NEW t \in Threads, prelude_client_send_idmef(t) PROVE Types'
  BY <1>4 DEF Types, prelude_client_send_idmef, Goto, shared, counts, Labels, Threads, Statuses
<1>5. ASSUME NEW t \in Threads, idmef_message_write(t) PROVE Types'
  <2>1. buf.parts = <<>> /\ part[t] \in 1 .. 2
    BY <1>5 DEF Writer, Writing, idmef_message_write
  <2>2. cur[t] \in Msgs /\ buf.tag \in {IDMEF, OPTION_REPLY}
    BY DEF Types, Bufs
  <2>3. buf' = [tag |-> IF cur[t].kind = "reply" THEN OPTION_REPLY ELSE buf.tag, parts |-> One(cur[t], part[t])]
    BY <1>5, <2>1, OneFacts DEF idmef_message_write
  <2>4. buf' \in Bufs
    BY <2>1, <2>2, <2>3 DEF Bufs
  <2>5. part' \in [Threads -> Nat]
    BY <1>5 DEF Types, idmef_message_write
  <2> QED BY <1>5, <2>4, <2>5 DEF Types, idmef_message_write, shared, counts, Labels
<1>6. ASSUME NEW t \in Threads, prelude_client_send_msg(t) PROVE Types'
  <2>1. out' \in Seq(Bufs)
    <3>1. Given(buf) \in Seq(Bufs)
      BY AppendProperties DEF Types, Given
    <3> QED BY <1>6, <3>1 DEF Types, prelude_client_send_msg
  <2>2. buf' \in Bufs
    BY <1>6 DEF Types, Bufs, prelude_client_send_msg
  <2>3. pc' \in [Threads -> Labels] /\ UNCHANGED <<cur, part, ret>>
    BY <1>6 DEF Types, prelude_client_send_msg, Goto, Rest, Labels
  <2> QED BY <1>6, <2>1, <2>2, <2>3 DEF Types, prelude_client_send_msg, shared, counts
<1>7. ASSUME NEW t \in Threads, broadcast_async(t) PROVE Types'
  <2>1. EmptyBuf \in Bufs
    BY DEF EmptyBuf, Bufs
  <2>2. joblist' \in Seq(Bufs)
    BY <1>7, AppendProperties DEF Types, broadcast_async
  <2>3. pc' \in [Threads -> Labels] /\ UNCHANGED <<cur, part, ret>>
    BY <1>7 DEF Types, broadcast_async, Goto, Rest, Labels
  <2> QED BY <1>7, <2>1, <2>2, <2>3 DEF Types, broadcast_async, shared, counts
<1>8. ASSUME NEW t \in Threads, SendUnlocks(t) PROVE Types'
  BY <1>8 DEF Types, SendUnlocks, Goto, shared, counts, Labels, Threads, Statuses
<1>9. ASSUME NEW t \in Threads, heartbeat_reads_status(t) PROVE Types'
  BY <1>9 DEF Types, heartbeat_reads_status, Goto, shared, counts, Labels, Threads, Statuses
<1>10. ASSUME NEW t \in Threads, heartbeat_resets(t) PROVE Types'
  BY <1>10 DEF Types, heartbeat_resets, Goto, shared, counts, Labels, Threads, Statuses
<1>11. ASSUME NEW t \in Threads, event_handled(t) PROVE Types'
  BY <1>11 DEF Types, event_handled, Goto, shared, counts, Labels, Threads, Statuses
<1>12. ASSUME NEW t \in Threads, heartbeat_expire_cb(t) PROVE Types'
  <2>1. Heartbeat(status, beats + 1) \in Msgs
    BY MsgTypes DEF Types, Statuses
  <2>2. beats' \in Nat
    BY <1>12 DEF Types, heartbeat_expire_cb
  <2> QED BY <1>12, <2>1, <2>2 DEF Types, heartbeat_expire_cb, Call, shared, counts, Labels, Statuses
<1>13. ASSUME NEW t \in Threads, check_for_data(t) PROVE Types'
  <2>1. Request \in Msgs
    BY MsgTypes DEF Types, Statuses
  <2>2. requests' \in Nat
    BY <1>13 DEF Types, check_for_data
  <2> QED BY <1>13, <2>1, <2>2 DEF Types, check_for_data, Call, shared, counts, Labels, Statuses
<1>14. CASE start_fails
  BY <1>14 DEF Types, start_fails, shared, counts, call, Statuses
<1>15. CASE prelude_client_start
  <2>1. Heartbeat("STARTING", 0) \in Msgs
    BY MsgTypes DEF Types, Statuses
  <2> QED BY <1>15, <2>1 DEF Types, prelude_client_start, Call, shared, counts, Labels, Statuses
<1>16. CASE start_returns
  BY <1>16 DEF Types, start_returns, Goto, shared, counts, Labels, Threads, Statuses
<1>17. CASE SendAlert
  <2>1. Alert(alerts + 1) \in Msgs
    BY MsgTypes DEF Types, Statuses
  <2>2. alerts' \in Nat
    BY <1>17 DEF Types, SendAlert
  <2> QED BY <1>17, <2>1, <2>2 DEF Types, SendAlert, Call, shared, counts, Labels, Statuses
<1>18. ASSUME NEW success \in BOOLEAN, prelude_client_destroy(success) PROVE Types'
  <2>1. Heartbeat("EXITING", 0) \in Msgs
    BY MsgTypes DEF Statuses
  <2>2. pc' \in [Threads -> Labels] /\ ret' \in [Threads -> Labels]
    BY <1>18 DEF Types, prelude_client_destroy, Call, Goto, Labels
  <2>3. cur' \in [Threads -> Msgs] /\ part' \in [Threads -> Nat]
    <3>1. CASE Started /\ success
      BY <1>18, <2>1, <3>1 DEF Types, prelude_client_destroy, Call
    <3>2. CASE ~ (Started /\ success)
      BY <1>18, <3>2 DEF Types, prelude_client_destroy, Goto
    <3> QED BY <3>1, <3>2
  <2>4. status' \in Statuses /\ armed' = FALSE
    BY <1>18 DEF Types, prelude_client_destroy, Statuses
  <2> QED BY <1>18, <2>2, <2>3, <2>4 DEF Types, prelude_client_destroy, counts
<1>19. CASE _prelude_client_destroy
  BY <1>19 DEF Types, _prelude_client_destroy, Goto, shared, counts, Labels, Threads, Statuses
<1>20. CASE prelude_client_recv_msg
  <2>1. Reply(requests + 1) \in Msgs
    BY MsgTypes DEF Types, Statuses
  <2>2. requests' \in Nat
    BY <1>20 DEF Types, prelude_client_recv_msg
  <2> QED BY <1>20, <2>1, <2>2 DEF Types, prelude_client_recv_msg, Call, shared, counts, Labels, Statuses
<1>21. CASE UNCHANGED vars
  BY <1>21 DEF Types, vars, shared, counts, call, Labels, Threads, Statuses
<1> QED BY <1>1, <1>2, <1>3, <1>4, <1>5, <1>6, <1>7, <1>8, <1>9, <1>10, <1>11, <1>12, <1>13, <1>14, <1>15, <1>16, <1>17, <1>18, <1>19, <1>20, <1>21
        DEF Next, JobStep, SendStep

\* Every step keeps who may be where: which locks a thread at a position has,
\* and which program takes it there.
LEMMA WhereStep ==
    ASSUME Sound
    PROVE  Types /\ Where /\ Phase /\ [Next]_vars => Where'
<1> SUFFICES ASSUME Types, Where, Phase, [Next]_vars PROVE Where'
  OBVIOUS
<1>0. program \in Programs /\ (program.async_timer => ~ program.destroys)
  BY ProgramFacts DEF Types
<1>1. CASE get_next_job
  BY <1>1, <1>0 DEF Types, Where, get_next_job, Goto, shared, counts, Threads, Locked, InCall
<1>2. CASE broadcast_async_cb
  BY <1>2, <1>0 DEF Types, Where, broadcast_async_cb, Goto, EmptyBuf, shared, counts, Threads, Locked, InCall
<1>3. CASE pool_destroy
  BY <1>3, <1>0 DEF Types, Where, pool_destroy, Goto, shared, counts, Threads, Locked, InCall
<1>4. ASSUME NEW t \in Threads, prelude_client_send_idmef(t) PROVE Where'
  BY <1>4, <1>0 DEF Types, Where, prelude_client_send_idmef, Goto, shared, counts, Threads, Locked, InCall
<1>5. ASSUME NEW t \in Threads, idmef_message_write(t) PROVE Where'
  BY <1>5, <1>0 DEF Types, Where, idmef_message_write, shared, counts, Threads, Locked, InCall
<1>6. ASSUME NEW t \in Threads, prelude_client_send_msg(t) PROVE Where'
  BY <1>6, <1>0 DEF Types, Where, prelude_client_send_msg, Goto, Rest, shared, counts, Threads, Locked, InCall
<1>7. ASSUME NEW t \in Threads, broadcast_async(t) PROVE Where'
  BY <1>7, <1>0 DEF Types, Where, broadcast_async, Goto, Rest, shared, counts, Threads, Locked, InCall
<1>8. ASSUME NEW t \in Threads, SendUnlocks(t) PROVE Where'
  BY <1>8, <1>0 DEF Types, Where, SendUnlocks, Goto, shared, counts, Threads, Locked, InCall
<1>9. ASSUME NEW t \in Threads, heartbeat_reads_status(t) PROVE Where'
  BY <1>9, <1>0 DEF Types, Where, Phase, heartbeat_reads_status, Goto, shared, counts, Threads, Locked, InCall
<1>10. ASSUME NEW t \in Threads, heartbeat_resets(t) PROVE Where'
  BY <1>10, <1>0 DEF Types, Where, heartbeat_resets, Goto, shared, counts, Threads, Locked, InCall
<1>11. ASSUME NEW t \in Threads, event_handled(t) PROVE Where'
  BY <1>11, <1>0 DEF Types, Where, event_handled, Goto, shared, counts, Threads, Locked, InCall
<1>12. ASSUME NEW t \in Threads, heartbeat_expire_cb(t) PROVE Where'
  BY <1>12, <1>0 DEF Types, Where, heartbeat_expire_cb, Call, TimerThread, shared, counts, Threads, Locked, InCall
<1>13. ASSUME NEW t \in Threads, check_for_data(t) PROVE Where'
  BY <1>13, <1>0 DEF Types, Where, check_for_data, Call, TimerThread, shared, counts, Threads, Locked, InCall
<1>14. CASE start_fails
  BY <1>14, <1>0 DEF Types, Where, start_fails, shared, call
<1>15. CASE prelude_client_start
  BY <1>15, <1>0 DEF Types, Where, prelude_client_start, Call, shared, counts, Threads, Locked, InCall
<1>16. CASE start_returns
  BY <1>16, <1>0 DEF Types, Where, start_returns, Goto, shared, counts, Threads, Locked, InCall
<1>17. CASE SendAlert
  BY <1>17, <1>0 DEF Types, Where, SendAlert, Call, shared, counts, Threads, Locked, InCall
<1>18. ASSUME NEW success \in BOOLEAN, prelude_client_destroy(success) PROVE Where'
  BY <1>18, <1>0 DEF Types, Where, prelude_client_destroy, Call, Goto, shared, counts, Threads, Locked, InCall
<1>19. CASE _prelude_client_destroy
  BY <1>19, <1>0 DEF Types, Where, _prelude_client_destroy, Goto, shared, counts, Threads, Locked, InCall
<1>20. CASE prelude_client_recv_msg
  BY <1>20, <1>0 DEF Types, Where, prelude_client_recv_msg, Call, shared, counts, Threads, Locked, InCall
<1>21. CASE UNCHANGED vars
  BY <1>21 DEF Where, vars, shared, call
<1> QED BY <1>1, <1>2, <1>3, <1>4, <1>5, <1>6, <1>7, <1>8, <1>9, <1>10, <1>11, <1>12, <1>13, <1>14, <1>15, <1>16, <1>17, <1>18, <1>19, <1>20, <1>21
        DEF Next, JobStep, SendStep

\* Every step keeps the relation of the status of the client and the messages
\* that its calls write.
LEMMA PhaseStep ==
    ASSUME Sound
    PROVE  Types /\ Where /\ Phase /\ [Next]_vars => Phase'
<1> SUFFICES ASSUME Types, Where, Phase, [Next]_vars PROVE Phase'
  OBVIOUS
<1>0. /\ program \in Programs /\ (program.async_timer => ~ program.destroys)
      /\ (program.recvs => program.async_send)
  BY ProgramFacts DEF Types
<1>1. CASE get_next_job
  BY <1>1, <1>0, MsgFields DEF Types, Where, Phase, get_next_job, Goto, shared, counts, Threads, Locked, InCall, Started, TimerThread
<1>2. CASE broadcast_async_cb
  BY <1>2, <1>0, MsgFields DEF Types, Where, Phase, broadcast_async_cb, Goto, shared, counts, Threads, Locked, InCall, Started, TimerThread
<1>3. CASE pool_destroy
  BY <1>3, <1>0, MsgFields DEF Types, Where, Phase, pool_destroy, Goto, shared, counts, Threads, Locked, InCall, Started, TimerThread
<1>4. ASSUME NEW t \in Threads, prelude_client_send_idmef(t) PROVE Phase'
  BY <1>4, <1>0, MsgFields DEF Types, Where, Phase, prelude_client_send_idmef, Goto, shared, counts, Threads, Locked, InCall, Started, TimerThread
<1>5. ASSUME NEW t \in Threads, idmef_message_write(t) PROVE Phase'
  BY <1>5, <1>0, MsgFields DEF Types, Where, Phase, idmef_message_write, shared, counts, Threads, Locked, InCall, Started, TimerThread
<1>6. ASSUME NEW t \in Threads, prelude_client_send_msg(t) PROVE Phase'
  BY <1>6, <1>0, MsgFields DEF Types, Where, Phase, prelude_client_send_msg, Goto, Rest, shared, counts, Threads, Locked, InCall
<1>7. ASSUME NEW t \in Threads, broadcast_async(t) PROVE Phase'
  BY <1>7, <1>0, MsgFields DEF Types, Where, Phase, broadcast_async, Goto, Rest, shared, counts, Threads, Locked, InCall
<1>8. ASSUME NEW t \in Threads, SendUnlocks(t) PROVE Phase'
  BY <1>8, <1>0, MsgFields DEF Types, Where, Phase, SendUnlocks, Goto, shared, counts, Threads, Locked, InCall, Started, TimerThread
<1>9. ASSUME NEW t \in Threads, heartbeat_reads_status(t) PROVE Phase'
  BY <1>9, <1>0, MsgFields DEF Types, Where, Phase, heartbeat_reads_status, Goto, shared, counts, Threads, Locked, InCall, Started, TimerThread
<1>10. ASSUME NEW t \in Threads, heartbeat_resets(t) PROVE Phase'
  BY <1>10, <1>0, MsgFields DEF Types, Where, Phase, heartbeat_resets, Goto, shared, counts, Threads, Locked, InCall, Started, TimerThread
<1>11. ASSUME NEW t \in Threads, event_handled(t) PROVE Phase'
  BY <1>11, <1>0, MsgFields DEF Types, Where, Phase, event_handled, Goto, shared, counts, Threads, Locked, InCall, Started, TimerThread
<1>12. ASSUME NEW t \in Threads, heartbeat_expire_cb(t) PROVE Phase'
  BY <1>12, <1>0, MsgFields DEF Types, Where, Phase, heartbeat_expire_cb, Call, shared, counts, Threads, Locked, InCall, Started, TimerThread
<1>13. ASSUME NEW t \in Threads, check_for_data(t) PROVE Phase'
  BY <1>13, <1>0, MsgFields DEF Types, Where, Phase, check_for_data, Call, shared, counts, Threads, Locked, InCall, Started, TimerThread
<1>14. CASE start_fails
  BY <1>14, <1>0, MsgFields DEF Types, Where, Phase, start_fails, shared, call
<1>15. CASE prelude_client_start
  BY <1>15, <1>0, MsgFields DEF Types, Where, Phase, prelude_client_start, Call, shared, counts, Threads, Locked, InCall, Started, TimerThread
<1>16. CASE start_returns
  BY <1>16, <1>0, MsgFields DEF Types, Where, Phase, start_returns, Goto, shared, counts, Threads, Locked, InCall, Started, TimerThread
<1>17. CASE SendAlert
  BY <1>17, <1>0, MsgFields DEF Types, Where, Phase, SendAlert, Call, shared, counts, Threads, Locked, InCall, Started, TimerThread
<1>18. ASSUME NEW success \in BOOLEAN, prelude_client_destroy(success) PROVE Phase'
  BY <1>18, <1>0, MsgFields DEF Types, Where, Phase, prelude_client_destroy, Call, Goto, shared, counts, Threads, Locked, InCall, Started, TimerThread
<1>19. CASE _prelude_client_destroy
  BY <1>19, <1>0, MsgFields DEF Types, Where, Phase, _prelude_client_destroy, Goto, shared, counts, Threads, Locked, InCall, Started, TimerThread
<1>20. CASE prelude_client_recv_msg
  BY <1>20, <1>0, MsgFields DEF Types, Where, Phase, prelude_client_recv_msg, Call, shared, counts, Threads, Locked, InCall, Started, TimerThread
<1>21. CASE UNCHANGED vars
  BY <1>21 DEF Phase, vars, shared, call
<1> QED BY <1>1, <1>2, <1>3, <1>4, <1>5, <1>6, <1>7, <1>8, <1>9, <1>10, <1>11, <1>12, <1>13, <1>14, <1>15, <1>16, <1>17, <1>18, <1>19, <1>20, <1>21
        DEF Next, JobStep, SendStep

\* Every step keeps the count of references to the pool.
LEMMA ReferencesStep == Types /\ Where /\ References /\ [Next]_vars => References'
<1> SUFFICES ASSUME Types, Where, References, [Next]_vars PROVE References'
  OBVIOUS
<1>0. Len(joblist) \in Nat /\ refcount \in Nat
  <2>1. OfClient \in Nat /\ OfJob \in Nat /\ OfAdd \in Nat
    BY DEF OfClient, OfJob, OfAdd
  <2>2. Len(joblist) \in Nat
    BY LenProperties DEF Types
  <2> QED BY <2>1, <2>2 DEF References
<1>a. OfClient \in Nat /\ OfJob \in Nat /\ OfAdd \in Nat
  BY DEF OfClient, OfJob, OfAdd
<1>1. CASE get_next_job
  <2>1. Len(joblist') = Len(joblist) - 1
    BY <1>1, HeadTailProperties DEF Types, get_next_job
  <2>2. pc' = [pc EXCEPT !["async"] = "broadcast"] /\ pc["async"] = "idle" /\ refcount' = refcount /\ client' = client
    BY <1>1 DEF get_next_job, Goto, shared
  <2>3. pc'["async"] = "broadcast" /\ pc'["app"] = pc["app"]
    BY <2>2 DEF Types, Threads
  <2>4. OfClient' = OfClient /\ OfAdd' = OfAdd /\ OfJob = 0 /\ OfJob' = 1
    BY <2>2, <2>3 DEF OfClient, OfAdd, OfJob
  <2> QED BY <1>0, <1>a, <2>1, <2>2, <2>4 DEF References
<1>2. CASE broadcast_async_cb
  BY <1>2 DEF Types, Where, References, OfClient, OfJob, OfAdd, broadcast_async_cb, Goto, shared, counts, Threads, Locked, InCall
<1>3. CASE pool_destroy
  <2>1. pc' = [pc EXCEPT !["async"] = "idle"] /\ pc["async"] = "release"
    BY <1>3 DEF pool_destroy, Goto
  <2>2. refcount' = refcount - 1 /\ client' = client /\ joblist' = joblist
    BY <1>3 DEF pool_destroy
  <2>3. pc'["async"] = "idle" /\ pc'["app"] = pc["app"]
    BY <2>1 DEF Types, Threads
  <2>4. OfClient' = OfClient /\ OfAdd' = OfAdd /\ OfJob = 1 /\ OfJob' = 0
    BY <2>1, <2>2, <2>3 DEF OfClient, OfAdd, OfJob
  <2> QED BY <1>0, <1>a, <2>2, <2>4 DEF References
<1>4. ASSUME NEW t \in Threads, prelude_client_send_idmef(t) PROVE References'
  BY <1>4 DEF Types, Where, References, OfClient, OfJob, OfAdd, prelude_client_send_idmef, Goto, shared, counts, Threads, Locked, InCall
<1>5. ASSUME NEW t \in Threads, idmef_message_write(t) PROVE References'
  BY <1>5 DEF Types, Where, References, OfClient, OfJob, OfAdd, idmef_message_write, shared, counts, Threads, Locked, InCall
<1>6. ASSUME NEW t \in Threads, prelude_client_send_msg(t) PROVE References'
  <2>1. pc[t] = "flush" /\ client' = client /\ joblist' = joblist
    BY <1>6 DEF prelude_client_send_msg
  <2>2. \A u \in Threads : u # t => pc'[u] = pc[u] /\ pc[u] # "add"
    BY <1>6, <2>1 DEF Types, Where, prelude_client_send_msg, Goto, Threads, Locked
  <2>3. \/ pc'[t] = "add" /\ refcount' = refcount + 1
        \/ pc'[t] \in {"write", "unlock"} /\ refcount' = refcount
    BY <1>6 DEF Types, prelude_client_send_msg, Goto, Rest
  <2>4. OfClient' = OfClient /\ OfJob' = OfJob /\ OfAdd = 0
    BY <2>1, <2>2, <2>3 DEF OfClient, OfJob, OfAdd, Threads
  <2>5. (OfAdd' = 1 /\ refcount' = refcount + 1) \/ (OfAdd' = 0 /\ refcount' = refcount)
    BY <2>1, <2>2, <2>3 DEF OfAdd, Threads
  <2> QED BY <1>0, <1>a, <2>1, <2>4, <2>5 DEF References
<1>7. ASSUME NEW t \in Threads, broadcast_async(t) PROVE References'
  <2>1. pc[t] = "add" /\ client' = client /\ refcount' = refcount
    BY <1>7 DEF broadcast_async, shared
  <2>2. \A u \in Threads : u # t => pc'[u] = pc[u] /\ pc[u] # "add"
    BY <1>7, <2>1 DEF Types, Where, broadcast_async, Goto, Threads, Locked
  <2>3. pc'[t] \in {"write", "unlock"}
    BY <1>7 DEF Types, broadcast_async, Goto, Rest
  <2>4. Len(joblist') = Len(joblist) + 1
    BY <1>7, AppendProperties DEF Types, broadcast_async
  <2>5. OfClient' = OfClient /\ OfJob' = OfJob /\ OfAdd = 1 /\ OfAdd' = 0
    BY <2>1, <2>2, <2>3 DEF OfClient, OfJob, OfAdd, Threads
  <2> QED BY <1>0, <1>a, <2>1, <2>4, <2>5 DEF References
<1>8. ASSUME NEW t \in Threads, SendUnlocks(t) PROVE References'
  BY <1>8 DEF Types, Where, References, OfClient, OfJob, OfAdd, SendUnlocks, Goto, shared, counts, Threads, Locked, InCall
<1>9. ASSUME NEW t \in Threads, heartbeat_reads_status(t) PROVE References'
  BY <1>9 DEF Types, Where, References, OfClient, OfJob, OfAdd, heartbeat_reads_status, Goto, shared, counts, Threads, Locked, InCall
<1>10. ASSUME NEW t \in Threads, heartbeat_resets(t) PROVE References'
  BY <1>10 DEF Types, Where, References, OfClient, OfJob, OfAdd, heartbeat_resets, Goto, shared, counts, Threads, Locked, InCall
<1>11. ASSUME NEW t \in Threads, event_handled(t) PROVE References'
  BY <1>11 DEF Types, Where, References, OfClient, OfJob, OfAdd, event_handled, Goto, shared, counts, Threads, Locked, InCall
<1>12. ASSUME NEW t \in Threads, heartbeat_expire_cb(t) PROVE References'
  BY <1>12 DEF Types, Where, References, OfClient, OfJob, OfAdd, heartbeat_expire_cb, Call, shared, counts, Threads, Locked, InCall
<1>13. ASSUME NEW t \in Threads, check_for_data(t) PROVE References'
  BY <1>13 DEF Types, Where, References, OfClient, OfJob, OfAdd, check_for_data, Call, shared, counts, Threads, Locked, InCall
<1>14. CASE start_fails
  BY <1>14 DEF References, OfClient, OfJob, OfAdd, start_fails, shared, call
<1>15. CASE prelude_client_start
  BY <1>15 DEF Types, Where, References, OfClient, OfJob, OfAdd, prelude_client_start, Call, shared, counts, Threads, Locked, InCall
<1>16. CASE start_returns
  BY <1>16 DEF Types, Where, References, OfClient, OfJob, OfAdd, start_returns, Goto, shared, counts, Threads, Locked, InCall
<1>17. CASE SendAlert
  BY <1>17 DEF Types, Where, References, OfClient, OfJob, OfAdd, SendAlert, Call, shared, counts, Threads, Locked, InCall
<1>18. ASSUME NEW success \in BOOLEAN, prelude_client_destroy(success) PROVE References'
  BY <1>18 DEF Types, Where, References, OfClient, OfJob, OfAdd, prelude_client_destroy, Call, Goto, shared, counts, Threads, Locked, InCall
<1>19. CASE _prelude_client_destroy
  <2>1. pc' = [pc EXCEPT !["app"] = "done"] /\ pc["app"] = "free"
    BY <1>19 DEF _prelude_client_destroy, Goto
  <2>2. refcount' = refcount - 1 /\ client' = "freed" /\ joblist' = joblist /\ client = "alive"
    BY <1>19, <2>1 DEF _prelude_client_destroy, Types, Where
  <2>3. pc'["app"] = "done" /\ pc'["async"] = pc["async"]
    BY <2>1 DEF Types, Threads
  <2>4. OfClient = 1 /\ OfClient' = 0 /\ OfAdd' = OfAdd /\ OfJob' = OfJob
    BY <2>1, <2>2, <2>3 DEF OfClient, OfAdd, OfJob
  <2> QED BY <1>0, <1>a, <2>2, <2>4 DEF References
<1>20. CASE prelude_client_recv_msg
  BY <1>20 DEF Types, Where, References, OfClient, OfJob, OfAdd, prelude_client_recv_msg, Call, shared, counts, Threads, Locked, InCall
<1>21. CASE UNCHANGED vars
  BY <1>21 DEF References, OfClient, OfJob, OfAdd, vars, shared, call
<1> QED BY <1>1, <1>2, <1>3, <1>4, <1>5, <1>6, <1>7, <1>8, <1>9, <1>10, <1>11, <1>12, <1>13, <1>14, <1>15, <1>16, <1>17, <1>18, <1>19, <1>20, <1>21
        DEF Next, JobStep, SendStep

-----------------------------------------------------------------------------
(* The order of the buffers.                                               *)

\* Parts that may follow each other.
LEMMA LinkFacts ==
    /\ Done(<<>>) /\ Starts(<<>>)
    /\ \A c : Linked(c, <<>>) => Done(c)
    /\ \A d : Linked(<<>>, d) => Starts(d)
    /\ \A c, d : Done(c) /\ Starts(d) => Linked(c, d)
<1>1. \A m, k : One(m, k) # <<>>
  BY OneFacts
<1> QED BY <1>1 DEF Done, Starts, Linked

\* Steps that neither queue nor send leave the order alone.
LEMMA SameChain ==
    ASSUME out' = out, obj' = obj, joblist' = joblist,
           (pc'["async"] = "broadcast") <=> (pc["async"] = "broadcast")
    PROVE  /\ LastOut' = LastOut /\ Front' = Front /\ Back' = Back
           /\ Chain => Chain'
  BY DEF LastOut, Front, Back, Chain

\* The pool is given a buffer that may follow the last one.
LEMMA GiveChain ==
    ASSUME Types, Chain, NEW b \in Bufs, b.parts # <<>>, Linked(LastOut, b.parts),
           out' = Append(out, b)
    PROVE  /\ \A i \in 1 .. Len(out') : out'[i].parts # <<>>
           /\ out' # <<>> /\ Starts(out'[1].parts) /\ LastOut' = b.parts
           /\ \A i \in 1 .. Len(out') - 1 : Linked(out'[i].parts, out'[i + 1].parts)
<1>1. /\ out \in Seq(Bufs) /\ Len(out) \in Nat /\ (out = <<>> <=> Len(out) = 0)
      /\ out' # <<>> /\ Len(out') = Len(out) + 1 /\ out'[Len(out) + 1] = b
      /\ \A i \in 1 .. Len(out) : out'[i] = out[i]
  BY LenProperties, AppendProperties, EmptySeq DEF Types
<1>2. LastOut' = b.parts
  BY <1>1 DEF LastOut
<1>3. ASSUME NEW i \in 1 .. Len(out') PROVE out'[i].parts # <<>>
  <2>1. i \in 1 .. Len(out) \/ i = Len(out) + 1
    BY <1>1
  <2> QED BY <1>1, <2>1 DEF Chain
<1>4. Starts(out'[1].parts)
  <2>1. CASE out = <<>>
    <3>1. LastOut = <<>> /\ out'[1] = b
      BY <1>1, <2>1 DEF LastOut
    <3> QED BY <3>1, LinkFacts
  <2>2. CASE out # <<>>
    <3>1. out'[1] = out[1]
      BY <1>1, <2>2
    <3> QED BY <2>2, <3>1 DEF Chain
  <2> QED BY <2>1, <2>2
<1>5. ASSUME NEW i \in 1 .. Len(out') - 1 PROVE Linked(out'[i].parts, out'[i + 1].parts)
  <2>1. i \in 1 .. Len(out) /\ out'[i] = out[i] /\ out # <<>>
    BY <1>1
  <2>2. CASE i = Len(out)
    <3>1. LastOut = out[i].parts /\ out'[i + 1] = b
      BY <1>1, <2>1, <2>2 DEF LastOut
    <3> QED BY <2>1, <3>1
  <2>3. CASE i # Len(out)
    <3>1. i \in 1 .. Len(out) - 1 /\ i + 1 \in 1 .. Len(out)
      BY <1>1, <2>1, <2>3
    <3> QED BY <1>1, <2>1, <3>1 DEF Chain
  <2> QED BY <2>2, <2>3
<1> QED BY <1>1, <1>2, <1>3, <1>4, <1>5

\* What a thread that sends its buffer has in it, and what it does next.
LEMMA AfterFlush ==
    ASSUME Types, Writer, NEW t \in Threads, pc[t] \in {"flush", "add"}
    PROVE  /\ Linked(Back, buf.parts)
           /\ buf.parts = <<>> => Rest(t) = "unlock" /\ Done(Back)
           /\ buf.parts # <<>> =>
               /\ \E k \in 1 .. 2 : buf.parts = One(cur[t], k)
               /\ Parts(cur[t]) # 0
               /\ \/ Rest(t) = "unlock" /\ Done(buf.parts)
                  \/ /\ Rest(t) = "write" /\ part[t] = 2 /\ Parts(cur[t]) = 2
                     /\ buf.parts = One(cur[t], 1)
<1>1. Writing(t) /\ cur[t] \in Msgs /\ Parts(cur[t]) \in {0, 1, 2}
  BY PartsOf DEF Writer, Types
<1>2. \A k : One(cur[t], k) # <<>>
  BY OneFacts
<1>3. CASE part[t] = 1 /\ Parts(cur[t]) = 0 /\ buf.parts = <<>> /\ Done(Back)
  BY <1>3, LinkFacts DEF Rest
<1>4. CASE part[t] = 2 /\ Parts(cur[t]) >= 1 /\ buf.parts = One(cur[t], 1) /\ Done(Back)
  <2>1. Starts(buf.parts)
    BY <1>1, <1>4 DEF Starts
  <2>2. Parts(cur[t]) = 1 => Done(buf.parts) /\ Rest(t) = "unlock"
    BY <1>1, <1>4 DEF Done, Rest
  <2>3. Parts(cur[t]) = 2 => Rest(t) = "write"
    BY <1>4 DEF Rest
  <2>4. Parts(cur[t]) \in {1, 2}
    BY <1>1, <1>4
  <2> QED BY <1>2, <1>4, <2>1, <2>2, <2>3, <2>4, LinkFacts
<1>5. CASE part[t] = 3 /\ Parts(cur[t]) = 2 /\ buf.parts = One(cur[t], 2) /\ Back = One(cur[t], 1)
  <2>1. Linked(Back, buf.parts)
    BY <1>1, <1>5 DEF Linked
  <2>2. Done(buf.parts) /\ Rest(t) = "unlock"
    BY <1>1, <1>5 DEF Done, Rest
  <2> QED BY <1>2, <1>5, <2>1, <2>2
<1> QED BY <1>1, <1>3, <1>4, <1>5 DEF Writing

\* Every step keeps the parts of a message together on their way through the
\* buffer, the list of jobs and the asynchronous thread to the pool.
LEMMA ChainStep == Types /\ Where /\ Chain /\ Writer /\ [Next]_vars => Chain' /\ Writer'
<1> SUFFICES ASSUME Types, Where, Chain, Writer, [Next]_vars PROVE Chain' /\ Writer'
  OBVIOUS
<1>a. Len(joblist) \in Nat /\ (joblist = <<>> <=> Len(joblist) = 0) /\ joblist \in Seq(Bufs)
  BY LenProperties, EmptySeq DEF Types
<1>1. CASE get_next_job
  <2> DEFINE h == Head(joblist)
             r == Tail(joblist)
  <2>1. /\ h = joblist[1] /\ h \in Bufs /\ r \in Seq(Bufs) /\ Len(r) = Len(joblist) - 1
        /\ \A i \in 1 .. Len(joblist) - 1 : r[i] = joblist[i + 1]
    BY <1>1, <1>a, HeadTailProperties DEF get_next_job
  <2>2. /\ obj' = h /\ joblist' = r /\ out' = out /\ buf' = buf /\ joblist # <<>>
        /\ pc["async"] = "idle" /\ pc'["async"] = "broadcast" /\ pc'["app"] = pc["app"]
    BY <1>1 DEF get_next_job, Goto, Types, Threads
  <2>3. LastOut' = LastOut /\ Front = LastOut /\ Front' = h.parts
    BY <2>2 DEF LastOut, Front
  <2> HIDE DEF h, r
  <2>4. Linked(LastOut', obj'.parts)
    BY <2>1, <2>2, <2>3 DEF Chain
  <2>5. (joblist' = <<>>) <=> (Len(joblist) = 1)
    BY <1>a, <2>1, <2>2, EmptySeq, LenProperties
  <2>6. joblist' # <<>> => Linked(Front', joblist'[1].parts)
    <3> SUFFICES ASSUME joblist' # <<>> PROVE Linked(Front', joblist'[1].parts)
      OBVIOUS
    <3>0. Len(joblist') \in Nat \ {0} /\ Len(joblist') = Len(joblist) - 1
      BY <2>1, <2>2, EmptySeq
    <3>1. 1 \in 1 .. Len(joblist) - 1
      BY <1>a, <3>0
    <3>2. joblist'[1] = joblist[2] /\ Linked(joblist[1].parts, joblist[2].parts)
      BY <2>1, <2>2, <3>1 DEF Chain
    <3> QED BY <2>1, <2>3, <3>2
  <2>7. ASSUME NEW i \in 1 .. Len(joblist') - 1
        PROVE  Linked(joblist'[i].parts, joblist'[i + 1].parts)
    <3>1. /\ i \in 1 .. Len(joblist) - 1 /\ i + 1 \in 1 .. Len(joblist) - 1
      BY <1>a, <2>1, <2>2
    <3>2. joblist'[i] = joblist[i + 1] /\ joblist'[i + 1] = joblist[(i + 1) + 1]
      BY <2>1, <2>2, <3>1
    <3> QED BY <3>1, <3>2 DEF Chain
  <2>8. Back' = Back
    <3>1. CASE Len(joblist) = 1
      BY <2>1, <2>2, <2>3, <2>5, <3>1 DEF Back
    <3>2. CASE Len(joblist) # 1
      <4>1. Len(r) \in 1 .. Len(joblist) - 1 /\ Len(r) + 1 = Len(joblist)
        BY <1>a, <2>1, <2>2, <3>2
      <4>2. joblist'[Len(joblist')] = joblist[Len(joblist)]
        BY <2>1, <2>2, <4>1
      <4> QED BY <2>2, <2>5, <3>2, <4>2 DEF Back
    <3> QED BY <3>1, <3>2
  <2>9. Chain'
    BY <2>2, <2>4, <2>6, <2>7 DEF Chain
  <2>10. msgbuf_lock' = msgbuf_lock /\ part' = part /\ cur' = cur
    BY <1>1 DEF get_next_job, Goto, shared
  <2>11. Writer'
    BY <2>2, <2>8, <2>10 DEF Writer, Writing, Threads
  <2> QED BY <2>9, <2>11
<1>2. CASE broadcast_async_cb
  <2>1. /\ out' = Given(obj) /\ obj' = EmptyBuf /\ joblist' = joblist /\ buf' = buf
        /\ pc["async"] = "broadcast" /\ pc'["async"] = "release" /\ pc'["app"] = pc["app"]
        /\ msgbuf_lock' = msgbuf_lock /\ part' = part /\ cur' = cur
    BY <1>2 DEF broadcast_async_cb, Goto, shared, Types, Threads
  <2>2. Front = obj.parts /\ Front' = LastOut' /\ Linked(LastOut, obj.parts) /\ obj \in Bufs
    BY <2>1 DEF Front, Chain, Types
  <2>3. CASE obj.parts # <<>>
    <3>1. out' = Append(out, obj)
      BY <2>1, <2>3 DEF Given
    <3>2. /\ \A i \in 1 .. Len(out') : out'[i].parts # <<>>
          /\ out' # <<>> /\ Starts(out'[1].parts) /\ LastOut' = obj.parts
          /\ \A i \in 1 .. Len(out') - 1 : Linked(out'[i].parts, out'[i + 1].parts)
      BY <2>2, <2>3, <3>1, GiveChain
    <3>3. Front' = Front /\ Back' = Back
      BY <2>1, <2>2, <3>2 DEF Back
    <3>4. Chain'
      BY <2>1, <3>2, <3>3 DEF Chain
    <3>5. Writer'
      BY <2>1, <3>3 DEF Writer, Writing, Threads
    <3> QED BY <3>4, <3>5
  <2>4. CASE obj.parts = <<>>
    <3>1. out' = out /\ LastOut' = LastOut /\ Done(LastOut)
      BY <2>1, <2>2, <2>4, LinkFacts DEF Given, LastOut
    <3>2. joblist # <<>> => Linked(Front', joblist[1].parts)
      BY <2>2, <2>4, <3>1, LinkFacts DEF Chain
    <3>3. Chain'
      BY <2>1, <3>1, <3>2 DEF Chain
    <3>4. CASE joblist # <<>>
      <4>1. Back' = Back
        BY <2>1, <3>4 DEF Back
      <4>2. Writer'
        BY <2>1, <4>1 DEF Writer, Writing, Threads
      <4> QED BY <3>3, <4>2
    <3>5. CASE joblist = <<>>
      <4>1. Back = <<>> /\ Back' = LastOut
        BY <2>1, <2>2, <2>4, <3>1, <3>5 DEF Back
      <4>2. \A m, k : Back # One(m, k)
        BY <4>1, OneFacts
      <4>3. Writer'
        BY <2>1, <3>1, <4>1, <4>2 DEF Writer, Writing, Threads
      <4> QED BY <3>3, <4>3
    <3> QED BY <3>4, <3>5
  <2> QED BY <2>3, <2>4
<1>3. CASE pool_destroy
  <2>1. Back' = Back /\ Chain'
    BY <1>3, SameChain DEF Types, Where, pool_destroy, Goto, shared, counts, call, Threads
  <2>2. Writer'
    BY <1>3, <2>1 DEF Types, Where, Writer, Writing, pool_destroy, Goto, shared, counts, call, Threads, Locked
  <2> QED BY <2>1, <2>2
<1>4. ASSUME NEW t \in Threads, prelude_client_send_idmef(t) PROVE Chain' /\ Writer'
  <2>1. Back' = Back /\ Chain'
    BY <1>4, SameChain DEF Types, Where, prelude_client_send_idmef, Goto, Threads
  <2>2. Parts(cur[t]) \in {0, 1, 2} /\ part[t] = 1 /\ buf.parts = <<>> /\ Done(Back)
    BY <1>4, PartsOf DEF Writer, prelude_client_send_idmef
  <2>3. /\ pc'[t] = IF Parts(cur[t]) = 0 THEN "flush" ELSE "write"
        /\ \A u \in Threads : u # t => pc'[u] = pc[u] /\ pc[u] \notin Locked
        /\ msgbuf_lock' = t /\ part' = part /\ cur' = cur /\ buf' = buf
    BY <1>4 DEF Types, Where, prelude_client_send_idmef, Goto, Threads
  <2>4. Writing(t)'
    BY <2>1, <2>2, <2>3 DEF Writing
  <2>5. Writer'
    BY <2>3, <2>4 DEF Writer, Writing, Threads, Locked
  <2> QED BY <2>1, <2>5
<1>5. ASSUME NEW t \in Threads, idmef_message_write(t) PROVE Chain' /\ Writer'
  <2>1. Back' = Back /\ Chain'
    BY <1>5, SameChain DEF Types, Where, idmef_message_write, Threads
  <2>2. /\ buf.parts = <<>>
        /\ \/ part[t] = 1 /\ Parts(cur[t]) >= 1 /\ Done(Back)
           \/ part[t] = 2 /\ Parts(cur[t]) = 2 /\ Back = One(cur[t], 1)
    BY <1>5 DEF Writer, Writing, idmef_message_write
  <2>3. buf'.parts = One(cur[t], part[t])
    BY <1>5, <2>2, OneFacts DEF idmef_message_write
  <2>4. /\ pc'[t] = "flush" /\ part'[t] = part[t] + 1
        /\ \A u \in Threads : u # t => pc'[u] = pc[u] /\ pc[u] \notin Locked /\ part'[u] = part[u]
        /\ msgbuf_lock' = t /\ cur' = cur
    BY <1>5 DEF Types, Where, idmef_message_write, Threads, shared, Locked
  <2>5. Writing(t)'
    BY <2>1, <2>2, <2>3, <2>4 DEF Writing
  <2>6. Writer'
    BY <2>4, <2>5 DEF Writer, Writing, Threads, Locked
  <2> QED BY <2>1, <2>6
<1>6. ASSUME NEW t \in Threads, prelude_client_send_msg(t) PROVE Chain' /\ Writer'
  <2>1. CASE program.async_send
    <3>1. Back' = Back /\ Chain'
      BY <1>6, <2>1, SameChain DEF Types, Where, prelude_client_send_msg, Goto, Threads
    <3>2. Writer'
      BY <1>6, <2>1, <3>1 DEF Types, Where, Writer, Writing, prelude_client_send_msg, Goto, Threads, Locked
    <3> QED BY <3>1, <3>2
  <2>2. CASE ~ program.async_send
    <3>1. /\ out' = Given(buf) /\ buf'.parts = <<>> /\ joblist' = joblist /\ obj' = obj
          /\ pc[t] = "flush" /\ pc'[t] = Rest(t) /\ \A u \in Threads : u # t => pc'[u] = pc[u]
          /\ msgbuf_lock' = msgbuf_lock /\ part' = part /\ cur' = cur /\ joblist = <<>>
      BY <1>6, <2>2 DEF prelude_client_send_msg, Goto, Types, Where, Bufs
    <3>2. /\ msgbuf_lock = t /\ \A u \in Threads : u # t => pc[u] \notin Locked
          /\ pc["async"] # "broadcast"
      BY <2>2, <3>1 DEF Where, Locked, Threads
    <3>3. pc'["async"] # "broadcast"
      BY <3>1, <3>2 DEF Rest, Threads
    <3>4. Back = LastOut /\ Back' = LastOut' /\ buf \in Bufs
      BY <3>1, <3>2, <3>3 DEF Back, Front, Types
    <3>5. /\ Linked(Back, buf.parts)
          /\ buf.parts = <<>> => Rest(t) = "unlock" /\ Done(Back)
          /\ buf.parts # <<>> =>
               \/ Rest(t) = "unlock" /\ Done(buf.parts)
               \/ /\ Rest(t) = "write" /\ part[t] = 2 /\ Parts(cur[t]) = 2
                  /\ buf.parts = One(cur[t], 1)
      BY <3>1, AfterFlush
    <3>6. /\ Chain'
          /\ \/ Rest(t) = "unlock" /\ Done(Back')
             \/ Rest(t) = "write" /\ part[t] = 2 /\ Parts(cur[t]) = 2 /\ Back' = One(cur[t], 1)
      <4>1. CASE buf.parts = <<>>
        <5>1. out' = out /\ LastOut' = LastOut
          BY <3>1, <4>1 DEF Given, LastOut
        <5>2. Chain'
          BY <3>1, <3>2, <3>3, <5>1, SameChain
        <5>3. Rest(t) = "unlock" /\ Done(Back')
          BY <3>4, <3>5, <4>1, <5>1
        <5> QED BY <5>2, <5>3
      <4>2. CASE buf.parts # <<>>
        <5>1. out' = Append(out, buf)
          BY <3>1, <4>2 DEF Given
        <5>2. /\ \A i \in 1 .. Len(out') : out'[i].parts # <<>>
              /\ out' # <<>> /\ Starts(out'[1].parts) /\ LastOut' = buf.parts
              /\ \A i \in 1 .. Len(out') - 1 : Linked(out'[i].parts, out'[i + 1].parts)
          BY <3>4, <3>5, <4>2, <5>1, GiveChain
        <5>3. Chain'
          BY <1>a, <3>1, <3>3, <5>2 DEF Chain
        <5>4. Back' = buf.parts
          BY <3>4, <5>2
        <5>5. \/ Rest(t) = "unlock" /\ Done(Back')
              \/ Rest(t) = "write" /\ part[t] = 2 /\ Parts(cur[t]) = 2 /\ Back' = One(cur[t], 1)
          BY <3>5, <4>2, <5>4
        <5> QED BY <5>3, <5>5
      <4> QED BY <4>1, <4>2
    <3>7. Writer'
      BY <3>1, <3>2, <3>6 DEF Writer, Writing, Threads, Locked
    <3> QED BY <3>6, <3>7
  <2> QED BY <2>1, <2>2
<1>7. ASSUME NEW t \in Threads, broadcast_async(t) PROVE Chain' /\ Writer'
  <2>1. /\ out' = out /\ buf'.parts = <<>> /\ joblist' = Append(joblist, buf) /\ obj' = obj
        /\ pc[t] = "add" /\ pc'[t] = Rest(t) /\ \A u \in Threads : u # t => pc'[u] = pc[u]
        /\ msgbuf_lock' = msgbuf_lock /\ part' = part /\ cur' = cur /\ buf \in Bufs
    BY <1>7 DEF broadcast_async, Goto, Types, shared, EmptyBuf
  <2>2. /\ msgbuf_lock = t /\ \A u \in Threads : u # t => pc[u] \notin Locked
        /\ (pc'["async"] = "broadcast") <=> (pc["async"] = "broadcast")
    BY <2>1 DEF Where, Locked, Threads, Rest
  <2>3. LastOut' = LastOut /\ Front' = Front
    BY <2>1, <2>2 DEF LastOut, Front
  <2>4. /\ joblist' # <<>> /\ Len(joblist') = Len(joblist) + 1
        /\ joblist'[Len(joblist) + 1] = buf
        /\ \A i \in 1 .. Len(joblist) : joblist'[i] = joblist[i]
    BY <1>a, <2>1, AppendProperties
  <2>5. Back' = buf.parts
    BY <2>4 DEF Back
  <2>6. /\ Linked(Back, buf.parts)
        /\ buf.parts = <<>> => Rest(t) = "unlock" /\ Done(Back)
        /\ buf.parts # <<>> =>
             \/ Rest(t) = "unlock" /\ Done(buf.parts)
             \/ /\ Rest(t) = "write" /\ part[t] = 2 /\ Parts(cur[t]) = 2
                /\ buf.parts = One(cur[t], 1)
    BY <2>1, AfterFlush
  <2>7. Linked(Front', joblist'[1].parts)
    <3>1. CASE joblist = <<>>
      <4>1. joblist'[1] = buf /\ Back = Front
        BY <1>a, <2>4, <3>1 DEF Back
      <4> QED BY <2>3, <2>6, <4>1
    <3>2. CASE joblist # <<>>
      <4>1. joblist'[1] = joblist[1]
        BY <1>a, <2>4, <3>2
      <4> QED BY <2>3, <3>2, <4>1 DEF Chain
    <3> QED BY <3>1, <3>2
  <2>8. ASSUME NEW i \in 1 .. Len(joblist') - 1
        PROVE  Linked(joblist'[i].parts, joblist'[i + 1].parts)
    <3>1. i \in 1 .. Len(joblist) /\ joblist'[i] = joblist[i] /\ joblist # <<>>
      BY <1>a, <2>4
    <3>2. CASE i = Len(joblist)
      <4>1. Back = joblist[i].parts /\ joblist'[i + 1] = buf
        BY <1>a, <2>4, <3>1, <3>2 DEF Back
      <4> QED BY <2>6, <3>1, <4>1
    <3>3. CASE i # Len(joblist)
      <4>1. i \in 1 .. Len(joblist) - 1 /\ i + 1 \in 1 .. Len(joblist)
        BY <1>a, <3>1, <3>3
      <4> QED BY <2>4, <3>1, <4>1 DEF Chain
    <3> QED BY <3>2, <3>3
  <2>9. Chain'
    BY <2>1, <2>2, <2>3, <2>7, <2>8 DEF Chain
  <2>10. Done(buf.parts) \/ (Rest(t) = "write" /\ part[t] = 2 /\ Parts(cur[t]) = 2 /\ buf.parts = One(cur[t], 1))
    BY <2>6, LinkFacts
  <2>11. Rest(t) = "unlock" => Done(Back')
    BY <2>5, <2>6, LinkFacts
  <2>12. Rest(t) = "write" => part[t] = 2 /\ Parts(cur[t]) = 2 /\ Back' = One(cur[t], 1)
    BY <2>5, <2>6
  <2>13. Rest(t) \in {"write", "unlock"}
    BY DEF Rest
  <2>14. Writer'
    BY <2>1, <2>2, <2>11, <2>12, <2>13 DEF Writer, Writing, Threads, Locked
  <2> QED BY <2>9, <2>14
<1>8. ASSUME NEW t \in Threads, SendUnlocks(t) PROVE Chain' /\ Writer'
  <2>1. ret[t] \in {"start", "idle", "beat", "handled"} /\ pc[t] = "unlock"
    BY <1>8 DEF Where, SendUnlocks, InCall, Locked
  <2>2. Back' = Back /\ Chain'
    BY <1>8, <2>1, SameChain DEF Types, SendUnlocks, Goto, Threads
  <2>3. Writer'
    BY <1>8, <2>1, <2>2 DEF Types, Where, Writer, Writing, SendUnlocks, Goto, Threads, Locked
  <2> QED BY <2>2, <2>3
<1>9. ASSUME NEW t \in Threads, heartbeat_reads_status(t) PROVE Chain' /\ Writer'
  <2>1. Back' = Back /\ Chain'
    BY <1>9, SameChain DEF Types, Where, heartbeat_reads_status, Goto, shared, counts, call, Threads
  <2>2. Writer'
    BY <1>9, <2>1 DEF Types, Where, Writer, Writing, heartbeat_reads_status, Goto, shared, counts, call, Threads, Locked
  <2> QED BY <2>1, <2>2
<1>10. ASSUME NEW t \in Threads, heartbeat_resets(t) PROVE Chain' /\ Writer'
  <2>1. Back' = Back /\ Chain'
    BY <1>10, SameChain DEF Types, Where, heartbeat_resets, Goto, shared, counts, call, Threads
  <2>2. Writer'
    BY <1>10, <2>1 DEF Types, Where, Writer, Writing, heartbeat_resets, Goto, shared, counts, call, Threads, Locked
  <2> QED BY <2>1, <2>2
<1>11. ASSUME NEW t \in Threads, event_handled(t) PROVE Chain' /\ Writer'
  <2>1. Back' = Back /\ Chain'
    BY <1>11, SameChain DEF Types, Where, event_handled, Goto, shared, counts, call, Threads
  <2>2. Writer'
    BY <1>11, <2>1 DEF Types, Where, Writer, Writing, event_handled, Goto, shared, counts, call, Threads, Locked
  <2> QED BY <2>1, <2>2
<1>12. ASSUME NEW t \in Threads, heartbeat_expire_cb(t) PROVE Chain' /\ Writer'
  <2>1. Back' = Back /\ Chain'
    BY <1>12, SameChain DEF Types, Where, heartbeat_expire_cb, Call, shared, counts, call, Threads
  <2>2. Writer'
    BY <1>12, <2>1 DEF Types, Where, Writer, Writing, heartbeat_expire_cb, Call, shared, counts, call, Threads, Locked
  <2> QED BY <2>1, <2>2
<1>13. ASSUME NEW t \in Threads, check_for_data(t) PROVE Chain' /\ Writer'
  <2>1. Back' = Back /\ Chain'
    BY <1>13, SameChain DEF Types, Where, check_for_data, Call, shared, counts, call, Threads
  <2>2. Writer'
    BY <1>13, <2>1 DEF Types, Where, Writer, Writing, check_for_data, Call, shared, counts, call, Threads, Locked
  <2> QED BY <2>1, <2>2
<1>14. CASE start_fails
  <2>1. Back' = Back /\ Chain'
    BY <1>14, SameChain DEF Types, Where, start_fails, shared, counts, call, Threads
  <2>2. Writer'
    BY <1>14, <2>1 DEF Types, Where, Writer, Writing, start_fails, shared, counts, call, Threads, Locked
  <2> QED BY <2>1, <2>2
<1>15. CASE prelude_client_start
  <2>1. Back' = Back /\ Chain'
    BY <1>15, SameChain DEF Types, Where, prelude_client_start, Call, shared, counts, call, Threads
  <2>2. Writer'
    BY <1>15, <2>1 DEF Types, Where, Writer, Writing, prelude_client_start, Call, shared, counts, call, Threads, Locked
  <2> QED BY <2>1, <2>2
<1>16. CASE start_returns
  <2>1. Back' = Back /\ Chain'
    BY <1>16, SameChain DEF Types, Where, start_returns, Goto, shared, counts, call, Threads
  <2>2. Writer'
    BY <1>16, <2>1 DEF Types, Where, Writer, Writing, start_returns, Goto, shared, counts, call, Threads, Locked
  <2> QED BY <2>1, <2>2
<1>17. CASE SendAlert
  <2>1. Back' = Back /\ Chain'
    BY <1>17, SameChain DEF Types, Where, SendAlert, Call, shared, counts, call, Threads
  <2>2. Writer'
    BY <1>17, <2>1 DEF Types, Where, Writer, Writing, SendAlert, Call, shared, counts, call, Threads, Locked
  <2> QED BY <2>1, <2>2
<1>18. ASSUME NEW success \in BOOLEAN, prelude_client_destroy(success) PROVE Chain' /\ Writer'
  <2>1. Back' = Back /\ Chain'
    BY <1>18, SameChain DEF Types, Where, prelude_client_destroy, Call, Goto, shared, counts, call, Threads
  <2>2. Writer'
    BY <1>18, <2>1 DEF Types, Where, Writer, Writing, prelude_client_destroy, Call, Goto, shared, counts, call, Threads, Locked
  <2> QED BY <2>1, <2>2
<1>19. CASE _prelude_client_destroy
  <2>1. Back' = Back /\ Chain'
    BY <1>19, SameChain DEF Types, Where, _prelude_client_destroy, Goto, shared, counts, call, Threads
  <2>2. Writer'
    BY <1>19, <2>1 DEF Types, Where, Writer, Writing, _prelude_client_destroy, Goto, shared, counts, call, Threads, Locked
  <2> QED BY <2>1, <2>2
<1>20. CASE prelude_client_recv_msg
  <2>1. Back' = Back /\ Chain'
    BY <1>20, SameChain DEF Types, Where, prelude_client_recv_msg, Call, shared, counts, call, Threads
  <2>2. Writer'
    BY <1>20, <2>1 DEF Types, Where, Writer, Writing, prelude_client_recv_msg, Call, shared, counts, call, Threads, Locked
  <2> QED BY <2>1, <2>2
<1>21. CASE UNCHANGED vars
  <2>1. Back' = Back /\ Chain'
    BY <1>21, SameChain DEF vars, call
  <2>2. Writer'
    BY <1>21, <2>1 DEF Writer, Writing, vars, shared, call
  <2> QED BY <2>1, <2>2
<1> QED BY <1>1, <1>2, <1>3, <1>4, <1>5, <1>6, <1>7, <1>8, <1>9, <1>10, <1>11, <1>12, <1>13, <1>14, <1>15, <1>16, <1>17, <1>18, <1>19, <1>20, <1>21
        DEF Next, JobStep, SendStep

-----------------------------------------------------------------------------
(* The tags.                                                               *)

\* Every step keeps the tags of what is written.
LEMMA TagsStep == Types /\ Where /\ Phase /\ Writer /\ Tags /\ [Next]_vars => Tags'
<1> SUFFICES ASSUME Types, Where, Phase, Writer, Tags, [Next]_vars PROVE Tags'
  OBVIOUS
<1>a. /\ joblist \in Seq(Bufs) /\ out \in Seq(Bufs) /\ buf \in Bufs
      /\ Len(joblist) \in Nat /\ Len(out) \in Nat
  BY LenProperties DEF Types
<1>b. ASSUME NEW b \in Bufs, Tagged(b) PROVE \A i \in 1 .. Len(Append(out, b)) : Tagged(Append(out, b)[i])
  <2> SUFFICES ASSUME NEW i \in 1 .. Len(Append(out, b)) PROVE Tagged(Append(out, b)[i])
    OBVIOUS
  <2>1. i \in 1 .. Len(out) \/ i = Len(out) + 1
    BY <1>a, <1>b, AppendProperties
  <2> QED BY <1>a, <1>b, <2>1, AppendProperties DEF Tags
<1>1. CASE get_next_job
  <2>1. /\ obj' = joblist[1] /\ 1 \in 1 .. Len(joblist) /\ Len(joblist') = Len(joblist) - 1
        /\ \A i \in 1 .. Len(joblist') : joblist'[i] = joblist[i + 1] /\ i + 1 \in 1 .. Len(joblist)
    BY <1>1, <1>a, EmptySeq, HeadTailProperties DEF get_next_job
  <2>2. Tagged(obj') /\ \A i \in 1 .. Len(joblist') : Tagged(joblist'[i])
    BY <2>1 DEF Tags
  <2>3. /\ out' = out /\ buf' = buf /\ program' = program /\ cur' = cur
        /\ pc["async"] = "idle" /\ \A u \in Threads : u # "async" => pc'[u] = pc[u]
    BY <1>1 DEF get_next_job, Goto, shared, Types
  <2> QED BY <2>2, <2>3 DEF Tags, Threads
<1>2. CASE broadcast_async_cb
  <2>1. /\ out' = Given(obj) /\ obj' = EmptyBuf /\ joblist' = joblist /\ buf' = buf
        /\ program' = program /\ cur' = cur
        /\ pc["async"] = "broadcast" /\ \A u \in Threads : u # "async" => pc'[u] = pc[u]
    BY <1>2 DEF broadcast_async_cb, Goto, shared, Types
  <2>2. Tagged(obj') /\ obj \in Bufs /\ Tagged(obj)
    BY <2>1 DEF Tagged, EmptyBuf, Types, Tags
  <2>3. \A i \in 1 .. Len(out') : Tagged(out'[i])
    BY <1>b, <2>1, <2>2 DEF Given, Tags
  <2> QED BY <2>1, <2>2, <2>3 DEF Tags, Threads
<1>3. CASE pool_destroy
  BY <1>3 DEF Types, Where, Tags, pool_destroy, Goto, shared, counts, call, Threads, Locked, InCall
<1>4. ASSUME NEW t \in Threads, prelude_client_send_idmef(t) PROVE Tags'
  BY <1>4 DEF Types, Where, Tags, prelude_client_send_idmef, Goto, shared, counts, call, Threads, Locked, InCall
<1>5. ASSUME NEW t \in Threads, idmef_message_write(t) PROVE Tags'
  <2>1. /\ UNCHANGED <<out, joblist, obj, program, cur>>
        /\ pc[t] = "write" /\ pc'[t] = "flush"
        /\ buf'.tag = IF cur[t].kind = "reply" THEN OPTION_REPLY ELSE buf.tag
    BY <1>5 DEF idmef_message_write, shared, Types
  <2>2. buf.tag = IDMEF
    BY <2>1 DEF Types, Where, Tags, Threads, Locked
  <2>3. cur[t].kind = "reply" => program.async_send
    BY <2>1 DEF Phase, InCall, Locked
  <2> QED BY <2>1, <2>2, <2>3 DEF Tags
<1>6. ASSUME NEW t \in Threads, prelude_client_send_msg(t) PROVE Tags'
  <2>1. CASE program.async_send
    BY <1>6, <2>1 DEF Types, Tags, prelude_client_send_msg, Goto, Threads
  <2>2. CASE ~ program.async_send
    <3>1. out' = Given(buf) /\ buf'.tag = buf.tag /\ buf.tag = IDMEF /\ UNCHANGED <<joblist, obj>>
      BY <1>6, <2>2 DEF Tags, prelude_client_send_msg, Types, Bufs
    <3>2. \A i \in 1 .. Len(out') : Tagged(out'[i])
      BY <1>a, <1>b, <3>1 DEF Given, Tags, Tagged
    <3> QED BY <3>1, <3>2 DEF Tags
  <2> QED BY <2>1, <2>2
<1>7. ASSUME NEW t \in Threads, broadcast_async(t) PROVE Tags'
  <2>1. joblist' = Append(joblist, buf) /\ buf'.tag = IDMEF /\ UNCHANGED <<out, obj>> /\ pc[t] = "add"
    BY <1>7 DEF broadcast_async, EmptyBuf
  <2>2. Tagged(buf)
    <3>1. \A u \in Threads : pc[u] \in {"flush", "add"} => u = t
      BY <2>1 DEF Types, Where, Threads, Locked
    <3>2. CASE buf.tag = IDMEF \/ buf.parts = <<>>
      BY <3>2 DEF Tagged
    <3>3. CASE buf.tag # IDMEF /\ buf.parts # <<>>
      <4>1. cur[t].kind = "reply"
        BY <3>1, <3>3 DEF Tags
      <4>2. PICK k \in 1 .. 2 : buf.parts = One(cur[t], k)
        BY <2>1, <3>3, AfterFlush
      <4>3. buf.parts[1][1] = cur[t]
        BY <4>2, OneFacts
      <4> QED BY <4>1, <4>3 DEF Tagged
    <3> QED BY <3>2, <3>3
  <2>3. ASSUME NEW i \in 1 .. Len(joblist') PROVE Tagged(joblist'[i])
    <3>1. /\ Len(joblist') = Len(joblist) + 1 /\ joblist'[Len(joblist) + 1] = buf
          /\ \A k \in 1 .. Len(joblist) : joblist'[k] = joblist[k]
      BY <1>a, <2>1, AppendProperties
    <3>2. i \in 1 .. Len(joblist) \/ i = Len(joblist) + 1
      BY <1>a, <3>1
    <3> QED BY <2>2, <3>1, <3>2 DEF Tags
  <2> QED BY <2>1, <2>3 DEF Tags
<1>8. ASSUME NEW t \in Threads, SendUnlocks(t) PROVE Tags'
  BY <1>8 DEF Types, Where, Tags, SendUnlocks, Goto, shared, counts, call, Threads, Locked, InCall
<1>9. ASSUME NEW t \in Threads, heartbeat_reads_status(t) PROVE Tags'
  BY <1>9 DEF Types, Where, Tags, heartbeat_reads_status, Goto, shared, counts, call, Threads, Locked, InCall
<1>10. ASSUME NEW t \in Threads, heartbeat_resets(t) PROVE Tags'
  BY <1>10 DEF Types, Where, Tags, heartbeat_resets, Goto, shared, counts, call, Threads, Locked, InCall
<1>11. ASSUME NEW t \in Threads, event_handled(t) PROVE Tags'
  BY <1>11 DEF Types, Where, Tags, event_handled, Goto, shared, counts, call, Threads, Locked, InCall
<1>12. ASSUME NEW t \in Threads, heartbeat_expire_cb(t) PROVE Tags'
  BY <1>12 DEF Types, Where, Tags, heartbeat_expire_cb, Call, shared, counts, call, Threads, Locked, InCall
<1>13. ASSUME NEW t \in Threads, check_for_data(t) PROVE Tags'
  BY <1>13 DEF Types, Where, Tags, check_for_data, Call, shared, counts, call, Threads, Locked, InCall
<1>14. CASE start_fails
  BY <1>14 DEF Types, Where, Tags, start_fails, shared, counts, call, Threads, Locked, InCall
<1>15. CASE prelude_client_start
  BY <1>15 DEF Types, Where, Tags, prelude_client_start, Call, shared, counts, call, Threads, Locked, InCall
<1>16. CASE start_returns
  BY <1>16 DEF Types, Where, Tags, start_returns, Goto, shared, counts, call, Threads, Locked, InCall
<1>17. CASE SendAlert
  BY <1>17 DEF Types, Where, Tags, SendAlert, Call, shared, counts, call, Threads, Locked, InCall
<1>18. ASSUME NEW success \in BOOLEAN, prelude_client_destroy(success) PROVE Tags'
  BY <1>18 DEF Types, Where, Tags, prelude_client_destroy, Call, Goto, shared, counts, call, Threads, Locked, InCall
<1>19. CASE _prelude_client_destroy
  BY <1>19 DEF Types, Where, Tags, _prelude_client_destroy, Goto, shared, counts, call, Threads, Locked, InCall
<1>20. CASE prelude_client_recv_msg
  BY <1>20 DEF Types, Where, Tags, prelude_client_recv_msg, Call, shared, counts, call, Threads, Locked, InCall
<1>21. CASE UNCHANGED vars
  BY <1>21 DEF Tags, vars, shared, call
<1> QED BY <1>1, <1>2, <1>3, <1>4, <1>5, <1>6, <1>7, <1>8, <1>9, <1>10, <1>11, <1>12, <1>13, <1>14, <1>15, <1>16, <1>17, <1>18, <1>19, <1>20, <1>21
        DEF Next, JobStep, SendStep

-----------------------------------------------------------------------------
(* The first and the last message.                                         *)

\* The status that a buffer of one part carries.
LEMMA StatusOf ==
    /\ \A m, k, s : StatusIs(One(m, k), s) <=> m.status = s
    /\ \A s : ~ StatusIs(<<>>, s)
  BY OneFacts DEF StatusIs

\* A step that hands nothing over leaves what comes first.
LEMMA SameFirst ==
    ASSUME out' = out, obj' = obj, joblist' = joblist
    PROVE  (AllSilent' <=> AllSilent) /\ (FirstOut => FirstOut')
  BY DEF FirstOut, AllSilent, Silent

\* The first conjunct of FirstOut when the pool is given a buffer.
LEMMA GiveFirst ==
    ASSUME Types, FirstOut, NEW b \in Bufs, out' = Append(out, b),
           StatusIs(b.parts, "STARTING") <=> out = <<>>
    PROVE  out' # <<>> /\ \A i \in 1 .. Len(out') : StatusIs(out'[i].parts, "STARTING") <=> i = 1
<1>1. /\ out \in Seq(Bufs) /\ Len(out) \in Nat /\ (out = <<>> <=> Len(out) = 0)
      /\ out' # <<>> /\ Len(out') = Len(out) + 1 /\ out'[Len(out) + 1] = b
      /\ \A i \in 1 .. Len(out) : out'[i] = out[i]
  BY LenProperties, AppendProperties, EmptySeq DEF Types
<1>2. ASSUME NEW i \in 1 .. Len(out') PROVE StatusIs(out'[i].parts, "STARTING") <=> i = 1
  <2>1. CASE i \in 1 .. Len(out)
    BY <1>1, <2>1 DEF FirstOut
  <2>2. CASE i = Len(out) + 1
    <3>1. (out = <<>>) <=> (i = 1)
      BY <1>1, <2>2
    <3> QED BY <1>1, <2>2, <3>1
  <2> QED BY <1>1, <2>1, <2>2
<1> QED BY <1>1, <1>2

\* What a thread flushes starts the stream if and only if nothing came before.
LEMMA FlushFirst ==
    ASSUME Types, Where, Phase, Writer, FirstCall, NEW t \in Threads, pc[t] \in {"flush", "add"},
           buf.parts # <<>>
    PROVE  /\ StatusIs(buf.parts, "STARTING") <=> AllSilent
           /\ Rest(t) = "write" => cur[t].status # "STARTING"
           /\ \A u \in Threads : u # t /\ pc[u] \in InCall /\ Parts(cur[u]) # 0 =>
                cur[u].status # "STARTING"
<1>1. PICK k \in 1 .. 2 : buf.parts = One(cur[t], k)
  BY AfterFlush
<1>2. Parts(cur[t]) # 0 /\ (Rest(t) = "write" => Parts(cur[t]) = 2)
  BY AfterFlush
<1>3. StatusIs(buf.parts, "STARTING") <=> cur[t].status = "STARTING"
  BY <1>1, StatusOf
<1>4. cur[t].status = "STARTING" <=> AllSilent
  BY <1>2 DEF FirstCall, InCall, Locked
<1>5. Rest(t) = "write" => cur[t].status # "STARTING"
  <2> SUFFICES ASSUME cur[t].status = "STARTING" PROVE Parts(cur[t]) = 1
    BY <1>2
  <2> QED BY PartsOf DEF Phase, InCall, Locked
<1>6. ASSUME NEW u \in Threads, u # t, pc[u] \in InCall, Parts(cur[u]) # 0, cur[u].status = "STARTING"
      PROVE  FALSE
  <2>1. u = "app" /\ cur[t].status # "STARTING"
    BY <1>6 DEF Phase, InCall, Locked, Threads
  <2>2. pc[u] = "lock"
    BY <1>6 DEF Where, InCall, Locked, Threads
  <2>3. AllSilent
    BY <1>6, <2>2 DEF FirstCall
  <2> QED BY <1>4, <2>1, <2>3
<1> QED BY <1>3, <1>4, <1>5, <1>6

\* Every step keeps the `starting' heartbeat first.
LEMMA FirstStep ==
    Types /\ Where /\ Phase /\ Writer /\ FirstOut /\ FirstCall /\ [Next]_vars => FirstOut' /\ FirstCall'
<1> SUFFICES ASSUME Types, Where, Phase, Writer, FirstOut, FirstCall, [Next]_vars
             PROVE  FirstOut' /\ FirstCall'
  OBVIOUS
<1>a. Len(joblist) \in Nat /\ (joblist = <<>> <=> Len(joblist) = 0) /\ joblist \in Seq(Bufs)
  BY LenProperties, EmptySeq DEF Types
<1>1. CASE get_next_job
  <2>1. /\ obj' = joblist[1] /\ 1 \in 1 .. Len(joblist) /\ Len(joblist') = Len(joblist) - 1
        /\ \A i \in 1 .. Len(joblist') : joblist'[i] = joblist[i + 1] /\ i + 1 \in 1 .. Len(joblist)
    BY <1>1, <1>a, EmptySeq, HeadTailProperties DEF get_next_job
  <2>2. /\ out' = out /\ UNCHANGED <<cur, status>> /\ pc["async"] = "idle" /\ pc'["async"] = "broadcast"
        /\ pc'["app"] = pc["app"] /\ obj.parts = <<>>
    BY <1>1 DEF get_next_job, Goto, Types, Where, Threads
  <2>3. ASSUME NEW n \in 0 .. Len(joblist) - 1 PROVE Silent(n)' <=> Silent(n + 1)
    <3>1. (\A k \in 1 .. n + 1 : joblist[k].parts = <<>>) <=>
          (obj'.parts = <<>> /\ \A k \in 1 .. n : joblist'[k].parts = <<>>)
      <4>1. ASSUME \A k \in 1 .. n + 1 : joblist[k].parts = <<>>
            PROVE  obj'.parts = <<>> /\ \A k \in 1 .. n : joblist'[k].parts = <<>>
        <5>1. 1 \in 1 .. n + 1 /\ \A k \in 1 .. n : k \in 1 .. Len(joblist') /\ k + 1 \in 1 .. n + 1
          BY <1>a, <2>1
        <5> QED BY <2>1, <4>1, <5>1
      <4>2. ASSUME obj'.parts = <<>> /\ \A k \in 1 .. n : joblist'[k].parts = <<>>, NEW k \in 1 .. n + 1
            PROVE  joblist[k].parts = <<>>
        <5>1. CASE k = 1
          BY <2>1, <4>2, <5>1
        <5>2. CASE k # 1
          <6>1. k - 1 \in 1 .. n /\ k - 1 \in 1 .. Len(joblist') /\ (k - 1) + 1 = k
            BY <1>a, <2>1, <5>2
          <6> QED BY <2>1, <4>2, <6>1
        <5> QED BY <5>1, <5>2
      <4> QED BY <4>1, <4>2
    <3> QED BY <2>2, <3>1 DEF Silent
  <2>4. AllSilent' <=> AllSilent
    <3>1. Len(joblist) - 1 \in 0 .. Len(joblist) - 1 /\ (Len(joblist) - 1) + 1 = Len(joblist)
      BY <1>a, <2>1
    <3> QED BY <2>1, <2>3, <3>1 DEF AllSilent
  <2>5. obj'.parts # <<>> => (StatusIs(obj'.parts, "STARTING") <=> out' = <<>>)
    <3>1. Silent(1 - 1) <=> out = <<>>
      BY <2>2 DEF Silent
    <3> QED BY <2>1, <2>2, <3>1 DEF FirstOut
  <2>6. ASSUME NEW i \in 1 .. Len(joblist'), joblist'[i].parts # <<>>
        PROVE  StatusIs(joblist'[i].parts, "STARTING") <=> Silent(i - 1)'
    <3>1. i - 1 \in 0 .. Len(joblist) - 1 /\ (i - 1) + 1 = i /\ (i + 1) - 1 = i
      BY <1>a, <2>1
    <3>2. Silent(i - 1)' <=> Silent(i)
      BY <2>3, <3>1
    <3>3. StatusIs(joblist[i + 1].parts, "STARTING") <=> Silent(i)
      BY <2>1, <2>6, <3>1 DEF FirstOut
    <3> QED BY <2>1, <3>2, <3>3
  <2>7. FirstOut'
    BY <2>2, <2>5, <2>6 DEF FirstOut
  <2>8. FirstCall'
    BY <2>2, <2>4 DEF FirstCall, Threads, InCall, Locked
  <2> QED BY <2>7, <2>8
<1>2. CASE broadcast_async_cb
  <2>1. /\ out' = Given(obj) /\ obj' = EmptyBuf /\ joblist' = joblist
        /\ UNCHANGED <<cur, status>> /\ pc["async"] = "broadcast" /\ pc'["async"] = "release"
        /\ pc'["app"] = pc["app"] /\ obj \in Bufs /\ obj'.parts = <<>>
    BY <1>2 DEF broadcast_async_cb, Goto, Types, Threads, EmptyBuf
  <2>2. CASE obj.parts = <<>>
    <3>1. out' = out
      BY <2>1, <2>2 DEF Given
    <3>2. FirstOut' /\ (AllSilent' <=> AllSilent)
      BY <2>1, <2>2, <3>1 DEF FirstOut, AllSilent, Silent
    <3>3. FirstCall'
      BY <2>1, <3>2 DEF FirstCall, Threads, InCall, Locked
    <3> QED BY <3>2, <3>3
  <2>3. CASE obj.parts # <<>>
    <3>1. out' = Append(out, obj) /\ (StatusIs(obj.parts, "STARTING") <=> out = <<>>)
      BY <2>1, <2>3 DEF Given, FirstOut
    <3>2. out' # <<>> /\ \A i \in 1 .. Len(out') : StatusIs(out'[i].parts, "STARTING") <=> i = 1
      BY <2>1, <3>1, GiveFirst
    <3>3. \A n : ~ Silent(n) /\ ~ Silent(n)'
      BY <2>3, <3>2 DEF Silent
    <3>4. FirstOut'
      BY <2>1, <3>2, <3>3 DEF FirstOut
    <3>5. FirstCall'
      BY <2>1, <3>3 DEF FirstCall, AllSilent, Threads, InCall, Locked
    <3> QED BY <3>4, <3>5
  <2> QED BY <2>2, <2>3
<1>3. CASE pool_destroy
  <2>1. FirstOut' /\ (AllSilent' <=> AllSilent)
    BY <1>3, SameFirst DEF pool_destroy, shared
  <2>2. FirstCall'
    BY <1>3, <2>1, MsgFields, PartsOf DEF Types, Where, Phase, FirstCall, pool_destroy, Goto, shared, counts, call, Threads, Locked, InCall, Started
  <2> QED BY <2>1, <2>2
<1>4. ASSUME NEW t \in Threads, prelude_client_send_idmef(t) PROVE FirstOut' /\ FirstCall'
  <2>1. FirstOut' /\ (AllSilent' <=> AllSilent)
    BY <1>4, SameFirst DEF prelude_client_send_idmef, shared
  <2>2. FirstCall'
    BY <1>4, <2>1, MsgFields, PartsOf DEF Types, Where, Phase, FirstCall, prelude_client_send_idmef, Goto, shared, counts, call, Threads, Locked, InCall, Started
  <2> QED BY <2>1, <2>2
<1>5. ASSUME NEW t \in Threads, idmef_message_write(t) PROVE FirstOut' /\ FirstCall'
  <2>1. FirstOut' /\ (AllSilent' <=> AllSilent)
    BY <1>5, SameFirst DEF idmef_message_write, shared
  <2>2. FirstCall'
    BY <1>5, <2>1, MsgFields, PartsOf DEF Types, Where, Phase, FirstCall, idmef_message_write, shared, counts, call, Threads, Locked, InCall, Started
  <2> QED BY <2>1, <2>2
<1>6. ASSUME NEW t \in Threads, prelude_client_send_msg(t) PROVE FirstOut' /\ FirstCall'
  <2>1. /\ pc[t] = "flush" /\ UNCHANGED <<joblist, obj, cur, status>>
        /\ \A u \in Threads : u # t => pc'[u] = pc[u] /\ pc[u] \notin Locked
    BY <1>6 DEF prelude_client_send_msg, Goto, Types, Where, Threads, Locked
  <2>2. CASE program.async_send
    <3>1. out' = out /\ pc'[t] = "add"
      BY <1>6, <2>2 DEF prelude_client_send_msg, Goto, Types
    <3>2. FirstOut' /\ (AllSilent' <=> AllSilent)
      BY <2>1, <3>1, SameFirst
    <3>3. FirstCall'
      BY <2>1, <3>1, <3>2 DEF FirstCall, Threads, InCall, Locked
    <3> QED BY <3>2, <3>3
  <2>3. CASE ~ program.async_send /\ buf.parts = <<>>
    <3>1. out' = out /\ pc'[t] = Rest(t) /\ Rest(t) = "unlock"
      BY <1>6, <2>1, <2>3, AfterFlush DEF prelude_client_send_msg, Goto, Types, Given
    <3>2. FirstOut' /\ (AllSilent' <=> AllSilent)
      BY <2>1, <3>1, SameFirst
    <3>3. Parts(cur[t]) = 0
      BY <2>1, <2>3, OneFacts DEF Writer, Writing
    <3>4. FirstCall'
      BY <2>1, <3>1, <3>2, <3>3 DEF FirstCall, Threads, InCall, Locked
    <3> QED BY <3>2, <3>4
  <2>4. CASE ~ program.async_send /\ buf.parts # <<>>
    <3>1. out' = Append(out, buf) /\ pc'[t] = Rest(t) /\ Rest(t) \in {"write", "unlock"}
      BY <1>6, <2>4 DEF prelude_client_send_msg, Goto, Types, Given, Rest
    <3>2. joblist = <<>> /\ obj.parts = <<>> /\ buf \in Bufs
      BY <2>4 DEF Where, Types
    <3>3. AllSilent <=> out = <<>>
      BY <1>a, <3>2 DEF AllSilent, Silent
    <3>4. out' # <<>> /\ \A i \in 1 .. Len(out') : StatusIs(out'[i].parts, "STARTING") <=> i = 1
      BY <2>1, <2>4, <3>1, <3>2, <3>3, FlushFirst, GiveFirst
    <3>5. ~ AllSilent' /\ \A n : ~ Silent(n)'
      BY <3>4 DEF AllSilent, Silent
    <3>6. FirstOut'
      BY <1>a, <2>1, <3>2, <3>4 DEF FirstOut
    <3>7. /\ Rest(t) = "write" => cur[t].status # "STARTING"
          /\ \A u \in Threads : u # t /\ pc[u] \in InCall /\ Parts(cur[u]) # 0 => cur[u].status # "STARTING"
      BY <2>1, <2>4, FlushFirst
    <3>8. status \notin {"NEED_INIT", "INIT_DONE"}
      BY <2>1 DEF Phase, Threads
    <3>9. FirstCall'
      BY <2>1, <3>1, <3>5, <3>7, <3>8 DEF FirstCall, Threads, InCall, Locked
    <3> QED BY <3>6, <3>9
  <2> QED BY <2>2, <2>3, <2>4
<1>7. ASSUME NEW t \in Threads, broadcast_async(t) PROVE FirstOut' /\ FirstCall'
  <2>1. /\ pc[t] = "add" /\ UNCHANGED <<out, obj, cur, status>> /\ joblist' = Append(joblist, buf)
        /\ pc'[t] = Rest(t) /\ Rest(t) \in {"write", "unlock"} /\ buf \in Bufs
        /\ \A u \in Threads : u # t => pc'[u] = pc[u] /\ pc[u] \notin Locked
    BY <1>7 DEF broadcast_async, Goto, Rest, Types, Where, Threads, Locked
  <2>2. /\ joblist' # <<>> /\ Len(joblist') = Len(joblist) + 1
        /\ joblist'[Len(joblist) + 1] = buf
        /\ \A i \in 1 .. Len(joblist) : joblist'[i] = joblist[i]
    BY <1>a, <2>1, AppendProperties
  <2>3. ASSUME NEW n \in 0 .. Len(joblist) PROVE Silent(n)' <=> Silent(n)
    <3>1. \A k \in 1 .. n : joblist'[k] = joblist[k]
      BY <1>a, <2>2
    <3> QED BY <2>1, <3>1 DEF Silent
  <2>4. AllSilent' <=> AllSilent /\ buf.parts = <<>>
    <3>1. 1 .. Len(joblist') = (1 .. Len(joblist)) \union {Len(joblist) + 1}
      BY <1>a, <2>2
    <3>2. (\A k \in 1 .. Len(joblist') : joblist'[k].parts = <<>>) <=>
          (\A k \in 1 .. Len(joblist) : joblist[k].parts = <<>>) /\ buf.parts = <<>>
      BY <2>2, <3>1
    <3> QED BY <2>1, <3>2 DEF AllSilent, Silent
  <2>5. buf.parts # <<>> => (StatusIs(buf.parts, "STARTING") <=> AllSilent)
    BY <2>1, FlushFirst
  <2>6. ASSUME NEW i \in 1 .. Len(joblist'), joblist'[i].parts # <<>>
        PROVE  StatusIs(joblist'[i].parts, "STARTING") <=> Silent(i - 1)'
    <3>1. i - 1 \in 0 .. Len(joblist)
      BY <1>a, <2>2
    <3>2. Silent(i - 1)' <=> Silent(i - 1)
      BY <2>3, <3>1
    <3>3. CASE i = Len(joblist) + 1
      <4>1. i - 1 = Len(joblist) /\ joblist'[i] = buf
        BY <1>a, <2>2, <3>3
      <4>2. Silent(i - 1) <=> AllSilent
        BY <4>1 DEF AllSilent
      <4> QED BY <2>5, <2>6, <3>2, <4>1, <4>2
    <3>4. CASE i # Len(joblist) + 1
      <4>1. i \in 1 .. Len(joblist)
        BY <1>a, <2>2, <3>4
      <4> QED BY <2>2, <2>6, <3>2, <4>1 DEF FirstOut
    <3> QED BY <3>3, <3>4
  <2>7. FirstOut'
    BY <2>1, <2>6 DEF FirstOut
  <2>8. status \notin {"NEED_INIT", "INIT_DONE"}
    BY <2>1 DEF Phase, Threads
  <2>9. CASE buf.parts = <<>>
    <3>1. Rest(t) = "unlock" /\ Parts(cur[t]) = 0
      BY <2>1, <2>9, AfterFlush, OneFacts DEF Writer, Writing
    <3>2. FirstCall'
      BY <2>1, <2>4, <2>9, <3>1 DEF FirstCall, Threads, InCall, Locked
    <3> QED BY <2>7, <3>2
  <2>10. CASE buf.parts # <<>>
    <3>1. /\ Rest(t) = "write" => cur[t].status # "STARTING"
          /\ \A u \in Threads : u # t /\ pc[u] \in InCall /\ Parts(cur[u]) # 0 => cur[u].status # "STARTING"
      BY <2>1, <2>10, FlushFirst
    <3>2. FirstCall'
      BY <2>1, <2>4, <2>8, <2>10, <3>1 DEF FirstCall, Threads, InCall, Locked
    <3> QED BY <2>7, <3>2
  <2> QED BY <2>9, <2>10
<1>8. ASSUME NEW t \in Threads, SendUnlocks(t) PROVE FirstOut' /\ FirstCall'
  <2>1. FirstOut' /\ (AllSilent' <=> AllSilent)
    BY <1>8, SameFirst DEF SendUnlocks, shared
  <2>2. FirstCall'
    BY <1>8, <2>1, MsgFields, PartsOf DEF Types, Where, Phase, FirstCall, SendUnlocks, Goto, shared, counts, call, Threads, Locked, InCall, Started
  <2> QED BY <2>1, <2>2
<1>9. ASSUME NEW t \in Threads, heartbeat_reads_status(t) PROVE FirstOut' /\ FirstCall'
  <2>1. FirstOut' /\ (AllSilent' <=> AllSilent)
    BY <1>9, SameFirst DEF heartbeat_reads_status, shared
  <2>2. FirstCall'
    BY <1>9, <2>1, MsgFields, PartsOf DEF Types, Where, Phase, FirstCall, heartbeat_reads_status, Goto, shared, counts, call, Threads, Locked, InCall, Started
  <2> QED BY <2>1, <2>2
<1>10. ASSUME NEW t \in Threads, heartbeat_resets(t) PROVE FirstOut' /\ FirstCall'
  <2>1. FirstOut' /\ (AllSilent' <=> AllSilent)
    BY <1>10, SameFirst DEF heartbeat_resets, shared
  <2>2. FirstCall'
    BY <1>10, <2>1, MsgFields, PartsOf DEF Types, Where, Phase, FirstCall, heartbeat_resets, Goto, shared, counts, call, Threads, Locked, InCall, Started
  <2> QED BY <2>1, <2>2
<1>11. ASSUME NEW t \in Threads, event_handled(t) PROVE FirstOut' /\ FirstCall'
  <2>1. FirstOut' /\ (AllSilent' <=> AllSilent)
    BY <1>11, SameFirst DEF event_handled, shared
  <2>2. FirstCall'
    BY <1>11, <2>1, MsgFields, PartsOf DEF Types, Where, Phase, FirstCall, event_handled, Goto, shared, counts, call, Threads, Locked, InCall, Started
  <2> QED BY <2>1, <2>2
<1>12. ASSUME NEW t \in Threads, heartbeat_expire_cb(t) PROVE FirstOut' /\ FirstCall'
  <2>1. FirstOut' /\ (AllSilent' <=> AllSilent)
    BY <1>12, SameFirst DEF heartbeat_expire_cb, shared
  <2>2. FirstCall'
    BY <1>12, <2>1, MsgFields, PartsOf DEF Types, Where, Phase, FirstCall, heartbeat_expire_cb, Call, shared, counts, call, Threads, Locked, InCall, Started
  <2> QED BY <2>1, <2>2
<1>13. ASSUME NEW t \in Threads, check_for_data(t) PROVE FirstOut' /\ FirstCall'
  <2>1. FirstOut' /\ (AllSilent' <=> AllSilent)
    BY <1>13, SameFirst DEF check_for_data, shared
  <2>2. FirstCall'
    BY <1>13, <2>1, MsgFields, PartsOf DEF Types, Where, Phase, FirstCall, check_for_data, Call, shared, counts, call, Threads, Locked, InCall, Started
  <2> QED BY <2>1, <2>2
<1>14. CASE start_fails
  <2>1. FirstOut' /\ (AllSilent' <=> AllSilent)
    BY <1>14, SameFirst DEF start_fails, shared
  <2>2. FirstCall'
    BY <1>14, <2>1, MsgFields, PartsOf DEF Types, Where, Phase, FirstCall, start_fails, shared, counts, call, Threads, Locked, InCall, Started
  <2> QED BY <2>1, <2>2
<1>15. CASE prelude_client_start
  <2>1. FirstOut' /\ (AllSilent' <=> AllSilent)
    BY <1>15, SameFirst DEF prelude_client_start, shared
  <2>2. FirstCall'
    BY <1>15, <2>1, MsgFields, PartsOf DEF Types, Where, Phase, FirstCall, prelude_client_start, Call, shared, counts, call, Threads, Locked, InCall, Started
  <2> QED BY <2>1, <2>2
<1>16. CASE start_returns
  <2>1. FirstOut' /\ (AllSilent' <=> AllSilent)
    BY <1>16, SameFirst DEF start_returns, shared
  <2>2. FirstCall'
    BY <1>16, <2>1, MsgFields, PartsOf DEF Types, Where, Phase, FirstCall, start_returns, Goto, shared, counts, call, Threads, Locked, InCall, Started
  <2> QED BY <2>1, <2>2
<1>17. CASE SendAlert
  <2>1. FirstOut' /\ (AllSilent' <=> AllSilent)
    BY <1>17, SameFirst DEF SendAlert, shared
  <2>2. FirstCall'
    BY <1>17, <2>1, MsgFields, PartsOf DEF Types, Where, Phase, FirstCall, SendAlert, Call, shared, counts, call, Threads, Locked, InCall, Started
  <2> QED BY <2>1, <2>2
<1>18. ASSUME NEW success \in BOOLEAN, prelude_client_destroy(success) PROVE FirstOut' /\ FirstCall'
  <2>1. FirstOut' /\ (AllSilent' <=> AllSilent)
    BY <1>18, SameFirst DEF prelude_client_destroy, shared
  <2>2. FirstCall'
    BY <1>18, <2>1, MsgFields, PartsOf DEF Types, Where, Phase, FirstCall, prelude_client_destroy, Call, Goto, shared, counts, call, Threads, Locked, InCall, Started
  <2> QED BY <2>1, <2>2
<1>19. CASE _prelude_client_destroy
  <2>1. FirstOut' /\ (AllSilent' <=> AllSilent)
    BY <1>19, SameFirst DEF _prelude_client_destroy, shared
  <2>2. FirstCall'
    BY <1>19, <2>1, MsgFields, PartsOf DEF Types, Where, Phase, FirstCall, _prelude_client_destroy, Goto, shared, counts, call, Threads, Locked, InCall, Started
  <2> QED BY <2>1, <2>2
<1>20. CASE prelude_client_recv_msg
  <2>1. FirstOut' /\ (AllSilent' <=> AllSilent)
    BY <1>20, SameFirst DEF prelude_client_recv_msg, shared
  <2>2. FirstCall'
    BY <1>20, <2>1, MsgFields, PartsOf DEF Types, Where, Phase, FirstCall, prelude_client_recv_msg, Call, shared, counts, call, Threads, Locked, InCall, Started
  <2> QED BY <2>1, <2>2
<1>21. CASE UNCHANGED vars
  <2>1. FirstOut' /\ (AllSilent' <=> AllSilent)
    BY <1>21, SameFirst DEF vars
  <2>2. FirstCall'
    BY <1>21, <2>1 DEF FirstCall, vars, call
  <2> QED BY <2>1, <2>2
<1> QED BY <1>1, <1>2, <1>3, <1>4, <1>5, <1>6, <1>7, <1>8, <1>9, <1>10, <1>11, <1>12, <1>13, <1>14, <1>15, <1>16, <1>17, <1>18, <1>19, <1>20, <1>21
        DEF Next, JobStep, SendStep

\* Once the last heartbeat was sent, the application only goes on to free the
\* client, and no thread has anything to send.
LEMMA OverStep == Types /\ Where /\ Phase /\ [Next]_vars => (Over => Over')
<1> SUFFICES ASSUME Types, Where, Phase, [Next]_vars, Over PROVE Over'
  OBVIOUS
<1>a. status = "EXITING" /\ pc["app"] \in {"unlock", "beat", "free", "done"}
  BY DEF Over
<1>1. CASE get_next_job
  BY <1>1, <1>a DEF Types, Where, Phase, Over, get_next_job, Goto, shared, call, Threads, Locked, InCall
<1>2. CASE broadcast_async_cb
  BY <1>2, <1>a DEF Types, Where, Phase, Over, broadcast_async_cb, Goto, shared, call, Threads, Locked, InCall
<1>3. CASE pool_destroy
  BY <1>3, <1>a DEF Types, Where, Phase, Over, pool_destroy, Goto, shared, call, Threads, Locked, InCall
<1>4. ASSUME NEW t \in Threads, prelude_client_send_idmef(t) PROVE Over'
  BY <1>4, <1>a DEF Types, Where, Phase, Over, prelude_client_send_idmef, Goto, shared, call, Threads, Locked, InCall
<1>5. ASSUME NEW t \in Threads, idmef_message_write(t) PROVE Over'
  BY <1>5, <1>a DEF Types, Where, Phase, Over, idmef_message_write, shared, call, Threads, Locked, InCall
<1>6. ASSUME NEW t \in Threads, prelude_client_send_msg(t) PROVE Over'
  BY <1>6, <1>a DEF Types, Where, Phase, Over, prelude_client_send_msg, Goto, shared, call, Threads, Locked, InCall
<1>7. ASSUME NEW t \in Threads, broadcast_async(t) PROVE Over'
  BY <1>7, <1>a DEF Types, Where, Phase, Over, broadcast_async, Goto, shared, call, Threads, Locked, InCall
<1>8. ASSUME NEW t \in Threads, SendUnlocks(t) PROVE Over'
  BY <1>8, <1>a DEF Types, Where, Phase, Over, SendUnlocks, Goto, shared, call, Threads, Locked, InCall
<1>9. ASSUME NEW t \in Threads, heartbeat_reads_status(t) PROVE Over'
  BY <1>9, <1>a DEF Types, Where, Phase, Over, heartbeat_reads_status, Goto, shared, call, Threads, Locked, InCall
<1>10. ASSUME NEW t \in Threads, heartbeat_resets(t) PROVE Over'
  BY <1>10, <1>a DEF Types, Where, Phase, Over, heartbeat_resets, Goto, shared, call, Threads, Locked, InCall
<1>11. ASSUME NEW t \in Threads, event_handled(t) PROVE Over'
  BY <1>11, <1>a DEF Types, Where, Phase, Over, event_handled, Goto, shared, call, Threads, Locked, InCall
<1>12. ASSUME NEW t \in Threads, heartbeat_expire_cb(t) PROVE Over'
  BY <1>12, <1>a DEF Types, Where, Phase, Over, heartbeat_expire_cb, Call, shared, call, Threads, Locked, InCall
<1>13. ASSUME NEW t \in Threads, check_for_data(t) PROVE Over'
  BY <1>13, <1>a DEF Types, Where, Phase, Over, check_for_data, Call, shared, call, Threads, Locked, InCall
<1>14. CASE start_fails
  BY <1>14, <1>a DEF Types, Where, Phase, Over, start_fails, shared, call, Threads, Locked, InCall
<1>15. CASE prelude_client_start
  BY <1>15, <1>a DEF Types, Where, Phase, Over, prelude_client_start, Call, shared, call, Threads, Locked, InCall
<1>16. CASE start_returns
  BY <1>16, <1>a DEF Types, Where, Phase, Over, start_returns, Goto, shared, call, Threads, Locked, InCall
<1>17. CASE SendAlert
  BY <1>17, <1>a DEF Types, Where, Phase, Over, SendAlert, Call, shared, call, Threads, Locked, InCall
<1>18. ASSUME NEW success \in BOOLEAN, prelude_client_destroy(success) PROVE Over'
  BY <1>18, <1>a DEF Types, Where, Phase, Over, prelude_client_destroy, Call, Goto, shared, call, Threads, Locked, InCall
<1>19. CASE _prelude_client_destroy
  BY <1>19, <1>a DEF Types, Where, Phase, Over, _prelude_client_destroy, Goto, shared, call, Threads, Locked, InCall
<1>20. CASE prelude_client_recv_msg
  BY <1>20, <1>a DEF Types, Where, Phase, Over, prelude_client_recv_msg, Call, shared, call, Threads, Locked, InCall
<1>21. CASE UNCHANGED vars
  BY <1>21, <1>a DEF Over, vars, call
<1> QED BY <1>1, <1>2, <1>3, <1>4, <1>5, <1>6, <1>7, <1>8, <1>9, <1>10, <1>11, <1>12, <1>13, <1>14, <1>15, <1>16, <1>17, <1>18, <1>19, <1>20, <1>21
        DEF Next, JobStep, SendStep

\* A thread that is about to hand a buffer over is not after the end.
LEMMA BusyNotOver ==
    ASSUME Sound, Types, Where, Phase, NEW t \in Threads, pc[t] \in {"flush", "add"}
    PROVE  ~ Over
<1>1. CASE t = "app"
  BY <1>1 DEF Over
<1>2. CASE t = "async"
  <2>1. program.async_timer
    BY <1>2 DEF Where
  <2>2. ~ program.destroys
    BY <2>1, ProgramFacts DEF Types
  <2> QED BY <2>2 DEF Over, Phase
<1> QED BY <1>1, <1>2 DEF Threads

\* What a thread flushes is the last heartbeat only when it is done.
LEMMA FlushFinal ==
    ASSUME Types, Phase, Writer, NEW t \in Threads, pc[t] \in {"flush", "add"},
           StatusIs(buf.parts, "EXITING")
    PROVE  t = "app" /\ status = "EXITING" /\ Rest(t) = "unlock"
<1>1. buf.parts # <<>>
  BY StatusOf
<1>2. PICK k \in 1 .. 2 : buf.parts = One(cur[t], k)
  BY <1>1, AfterFlush
<1>3. cur[t].status = "EXITING"
  BY <1>2, StatusOf
<1>4. t = "app" /\ status = "EXITING" /\ Parts(cur[t]) = 1
  BY <1>3, PartsOf DEF Phase, InCall, Locked
<1>5. Rest(t) = "unlock" \/ Parts(cur[t]) = 2
  BY <1>1, AfterFlush
<1> QED BY <1>4, <1>5

\* Every step keeps the `exiting' heartbeat last.
LEMMA FinalStep ==
    ASSUME Sound
    PROVE  Types /\ Where /\ Phase /\ Writer /\ Final /\ [Next]_vars => Final'
<1> SUFFICES ASSUME Types, Where, Phase, Writer, Final, [Next]_vars PROVE Final'
  OBVIOUS
<1>a. Over => Over'
  BY OverStep
<1>b. /\ Len(joblist) \in Nat /\ (joblist = <<>> <=> Len(joblist) = 0) /\ joblist \in Seq(Bufs)
      /\ Len(out) \in Nat /\ out \in Seq(Bufs)
  BY LenProperties, EmptySeq DEF Types
<1>c. ASSUME UNCHANGED <<out, obj, joblist>> PROVE Final'
  BY <1>a, <1>c DEF Final
<1>1. CASE get_next_job
  <2>1. /\ obj' = joblist[1] /\ 1 \in 1 .. Len(joblist) /\ Len(joblist') = Len(joblist) - 1
        /\ \A i \in 1 .. Len(joblist') : joblist'[i] = joblist[i + 1] /\ i + 1 \in 1 .. Len(joblist)
        /\ joblist' \in Seq(Bufs) /\ joblist # <<>> /\ out' = out
    BY <1>1, <1>b, EmptySeq, HeadTailProperties DEF get_next_job
  <2>2. \A i \in 1 .. Len(out) : ~ StatusIs(out[i].parts, "EXITING")
    BY <2>1 DEF Final
  <2>3. StatusIs(obj'.parts, "EXITING") => joblist' = <<>> /\ Over'
    <3> SUFFICES ASSUME StatusIs(obj'.parts, "EXITING") PROVE joblist' = <<>> /\ Over'
      OBVIOUS
    <3>1. 1 = Len(joblist) /\ Over
      BY <2>1 DEF Final
    <3>2. Len(joblist') = 0
      <4>1. 1 = Len(joblist) /\ Len(joblist') = Len(joblist) - 1
        BY <2>1, <3>1
      <4> QED BY ONLY <4>1
    <3> QED BY <1>a, <2>1, <3>1, <3>2, EmptySeq
  <2>4. ASSUME NEW i \in 1 .. Len(joblist'), StatusIs(joblist'[i].parts, "EXITING")
        PROVE  i = Len(joblist') /\ Over'
    <3>1. i + 1 = Len(joblist) /\ Over
      BY <2>1, <2>4 DEF Final
    <3> QED BY <1>a, <1>b, <2>1, <3>1
  <2> QED BY <2>1, <2>2, <2>3, <2>4 DEF Final
<1>2. CASE broadcast_async_cb
  <2>1. out' = Given(obj) /\ obj' = EmptyBuf /\ obj'.parts = <<>> /\ joblist' = joblist /\ obj \in Bufs
    BY <1>2 DEF broadcast_async_cb, EmptyBuf, Types
  <2>2. \A s : ~ StatusIs(obj'.parts, s)
    BY <2>1, StatusOf
  <2>3. CASE obj.parts = <<>>
    <3>1. out' = out
      BY <2>1, <2>3 DEF Given
    <3> QED BY <1>a, <2>1, <2>2, <3>1 DEF Final
  <2>4. CASE obj.parts # <<>>
    <3>1. /\ Len(out') = Len(out) + 1 /\ out'[Len(out) + 1] = obj
          /\ \A i \in 1 .. Len(out) : out'[i] = out[i]
      BY <1>b, <2>1, <2>4, AppendProperties DEF Given
    <3>2. ASSUME NEW i \in 1 .. Len(out'), StatusIs(out'[i].parts, "EXITING")
          PROVE  i = Len(out') /\ joblist' = <<>> /\ Over'
      <4>1. CASE i \in 1 .. Len(out)
        BY <2>4, <3>1, <3>2, <4>1 DEF Final
      <4>2. CASE i = Len(out) + 1
        BY <1>a, <2>1, <3>1, <3>2, <4>2 DEF Final
      <4> QED BY <1>b, <3>1, <4>1, <4>2
    <3> QED BY <1>a, <2>1, <2>2, <3>2 DEF Final
  <2> QED BY <2>3, <2>4
<1>3. CASE pool_destroy
  BY <1>3, <1>c DEF shared, pool_destroy, Goto
<1>4. ASSUME NEW t \in Threads, prelude_client_send_idmef(t) PROVE Final'
  BY <1>4, <1>c DEF shared, prelude_client_send_idmef, Goto
<1>5. ASSUME NEW t \in Threads, idmef_message_write(t) PROVE Final'
  BY <1>5, <1>c DEF shared, idmef_message_write
<1>6. ASSUME NEW t \in Threads, prelude_client_send_msg(t) PROVE Final'
  <2>1. pc[t] = "flush" /\ UNCHANGED <<joblist, obj, status>> /\ buf \in Bufs
    BY <1>6 DEF prelude_client_send_msg, Types
  <2>2. CASE program.async_send \/ buf.parts = <<>>
    BY <1>6, <1>c, <2>2 DEF prelude_client_send_msg, Given
  <2>3. CASE ~ program.async_send /\ buf.parts # <<>>
    <3>1. out' = Append(out, buf) /\ pc'[t] = Rest(t) /\ joblist = <<>> /\ obj.parts = <<>>
      BY <1>6, <2>3 DEF prelude_client_send_msg, Given, Goto, Types, Where
    <3>2. /\ Len(out') = Len(out) + 1 /\ out'[Len(out) + 1] = buf
          /\ \A i \in 1 .. Len(out) : out'[i] = out[i]
      BY <1>b, <2>1, <3>1, AppendProperties
    <3>3. ~ Over
      BY <2>1, BusyNotOver
    <3>4. ASSUME NEW i \in 1 .. Len(out'), StatusIs(out'[i].parts, "EXITING")
          PROVE  i = Len(out') /\ Over'
      <4>1. CASE i \in 1 .. Len(out)
        BY <3>2, <3>3, <3>4, <4>1 DEF Final
      <4>2. CASE i = Len(out) + 1
        <5>1. t = "app" /\ status = "EXITING" /\ Rest(t) = "unlock"
          BY <2>1, <3>2, <3>4, <4>2, FlushFinal
        <5> QED BY <2>1, <3>1, <3>2, <4>2, <5>1 DEF Over
      <4> QED BY <1>b, <3>2, <4>1, <4>2
    <3>5. ~ StatusIs(obj.parts, "EXITING")
      BY <3>1, StatusOf
    <3> QED BY <1>b, <2>1, <3>1, <3>4, <3>5 DEF Final
  <2> QED BY <2>2, <2>3
<1>7. ASSUME NEW t \in Threads, broadcast_async(t) PROVE Final'
  <2>1. /\ pc[t] = "add" /\ UNCHANGED <<out, obj, status>> /\ joblist' = Append(joblist, buf)
        /\ pc'[t] = Rest(t) /\ buf \in Bufs
    BY <1>7 DEF broadcast_async, Goto, Types
  <2>2. /\ Len(joblist') = Len(joblist) + 1 /\ joblist'[Len(joblist) + 1] = buf
        /\ \A i \in 1 .. Len(joblist) : joblist'[i] = joblist[i]
    BY <1>b, <2>1, AppendProperties
  <2>3. ~ Over
    BY <2>1, BusyNotOver
  <2>4. ASSUME NEW i \in 1 .. Len(joblist'), StatusIs(joblist'[i].parts, "EXITING")
        PROVE  i = Len(joblist') /\ Over'
    <3>1. CASE i \in 1 .. Len(joblist)
      BY <2>2, <2>3, <2>4, <3>1 DEF Final
    <3>2. CASE i = Len(joblist) + 1
      <4>1. t = "app" /\ status = "EXITING" /\ Rest(t) = "unlock"
        BY <2>1, <2>2, <2>4, <3>2, FlushFinal
      <4> QED BY <2>1, <2>2, <3>2, <4>1 DEF Over
    <3> QED BY <1>b, <2>2, <3>1, <3>2
  <2> QED BY <2>1, <2>3, <2>4 DEF Final
<1>8. ASSUME NEW t \in Threads, SendUnlocks(t) PROVE Final'
  BY <1>8, <1>c DEF shared, SendUnlocks, Goto
<1>9. ASSUME NEW t \in Threads, heartbeat_reads_status(t) PROVE Final'
  BY <1>9, <1>c DEF shared, heartbeat_reads_status, Goto
<1>10. ASSUME NEW t \in Threads, heartbeat_resets(t) PROVE Final'
  BY <1>10, <1>c DEF shared, heartbeat_resets, Goto
<1>11. ASSUME NEW t \in Threads, event_handled(t) PROVE Final'
  BY <1>11, <1>c DEF shared, event_handled, Goto
<1>12. ASSUME NEW t \in Threads, heartbeat_expire_cb(t) PROVE Final'
  BY <1>12, <1>c DEF shared, heartbeat_expire_cb, Call
<1>13. ASSUME NEW t \in Threads, check_for_data(t) PROVE Final'
  BY <1>13, <1>c DEF shared, check_for_data, Call
<1>14. CASE start_fails
  BY <1>14, <1>c DEF shared, start_fails
<1>15. CASE prelude_client_start
  BY <1>15, <1>c DEF shared, prelude_client_start, Call
<1>16. CASE start_returns
  BY <1>16, <1>c DEF shared, start_returns, Goto
<1>17. CASE SendAlert
  BY <1>17, <1>c DEF shared, SendAlert, Call
<1>18. ASSUME NEW success \in BOOLEAN, prelude_client_destroy(success) PROVE Final'
  BY <1>18, <1>c DEF shared, prelude_client_destroy, Call, Goto
<1>19. CASE _prelude_client_destroy
  BY <1>19, <1>c DEF shared, _prelude_client_destroy, Goto
<1>20. CASE prelude_client_recv_msg
  BY <1>20, <1>c DEF shared, prelude_client_recv_msg, Call
<1>21. CASE UNCHANGED vars
  BY <1>21, <1>c DEF shared, vars
<1> QED BY <1>1, <1>2, <1>3, <1>4, <1>5, <1>6, <1>7, <1>8, <1>9, <1>10, <1>11, <1>12, <1>13, <1>14, <1>15, <1>16, <1>17, <1>18, <1>19, <1>20, <1>21
        DEF Next, JobStep, SendStep

-----------------------------------------------------------------------------
\* The invariant holds at first.
LEMMA ClientInit == Sound /\ Init => ClientInv
<1> SUFFICES ASSUME Sound, Init PROVE ClientInv
  OBVIOUS
<1>1. /\ out = <<>> /\ joblist = <<>> /\ obj = EmptyBuf /\ buf = EmptyBuf /\ Len(out) = 0 /\ Len(joblist) = 0
      /\ EmptyBuf.parts = <<>> /\ EmptyBuf.tag = IDMEF /\ EmptyBuf \in Bufs
  BY DEF Init, EmptyBuf, Bufs
<1>2. /\ pc["app"] = "idle" /\ pc["async"] = "idle" /\ status = "NEED_INIT" /\ armed = FALSE
      /\ client = "alive" /\ msgbuf_lock = "none" /\ refcount = 1
  BY DEF Init, Threads
<1>3. Types
  <2>1. joblist \in Seq(Bufs) /\ out \in Seq(Bufs)
    BY <1>1, EmptySeq
  <2>2. pc \in [Threads -> Labels] /\ ret \in [Threads -> Labels]
    BY DEF Init, Labels
  <2>3. cur \in [Threads -> Msgs] /\ part \in [Threads -> Nat]
    BY MsgTypes DEF Init
  <2>4. alerts \in Nat /\ beats \in Nat /\ requests \in Nat /\ program \in Programs
    BY DEF Init
  <2> QED BY <1>1, <1>2, <2>1, <2>2, <2>3, <2>4 DEF Types, Statuses
<1>4. Where
  BY <1>1, <1>2 DEF Where, Threads, Locked, InCall
<1>5. Phase
  BY <1>1, <1>2 DEF Phase, Threads, Locked, InCall
<1>6. References
  <2>1. OfClient = 1 /\ OfJob = 0 /\ OfAdd = 0
    BY <1>2 DEF OfClient, OfJob, OfAdd
  <2> QED BY <1>1, <1>2, <2>1 DEF References
<1>7. Back = <<>>
  BY <1>1, <1>2 DEF Back, Front, LastOut
<1>8. Chain
  BY <1>1, <1>2 DEF Chain
<1>9. Writer
  BY <1>1, <1>2, <1>7, LinkFacts DEF Writer, Writing, Threads
<1>10. Tags
  BY <1>1 DEF Tags, Tagged
<1>11. AllSilent
  BY <1>1 DEF AllSilent, Silent
<1>12. FirstOut /\ FirstCall
  BY <1>1, <1>2, <1>11 DEF FirstOut, FirstCall, Threads, Locked, InCall
<1>13. Final
  BY <1>1, StatusOf DEF Final
<1> QED BY <1>3, <1>4, <1>5, <1>6, <1>8, <1>9, <1>10, <1>12, <1>13 DEF ClientInv

\* The inductive invariant holds for every sound client.
THEOREM ClientInvariant == Sound => (Spec => []ClientInv)
<1> SUFFICES ASSUME Sound PROVE Spec => []ClientInv
  OBVIOUS
<1>1. ClientInv /\ [Next]_vars => ClientInv'
  BY TypesStep, WhereStep, PhaseStep, ReferencesStep, ChainStep, TagsStep, FirstStep, FinalStep DEF ClientInv
<1>2. Init => ClientInv
  BY ClientInit
<1> QED BY <1>1, <1>2, PTL DEF Spec

\* The chain and the tags give Contiguous,
LEMMA InvContiguous == ClientInv => Contiguous
<1> SUFFICES ASSUME ClientInv PROVE Contiguous
  OBVIOUS
<1>1. out \in Seq(Bufs) /\ Len(out) \in Nat /\ (out = <<>> <=> Len(out) = 0)
  BY LenProperties, EmptySeq DEF ClientInv, Types
<1>2. ASSUME NEW i \in 1 .. Len(out)
      PROVE  \E m \in Msgs, k \in 1 .. 2 : out[i].parts = One(m, k)
  <2>1. out[i] \in Bufs /\ out[i].parts # <<>>
    BY <1>1, ElementOfSeq DEF ClientInv, Chain
  <2> QED BY <2>1 DEF Bufs
<1>3. ASSUME NEW i \in 1 .. Len(out), NEW m \in Msgs, NEW k \in 1 .. 2, out[i].parts = One(m, k)
      PROVE  /\ k > 1 => i > 1 /\ out[i - 1].parts = One(m, k - 1)
             /\ i < Len(out) /\ k < Parts(m) => out[i + 1].parts = One(m, k + 1)
             /\ m.kind \in {"alert", "heartbeat"} => out[i].tag = IDMEF
  <2>3. Parts(m) \in {0, 1, 2} /\ One(m, k) # <<>>
    BY PartsOf, OneFacts
  <2>4. k > 1 => ~ Starts(out[i].parts)
    <3>1. ASSUME NEW n \in Msgs, One(m, k) = One(n, 1) PROVE k = 1
      BY <3>1, OneInjective
    <3> QED BY <1>3, <2>3, <3>1 DEF Starts
  <2>5. k < Parts(m) => ~ Done(out[i].parts)
    <3>1. ASSUME NEW n \in Msgs, One(m, k) = One(n, Parts(n)) PROVE k = Parts(m)
      BY <3>1, OneInjective
    <3> QED BY <1>3, <2>3, <3>1 DEF Done
  <2>6. ASSUME k > 1 PROVE i > 1 /\ out[i - 1].parts = One(m, k - 1)
    <3>1. i # 1
      BY <1>1, <2>4, <2>6 DEF ClientInv, Chain
    <3>2. i - 1 \in 1 .. Len(out) - 1 /\ (i - 1) + 1 = i /\ i > 1
      BY <1>1, <3>1
    <3>3. Linked(out[i - 1].parts, out[i].parts)
      BY <3>2 DEF ClientInv, Chain
    <3>4. PICK n \in Msgs : out[i - 1].parts = One(n, 1) /\ out[i].parts = One(n, 2)
      BY <2>4, <2>6, <3>3 DEF Linked
    <3>5. n = m /\ k = 2
      <4>1. One(m, k) = One(n, 2)
        BY <1>3, <3>4
      <4> QED BY ONLY <4>1, OneInjective
    <3> QED BY <3>2, <3>4, <3>5
  <2>7. ASSUME i < Len(out), k < Parts(m) PROVE out[i + 1].parts = One(m, k + 1)
    <3>1. Linked(out[i].parts, out[i + 1].parts)
      <4>1. i \in 1 .. Len(out) - 1
        BY <1>1, <2>7
      <4> QED BY <4>1 DEF ClientInv, Chain
    <3>2. PICK n \in Msgs : out[i].parts = One(n, 1) /\ out[i + 1].parts = One(n, 2)
      BY <2>5, <2>7, <3>1 DEF Linked
    <3>3. n = m /\ k = 1
      <4>1. One(m, k) = One(n, 1)
        BY <1>3, <3>2
      <4> QED BY ONLY <4>1, OneInjective
    <3> QED BY <3>2, <3>3
  <2>8. m.kind \in {"alert", "heartbeat"} => out[i].tag = IDMEF
    BY <1>3, <2>3, OneFacts DEF ClientInv, Tags, Tagged
  <2> QED BY <2>6, <2>7, <2>8
<1>4. ASSUME NEW i \in 1 .. Len(out)
      PROVE  /\ Len(out[i].parts) = 1
             /\ LET m == out[i].parts[1][1]
                    k == out[i].parts[1][2]
                IN  /\ k > 1 => i > 1 /\ out[i - 1].parts = One(m, k - 1)
                    /\ i < Len(out) /\ k < Parts(m) => out[i + 1].parts = One(m, k + 1)
                    /\ m.kind \in {"alert", "heartbeat"} => out[i].tag = IDMEF
  <2>1. PICK m \in Msgs, k \in 1 .. 2 : out[i].parts = One(m, k)
    BY <1>2
  <2>2. Len(out[i].parts) = 1 /\ out[i].parts[1][1] = m /\ out[i].parts[1][2] = k
    BY <2>1, OneFacts
  <2> QED BY <1>3, <2>1, <2>2
<1> QED BY <1>4 DEF Contiguous, One

\* the references and the positions give NothingStale,
LEMMA InvNothingStale == Sound /\ ClientInv => NothingStale
<1> SUFFICES ASSUME Sound, ClientInv PROVE NothingStale
  OBVIOUS
<1>1. Types /\ Where /\ References /\ Len(joblist) \in Nat /\ (joblist = <<>> <=> Len(joblist) = 0)
  BY LenProperties, EmptySeq DEF ClientInv, Types
<1>2. OfClient \in Nat /\ OfJob \in Nat /\ OfAdd \in Nat
  BY DEF OfClient, OfJob, OfAdd
<1>3. program.async_timer => ~ program.destroys
  BY <1>1, ProgramFacts DEF Types
<1>4. joblist # <<>> \/ pc["async"] \in {"broadcast", "release"} => refcount > 0
  <2>1. CASE joblist # <<>>
    <3>1. Len(joblist) > 0
      BY <1>1, <2>1
    <3> QED BY <1>1, <1>2, <3>1 DEF References
  <2>2. CASE pc["async"] \in {"broadcast", "release"}
    <3>1. OfJob = 1
      BY <2>2 DEF OfJob
    <3> QED BY <1>1, <1>2, <3>1 DEF References
  <2> QED BY <2>1, <2>2
<1>5. ASSUME NEW t \in Threads, pc[t] = "add" PROVE refcount > 1
  <2>1. pc["app"] # "done"
    BY <1>1, <1>3, <1>5 DEF Where, Threads
  <2>2. OfClient = 1 /\ OfAdd = 1
    BY <1>1, <1>5, <2>1 DEF Where, Types, OfClient, OfAdd, Threads
  <2> QED BY <1>1, <1>2, <2>2 DEF References
<1>6. client = "freed" => ~ armed /\ \A t \in Threads : pc[t] \in {"idle", "done", "broadcast", "release"}
  BY <1>1, <1>3 DEF Where, Threads
<1> QED BY <1>4, <1>5, <1>6 DEF NothingStale

\* what is first and what is last gives BeatsInOrder.
LEMMA InvBeatsInOrder == ClientInv => BeatsInOrder
<1> SUFFICES ASSUME ClientInv, NEW i \in 1 .. Len(out)
             PROVE  /\ (i = 1) <=> (out[i].parts[1][1].status = "STARTING")
                    /\ out[i].parts[1][1].status = "EXITING" => i = Len(out)
  BY DEF BeatsInOrder
<1>1. out[i].parts # <<>>
  BY DEF ClientInv, Chain
<1>2. StatusIs(out[i].parts, "STARTING") <=> i = 1
  BY DEF ClientInv, FirstOut
<1>3. StatusIs(out[i].parts, "EXITING") => i = Len(out)
  BY DEF ClientInv, Final
<1> QED BY <1>1, <1>2, <1>3 DEF StatusIs

\* However the two threads interleave, the parts of a message follow each other
\* in what the pool is given (prelude_client_send_idmef keeps msgbuf_lock), and
\* IDMEF messages have their tag.
THEOREM ClientContiguous == Sound => (Spec => []Contiguous)
<1> SUFFICES ASSUME Sound PROVE Spec => []Contiguous
  OBVIOUS
<1> QED BY ClientInvariant, InvContiguous, PTL

\* The pool is not freed while a message is queued or sent, nor the client
\* while a thread or its timer may use it (the references that
\* prelude_connection_pool_broadcast_async takes).
THEOREM ClientNothingStale == Sound => (Spec => []NothingStale)
<1> SUFFICES ASSUME Sound PROVE Spec => []NothingStale
  OBVIOUS
<1>1. ClientInv => NothingStale
  BY InvNothingStale
<1> QED BY <1>1, ClientInvariant, PTL

\* The `starting' heartbeat of prelude_client_start comes first and once, the
\* `exiting' one of prelude_client_destroy last.
THEOREM ClientBeatsInOrder == Sound => (Spec => []BeatsInOrder)
<1> SUFFICES ASSUME Sound PROVE Spec => []BeatsInOrder
  OBVIOUS
<1> QED BY ClientInvariant, InvBeatsInOrder, PTL
=============================================================================
