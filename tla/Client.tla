-------------------------------- MODULE Client --------------------------------
(***************************************************************************)
(* A client (src/prelude-client.c) from its creation to its destruction:   *)
(* heartbeats, alerts, option requests, and the two locks they take.       *)
(*                                                                         *)
(* Two threads run: the application, and the asynchronous thread, which    *)
(* sends queued messages with PRELUDE_CLIENT_FLAGS_ASYNC_SEND and runs     *)
(* timers with PRELUDE_CLIENT_FLAGS_ASYNC_TIMER.  Without the latter the   *)
(* application runs them.  The connection pool is the order in which it is *)
(* given messages (modules ConnectionPool and Msg say what it does with    *)
(* them), its mutex and its reference count.  A section of the code that   *)
(* holds the mutex and takes no other lock is one step.                    *)
(***************************************************************************)
EXTENDS Naturals, Sequences

CONSTANTS
    Programs,     \* [async_send, async_timer, destroys, polls, recvs : BOOLEAN]
    MaxAlerts,    \* bounds on the alerts the application sends,
    MaxBeats,     \* on the heartbeats of the timer,
    MaxRequests   \* and on the option requests of managers

ASSUME BoundsAssumption == {MaxAlerts, MaxBeats, MaxRequests} \subseteq Nat

Threads == {"app", "async"}

VARIABLES
    program,
    status,        \* client->status
    client,        \* "alive", "freed"
    armed,         \* the heartbeat timer is listed
    msgbuf_lock,   \* the thread that holds it, or "none"
    mutex,         \* pool->mutex, while an event is handled
    refcount,      \* pool->refcount
    buf,           \* content of client->msgbuf, and its tag
    joblist, obj,  \* queued messages, the one being sent
    pc, cur, part, ret,  \* per thread: position, message, next part, caller
    alerts, beats, requests,  \* how many there were
    written,       \* history: messages in the order in which they were written
    out            \* history: what the pool was given, in order

shared == <<program, client, armed, msgbuf_lock, mutex, refcount>>
counts == <<alerts, beats, requests>>
call   == <<pc, cur, part, ret>>
vars   == <<shared, status, buf, joblist, obj, call, counts, written, out>>

\* An alert does not fit one buffer.  A request only marks the end of an empty
\* one: its reply has a buffer of its own.
Parts(m) == CASE m.kind = "alert" -> 2 [] m.kind = "request" -> 0 [] OTHER -> 1

Alert(n)        == [kind |-> "alert", status |-> "none", n |-> n]
Heartbeat(s, n) == [kind |-> "heartbeat", status |-> s, n |-> n]
Request         == [kind |-> "request", status |-> "none", n |-> 0]
Reply(n)        == [kind |-> "reply", status |-> "none", n |-> n]

IDMEF == "IDMEF"
OPTION_REPLY == "OPTION_REPLY"
EmptyBuf == [tag |-> IDMEF, parts |-> <<>>]   \* prelude_msg_dynamic_new

Started == status \in {"STARTING", "RUNNING", "EXITING"}
TimerThread == IF program.async_timer THEN "async" ELSE "app"

Init ==
    /\ program \in Programs
    /\ status = "NEED_INIT" /\ client = "alive" /\ armed = FALSE
    /\ msgbuf_lock = "none" /\ mutex = "none" /\ refcount = 1
    /\ buf = EmptyBuf /\ joblist = <<>> /\ obj = EmptyBuf
    /\ pc = [t \in Threads |-> "idle"] /\ cur = [t \in Threads |-> Request]
    /\ part = [t \in Threads |-> 1] /\ ret = [t \in Threads |-> "none"]
    /\ alerts = 0 /\ beats = 0 /\ requests = 0
    /\ written = <<>> /\ out = <<>>

-----------------------------------------------------------------------------
(* prelude_client_send_idmef, called by either thread.                     *)

\* Thread t starts to send m; `from' says where it goes on.
Call(t, m, from) ==
    /\ pc' = [pc EXCEPT ![t] = "lock"] /\ cur' = [cur EXCEPT ![t] = m]
    /\ part' = [part EXCEPT ![t] = 1] /\ ret' = [ret EXCEPT ![t] = from]

Goto(t, l) == pc' = [pc EXCEPT ![t] = l] /\ UNCHANGED <<cur, part, ret>>

\* Mutant: the buffer is not locked.
SendUnlocked(t) ==
    /\ pc[t] = "lock"
    /\ written' = IF Parts(cur[t]) = 0 THEN written ELSE Append(written, cur[t])
    /\ Goto(t, IF Parts(cur[t]) = 0 THEN "flush" ELSE "write")
    /\ UNCHANGED <<shared, status, buf, joblist, obj, counts, out>>

prelude_client_send_idmef(t) ==
    /\ pc[t] = "lock" /\ msgbuf_lock = "none"
    /\ msgbuf_lock' = t
    /\ written' = IF Parts(cur[t]) = 0 THEN written ELSE Append(written, cur[t])
    /\ Goto(t, IF Parts(cur[t]) = 0 THEN "flush" ELSE "write")
    /\ UNCHANGED <<program, client, armed, mutex, refcount, status, buf, joblist, obj, counts, out>>

\* The next part is written to the buffer; prelude_option_process_request sets
\* the tag of the buffer, idmef_message_write leaves it as it is.
idmef_message_write(t) ==
    /\ pc[t] = "write"
    /\ buf' = [tag |-> IF cur[t].kind = "reply" THEN OPTION_REPLY ELSE buf.tag,
               parts |-> Append(buf.parts, <<cur[t], part[t]>>)]
    /\ part' = [part EXCEPT ![t] = @ + 1]
    /\ pc' = [pc EXCEPT ![t] = "flush"]
    /\ UNCHANGED <<shared, status, joblist, obj, cur, ret, counts, written, out>>

\* After a part was sent: the next one, or the end.
Rest(t) == IF part[t] <= Parts(cur[t]) THEN "write" ELSE "unlock"

\* prelude_msg_write writes nothing of an empty message.
Given(b) == IF b.parts = <<>> THEN out ELSE Append(out, b)

\* Mutant: the pool may be destroyed before the message was sent.
SendMsgUncounted(t) ==
    /\ pc[t] = "flush" /\ mutex \in {"none", t}
    /\ IF program.async_send
       THEN Goto(t, "add") /\ UNCHANGED <<buf, out>>
       ELSE out' = Given(buf) /\ buf' = [buf EXCEPT !.parts = <<>>] /\ Goto(t, Rest(t))
    /\ UNCHANGED <<shared, status, joblist, obj, counts, written>>

\* client_write_cb, when the buffer is full or its end was marked.  The pool
\* is given the message at once, or a reference to the pool is taken.
prelude_client_send_msg(t) ==
    /\ pc[t] = "flush" /\ mutex \in {"none", t}
    /\ IF program.async_send
       THEN refcount' = refcount + 1 /\ Goto(t, "add") /\ UNCHANGED <<buf, out>>
       ELSE /\ out' = Given(buf) /\ buf' = [buf EXCEPT !.parts = <<>>]
            /\ Goto(t, Rest(t)) /\ UNCHANGED refcount
    /\ UNCHANGED <<program, client, armed, msgbuf_lock, mutex, status, joblist, obj, counts, written>>

\* The message is queued, and the buffer gets a new one.
broadcast_async(t) ==
    /\ pc[t] = "add"
    /\ joblist' = Append(joblist, buf) /\ buf' = EmptyBuf
    /\ Goto(t, Rest(t))
    /\ UNCHANGED <<shared, status, obj, counts, written, out>>

SendUnlocks(t) ==
    /\ pc[t] = "unlock"
    /\ msgbuf_lock' = "none"
    /\ Goto(t, ret[t])
    /\ UNCHANGED <<program, client, armed, mutex, refcount, status, buf, joblist, obj, counts, written, out>>

-----------------------------------------------------------------------------
(* The asynchronous thread sends what is queued (see module Async).        *)

get_next_job ==
    /\ pc["async"] = "idle" /\ joblist # <<>>
    /\ obj' = Head(joblist) /\ joblist' = Tail(joblist)
    /\ Goto("async", "broadcast")
    /\ UNCHANGED <<shared, status, buf, counts, written, out>>

broadcast_async_cb ==
    /\ pc["async"] = "broadcast" /\ mutex = "none"
    /\ out' = Given(obj) /\ obj' = EmptyBuf
    /\ Goto("async", "release")
    /\ UNCHANGED <<shared, status, buf, joblist, counts, written>>

\* Mutant: the reference of the job is kept.
ReleaseKeeps ==
    /\ pc["async"] = "release" /\ mutex = "none"
    /\ Goto("async", "idle")
    /\ UNCHANGED <<shared, status, buf, joblist, obj, counts, written, out>>

\* prelude_connection_pool_destroy by the job: the pool is freed at 0.
pool_destroy ==
    /\ pc["async"] = "release" /\ mutex = "none"
    /\ refcount' = refcount - 1
    /\ Goto("async", "idle")
    /\ UNCHANGED <<program, client, armed, msgbuf_lock, mutex, status, buf, joblist, obj, counts, written, out>>

-----------------------------------------------------------------------------
(* Start, heartbeats, alerts, destruction.                                 *)

\* prelude_client_init is done, and the pool cannot be initialized.
start_fails ==
    /\ pc["app"] = "idle" /\ status = "NEED_INIT"
    /\ status' = "INIT_DONE"
    /\ UNCHANGED <<shared, buf, joblist, obj, call, counts, written, out>>

\* Mutant: the timer runs before the first heartbeat was sent.
StartArmsFirst ==
    /\ pc["app"] = "idle" /\ status \in {"NEED_INIT", "INIT_DONE"}
    /\ status' = "STARTING" /\ armed' = TRUE
    /\ Call("app", Heartbeat("STARTING", 0), "start")
    /\ UNCHANGED <<program, client, msgbuf_lock, mutex, refcount, buf, joblist, obj, counts, written, out>>

prelude_client_start ==
    /\ pc["app"] = "idle" /\ status \in {"NEED_INIT", "INIT_DONE"}
    /\ status' = "STARTING"
    /\ Call("app", Heartbeat("STARTING", 0), "start")
    /\ UNCHANGED <<shared, buf, joblist, obj, counts, written, out>>

start_returns ==
    /\ pc["app"] = "start"
    /\ status' = "RUNNING" /\ armed' = TRUE
    /\ Goto("app", "idle")
    /\ UNCHANGED <<program, client, msgbuf_lock, mutex, refcount, buf, joblist, obj, counts, written, out>>

SendAlert ==
    /\ pc["app"] = "idle" /\ status = "RUNNING" /\ client = "alive"
    /\ alerts < MaxAlerts /\ alerts' = alerts + 1
    /\ Call("app", Alert(alerts + 1), "idle")
    /\ UNCHANGED <<shared, status, buf, joblist, obj, beats, requests, written, out>>

\* heartbeat_expire_cb, called by the thread that runs timers.
heartbeat_expire_cb(t) ==
    /\ t = TimerThread /\ pc[t] = "idle" /\ armed
    /\ beats < MaxBeats /\ beats' = beats + 1
    /\ Call(t, Heartbeat(status, beats + 1), "beat")
    /\ UNCHANGED <<shared, status, buf, joblist, obj, alerts, requests, written, out>>

\* The end of heartbeat_expire_cb: the status is read, then the timer reset.
heartbeat_reads_status(t) ==
    /\ pc[t] = "beat"
    /\ Goto(t, IF status # "EXITING" THEN "reset" ELSE IF t = "app" THEN "free" ELSE "idle")
    /\ UNCHANGED <<shared, status, buf, joblist, obj, counts, written, out>>

heartbeat_resets(t) ==
    /\ pc[t] = "reset"
    /\ armed' = TRUE
    /\ Goto(t, "idle")
    /\ UNCHANGED <<program, client, msgbuf_lock, mutex, refcount, status, buf, joblist, obj, counts, written, out>>

\* The timer is removed; a client that was started and exits with success
\* calls heartbeat_expire_cb once more.
prelude_client_destroy(success) ==
    /\ program.destroys /\ pc["app"] = "idle" /\ client = "alive"
    /\ armed' = FALSE
    /\ IF Started /\ success
       THEN status' = "EXITING" /\ Call("app", Heartbeat("EXITING", 0), "beat")
       ELSE Goto("app", "free") /\ UNCHANGED status
    /\ UNCHANGED <<program, client, msgbuf_lock, mutex, refcount, buf, joblist, obj, counts, written, out>>

_prelude_client_destroy ==
    /\ pc["app"] = "free" /\ mutex = "none"
    /\ refcount' = refcount - 1 /\ client' = "freed"
    /\ Goto("app", "done")
    /\ UNCHANGED <<program, armed, msgbuf_lock, mutex, status, buf, joblist, obj, counts, written, out>>

-----------------------------------------------------------------------------
(* Option requests.                                                        *)

\* check_for_data_cb, a timer of the pool: the mutex of the pool is held while
\* connection_pool_event_cb has the request handled.
check_for_data(t) ==
    /\ t = TimerThread /\ program.polls /\ pc[t] = "idle" /\ Started /\ client = "alive"
    /\ mutex = "none" /\ mutex' = t
    /\ requests < MaxRequests /\ requests' = requests + 1
    /\ Call(t, Request, "handled")
    /\ UNCHANGED <<program, client, armed, msgbuf_lock, refcount, status, buf, joblist, obj, alerts, beats, written, out>>

event_handled(t) ==
    /\ pc[t] = "handled"
    /\ mutex' = "none"
    /\ Goto(t, "idle")
    /\ UNCHANGED <<program, client, armed, msgbuf_lock, refcount, status, buf, joblist, obj, counts, written, out>>

\* The application receives the request; the reply goes through client->msgbuf.
prelude_client_recv_msg ==
    /\ program.recvs /\ pc["app"] = "idle" /\ status = "RUNNING" /\ client = "alive" /\ mutex = "none"
    /\ requests < MaxRequests /\ requests' = requests + 1
    /\ Call("app", Reply(requests + 1), "idle")
    /\ UNCHANGED <<shared, status, buf, joblist, obj, alerts, beats, written, out>>

-----------------------------------------------------------------------------
SendStep(t) ==
    \/ prelude_client_send_idmef(t) \/ idmef_message_write(t)
    \/ prelude_client_send_msg(t) \/ broadcast_async(t) \/ SendUnlocks(t)
    \/ heartbeat_reads_status(t) \/ heartbeat_resets(t) \/ event_handled(t)

JobStep == get_next_job \/ broadcast_async_cb \/ pool_destroy

Next ==
    \/ JobStep
    \/ \E t \in Threads : SendStep(t) \/ heartbeat_expire_cb(t) \/ check_for_data(t)
    \/ start_fails \/ prelude_client_start \/ start_returns \/ SendAlert
    \/ \E success \in BOOLEAN : prelude_client_destroy(success)
    \/ _prelude_client_destroy
    \/ prelude_client_recv_msg

Spec == Init /\ [][Next]_vars

\* A thread that is inside a call goes on, and so does the asynchronous thread
\* while messages are queued; nothing says that the application makes another
\* call, and no lock is assumed to be fair.
FairSpec ==
    /\ Spec
    /\ \A t \in Threads : WF_vars(SendStep(t))
    /\ WF_vars(JobStep) /\ WF_vars(start_returns) /\ WF_vars(_prelude_client_destroy)

-----------------------------------------------------------------------------
Last(m) == <<m, Parts(m)>>
Gone(m) == \E i \in 1 .. Len(out) : out[i].parts = <<Last(m)>>

\* The fragments of a message follow each other and nothing comes between
\* them, although heartbeats and alerts of two threads are written to one
\* buffer: a receiver appends the next message it reads to a fragment.  IDMEF
\* messages have the tag by which receivers know them.
Contiguous ==
    /\ \A i \in 1 .. Len(out) :
        /\ Len(out[i].parts) = 1
        /\ LET m == out[i].parts[1][1]
               k == out[i].parts[1][2]
           IN  /\ k > 1 => i > 1 /\ out[i - 1].parts = <<<<m, k - 1>>>>
               /\ i < Len(out) /\ k < Parts(m) => out[i + 1].parts = <<<<m, k + 1>>>>
               /\ m.kind \in {"alert", "heartbeat"} => out[i].tag = IDMEF

\* Nobody uses what was freed: not the pool, while messages are queued or
\* being queued or sent, nor the client, from a thread or through its timer.
NothingStale ==
    /\ joblist # <<>> \/ pc["async"] \in {"broadcast", "release"} => refcount > 0
    /\ \A t \in Threads : pc[t] = "add" => refcount > 1
    /\ client = "freed" => ~ armed /\ \A t \in Threads : pc[t] \in {"idle", "done", "broadcast", "release"}

\* Managers see one `starting' heartbeat, before everything else, and after
\* the `exiting' heartbeat nothing at all.
BeatsInOrder ==
    \A i \in 1 .. Len(out) :
        /\ (i = 1) = (out[i].parts[1][1].status = "STARTING")
        /\ out[i].parts[1][1].status = "EXITING" => i = Len(out)

\* What a message may be.
AllMessages ==
    {Alert(n) : n \in 1 .. MaxAlerts} \cup {Reply(n) : n \in 1 .. MaxRequests}
    \cup {Heartbeat("RUNNING", n) : n \in 1 .. MaxBeats}
    \cup {Heartbeat("STARTING", 0), Heartbeat("EXITING", 0)}

\* A message that is written is sent, also when the client is destroyed in the
\* meantime, and once the client is destroyed its pool is freed.
AllSent ==
    /\ \A m \in AllMessages : (\E i \in 1 .. Len(written) : written[i] = m) ~> Gone(m)
    /\ (client = "freed") ~> (refcount = 0)

=============================================================================
