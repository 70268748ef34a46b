--------------------------- MODULE ConnectionPool ---------------------------
(***************************************************************************)
(* The connection pool of src/prelude-connection-pool.c: connections in an *)
(* OR of AND lists, the messages sent through them, the failovers that     *)
(* keep what could not be sent, and the timers that reconnect.             *)
(*                                                                         *)
(* The recursive mutex of the pool is held from the call of an operation   *)
(* to its return.  `stack' holds the frames of the thread that has the     *)
(* mutex, innermost first, and is empty while nobody has it; every send,   *)
(* connection attempt and read of a failover is a step, between which the  *)
(* managers and the network go up and down.  A failover is the queue that  *)
(* module FailoverQueue specifies, on a disk that outlives the pool.       *)
(***************************************************************************)
EXTENDS Integers, Sequences, FiniteSets

CONSTANTS
    Cnx,         \* connections, one for each address of a manager
    Msg,         \* messages; each is broadcast at most once
    Strings,     \* connection strings: sequences of sequences of connections
    FAILOVER, RECONNECT,   \* PRELUDE_CONNECTION_POOL_FLAGS_*
    INITIAL_EXPIRATION_TIME, MAXIMUM_EXPIRATION_TIME,
    Calls,       \* calls the application makes: subset of CallKinds
    Faults,      \* what can go wrong: subset of FaultKinds
    MaxFails,    \* bound on the number of failures of links and managers, of
                 \* answers that are refused, of reports of dead connections,
                 \* of repeated initializations and of connections that the
                 \* application makes
    Nobody, Freed   \* not connections

CallKinds  == {"init", "set_string", "set_dead", "set_alive", "add"}
FaultKinds == {"late",      \* a message was sent when its failure is noticed
               "part",      \* a part of a message was sent
               "close",     \* prelude_connection_close must be called again
               "profile",   \* the profile is refused
               "unread",    \* a failover cannot be read
               "unsaved",   \* a failover cannot be written
               "refused",   \* what a manager sends is refused
               "callback"}  \* an event handler reports the connection dead

ASSUME PoolAssumption ==
    /\ Nobody \notin Cnx /\ Freed \notin Cnx /\ Nobody # Freed
    /\ Calls \subseteq CallKinds /\ Faults \subseteq FaultKinds
    /\ FAILOVER \in BOOLEAN /\ RECONNECT \in BOOLEAN
ASSUME StringsAssumption == Strings \subseteq Seq(Seq(Cnx) \ {<<>>})
ASSUME BoundAssumption ==
    /\ INITIAL_EXPIRATION_TIME \in Nat /\ MAXIMUM_EXPIRATION_TIME \in Nat /\ MaxFails \in Nat

VARIABLES
    lists,          \* or_list: the connections of each cnx_list_t
    dead,           \* the field `dead' of each cnx_list_t
    connection_string, connection_string_changed, initialized,
    alive,          \* connections in PRELUDE_CONNECTION_STATE_ESTABLISHED
    fds,            \* connections whose descriptor is in the set that is polled
    armed, expire,  \* the reconnection timers that are listed; their delays
    firing,         \* connection_timer_expire was called and waits for the mutex
    poller, ready,  \* the thread that polls; what select told it
    saved, global,  \* the failover of each connection; that of the pool
    stack,
    link,           \* connections that work
    up,             \* managers that accept connections
    fails,          \* history: number of failures, up to MaxFails
    sent, to,       \* history: messages broadcast; whom each was addressed to
    got             \* history: how often each manager got each message

conf  == <<lists, connection_string, connection_string_changed, initialized>>
cnxs  == <<dead, alive, link, fds, armed, expire>>
store == <<saved, global, sent, to, got>>
net   == <<up, fails>>
poll  == <<poller, ready>>
vars  == <<conf, cnxs, firing, poll, store, stack, net>>

\* A message of which only the end was written to a failover.
Torn == "torn"

ASSUME TornAssumption == Torn \notin Msg

ToSet(s) == {s[i] : i \in DOMAIN s}

\* The connections of an OR list.
Members(ls) == UNION {ToSet(ls[l]) : l \in DOMAIN ls}

Pooled == Members(lists)

\* Two nested loops walk an OR list: the connection they are at, and the rest.
At(ls)    == Head(Head(ls))
After(ls) == IF Len(Head(ls)) = 1 THEN Tail(ls) ELSE <<Tail(Head(ls))>> \o Tail(ls)

parent(c) == CHOOSE l \in DOMAIN lists : c \in ToSet(lists[l])

Init ==
    /\ lists = <<>> /\ dead = <<>>
    /\ connection_string \in Strings
    /\ connection_string_changed \in {TRUE} \union {FALSE : k \in Calls \intersect {"add"}}
    /\ initialized = FALSE
    /\ alive = {} /\ fds = {} /\ armed = {} /\ firing = Nobody
    /\ expire = [c \in Cnx |-> INITIAL_EXPIRATION_TIME]
    /\ poller = "out" /\ ready = {}
    /\ saved = [c \in Cnx |-> <<>>] /\ global = <<>>
    /\ stack = <<>>
    /\ up \in SUBSET Cnx /\ link = {} /\ fails = 0
    /\ sent = {} /\ to = [m \in Msg |-> {}] /\ got = [c \in Cnx |-> [m \in Msg |-> 0]]

-----------------------------------------------------------------------------
(* Frames of the thread that holds the mutex.                              *)

Broadcast(m, whole, and) == [fn |-> "broadcast", msg |-> m, whole |-> whole, and |-> and]
FlushCnx(c)              == [fn |-> "flush_cnx", cnx |-> c]
FlushAll(l, c)           == [fn |-> "flush_all", list |-> l, cnx |-> c]
Connect(cs)              == [fn |-> "init", rest |-> cs]
Handle(cs)               == [fn |-> "poll", rest |-> cs]
Add(c)                   == [fn |-> "add", cnx |-> c]
Added(l)                 == [fn |-> "added", list |-> l]

Fail      == fails < MaxFails /\ fails' = fails + 1

Free      == stack = <<>>
In(fn)    == ~ Free /\ Head(stack).fn = fn
Top       == Head(stack)
Call(f)   == stack' = <<f>> \o stack
Become(f) == stack' = <<f>> \o Tail(stack)
Return    == stack' = Tail(stack)

-----------------------------------------------------------------------------
(* What happens to a connection.  prelude_connection_close is called once, *)
(* and leaves the state alone when it has to be called again.              *)

\* To initialize a timer that is listed links it in twice, and may cut others
\* off the list.
Linked(c) == {S \union {c} : S \in SUBSET armed}

init_cnx_timer(c) ==
    armed' \in IF ~ RECONNECT THEN {armed} ELSE IF c \in armed THEN Linked(c) ELSE {armed \union {c}}

set_state_dead(c) ==
    /\ alive' \in {alive \ {c}} \union (IF "close" \in Faults THEN {alive} ELSE {})
    /\ link' = link \ {c}
    /\ dead' = [dead EXCEPT ![parent(c)] = @ + 1]
    /\ init_cnx_timer(c)
    /\ fds' = fds \ {c}
    /\ UNCHANGED expire

\* Mutant: the connection is not counted as being back.
SetStateAliveUncounted(c) ==
    /\ armed' = armed \ {c}
    /\ expire' = [expire EXCEPT ![c] = INITIAL_EXPIRATION_TIME]
    /\ UNCHANGED <<dead, fds>>

\* Mutant: the counter is decremented whatever its value.
SetStateAliveUnguarded(c) ==
    /\ armed' = armed \ {c}
    /\ expire' = [expire EXCEPT ![c] = INITIAL_EXPIRATION_TIME]
    /\ dead' = [dead EXCEPT ![parent(c)] = @ - 1]
    /\ UNCHANGED fds

\* Up to the first failover_flush.
set_state_alive(c) ==
    /\ armed' = armed \ {c}
    /\ expire' = [expire EXCEPT ![c] = INITIAL_EXPIRATION_TIME]
    /\ dead' = [dead EXCEPT ![parent(c)] = IF @ > 0 THEN @ - 1 ELSE 0]
    /\ UNCHANGED fds

\* prelude_connection_connect closes the connection first.
prelude_connection_connect(c) ==
    /\ c \in up
    /\ alive' = alive \union {c} /\ link' = link \union {c}

connect_fails(c) ==
    /\ c \notin up \/ "profile" \in Faults
    /\ alive' = alive \ {c} /\ link' = link \ {c}

\* The ways do_send fails: whether the manager got the message, and whether
\* the message can be written once more from its first byte.  Nothing is
\* written to a connection that is not established.
SendFailures(c) ==
    {f \in [sent : BOOLEAN, whole : BOOLEAN] :
        \/ ~ f.sent /\ f.whole
        \/ f.sent /\ f.whole /\ c \in alive /\ "late" \in Faults
        \/ ~ f.sent /\ ~ f.whole /\ c \in alive /\ "part" \in Faults}

Deliver(c, m) == got' = [got EXCEPT ![c][m] = @ + 1]

\* Whether there is a failover and it can be written; nobody looks at the error.
Saves == {ok \in BOOLEAN : ok = FAILOVER \/ (~ ok /\ "unsaved" \in Faults)}

failover_save_msg(ok, c, m, whole) ==
    saved' = IF ok THEN [saved EXCEPT ![c] = Append(@, IF whole THEN m ELSE Torn)] ELSE saved

-----------------------------------------------------------------------------
(* broadcast_message, one connection of the AND list per step.             *)

\* The rest of the list, with the message as the last write left it.
NextSink(whole) ==
    IF Len(Top.and) = 1 THEN Return ELSE Become(Broadcast(Top.msg, whole, Tail(Top.and)))

broadcast_sends(c) ==
    /\ c \in alive /\ c \in link
    /\ IF Top.whole THEN Deliver(c, Top.msg) ELSE UNCHANGED got
    /\ NextSink(TRUE)
    /\ UNCHANGED <<saved, cnxs>>

\* Mutant: the message is not saved.
BroadcastFailsUnsaved(c) ==
    /\ c \in alive /\ c \notin link
    /\ NextSink(TRUE)
    /\ set_state_dead(c)
    /\ UNCHANGED <<saved, got>>

broadcast_fails(c) ==
    /\ c \in alive /\ c \notin link
    /\ \E f \in SendFailures(c), ok \in Saves :
          /\ IF f.sent /\ Top.whole THEN Deliver(c, Top.msg) ELSE UNCHANGED got
          /\ failover_save_msg(ok, c, Top.msg, Top.whole /\ f.whole)
          /\ NextSink(ok \/ f.sent \/ (Top.whole /\ f.whole))
    /\ set_state_dead(c)

broadcast_saves(c) ==
    /\ c \notin alive
    /\ \E ok \in Saves :
          /\ failover_save_msg(ok, c, Top.msg, Top.whole)
          /\ NextSink(ok \/ Top.whole)
    /\ UNCHANGED <<got, cnxs>>

broadcast_message ==
    /\ In("broadcast")
    /\ LET c == Head(Top.and)
       IN  broadcast_sends(c) \/ broadcast_fails(c) \/ broadcast_saves(c)
    /\ UNCHANGED <<conf, firing, poll, global, sent, to, net>>

-----------------------------------------------------------------------------
(* failover_flush, and the end of set_state_alive that follows it.         *)

Unreadable(q) == q # <<>> /\ (Head(q) = Torn \/ "unread" \in Faults)

\* The end of set_state_alive: the descriptor is polled.
FD_SET(c) == fds' = fds \union ({c} \ {Nobody})

\* Mutant: the failover of the pool is not flushed.
FlushCnxEndsAll(c) ==
    /\ saved[c] = <<>> \/ Unreadable(saved[c])
    /\ Return /\ FD_SET(c)
    /\ UNCHANGED <<dead, alive, link, armed, expire, saved, got>>

\* The failover of the connection is empty, or cannot be read, which is no
\* error: on to that of the pool, if no connection of the list is dead.
flush_cnx_ends(c) ==
    /\ saved[c] = <<>> \/ Unreadable(saved[c])
    /\ IF FAILOVER /\ dead[parent(c)] = 0
          THEN Become(FlushAll(parent(c), c)) /\ UNCHANGED fds
          ELSE Return /\ FD_SET(c)
    /\ UNCHANGED <<dead, alive, link, armed, expire, saved, got>>

\* Mutant: the message is sent but stays in the failover.
FlushCnxKeeps(c) ==
    /\ saved[c] # <<>> /\ Head(saved[c]) # Torn
    /\ c \in link
    /\ Deliver(c, Head(saved[c]))
    /\ UNCHANGED <<saved, stack, cnxs>>

flush_cnx_sends(c) ==
    /\ saved[c] # <<>> /\ Head(saved[c]) # Torn
    /\ c \in link
    /\ Deliver(c, Head(saved[c]))
    /\ saved' = [saved EXCEPT ![c] = Tail(@)]
    /\ UNCHANGED <<stack, cnxs>>

\* Mutant: the timer is destroyed at the end of set_state_alive, not first.
FlushCnxFailsUnarmed(c) ==
    /\ saved[c] # <<>> /\ Head(saved[c]) # Torn
    /\ c \notin link
    /\ saved' = [saved EXCEPT ![c] = Append(Tail(@), Head(@))]
    /\ alive' = alive \ {c} /\ link' = link \ {c} /\ fds' = fds \ {c}
    /\ dead' = [dead EXCEPT ![parent(c)] = @ + 1] /\ armed' = armed \ {c}
    /\ Return
    /\ UNCHANGED <<expire, got>>

flush_cnx_fails(c) ==
    /\ saved[c] # <<>> /\ Head(saved[c]) # Torn
    /\ c \notin link
    /\ \E f \in SendFailures(c), ok \in Saves :
          /\ IF f.sent THEN Deliver(c, Head(saved[c])) ELSE UNCHANGED got
          /\ saved' = [saved EXCEPT ![c] =
                          IF ok THEN Append(Tail(@), IF f.whole THEN Head(@) ELSE Torn)
                                ELSE Tail(@)]
    /\ set_state_dead(c)
    /\ Return

failover_flush_cnx ==
    /\ In("flush_cnx")
    /\ LET c == Top.cnx
       IN  flush_cnx_ends(c) \/ flush_cnx_sends(c) \/ flush_cnx_fails(c)
    /\ UNCHANGED <<conf, firing, poll, global, sent, to, net>>

\* The last message killed a connection: set_state_alive returns the error.
flush_all_fails(l) ==
    /\ dead[l] > 0
    /\ Return
    /\ UNCHANGED <<fds, global, to>>

flush_all_ends(l) ==
    /\ dead[l] = 0 /\ (global = <<>> \/ Unreadable(global))
    /\ Return /\ FD_SET(Top.cnx)
    /\ UNCHANGED <<global, to>>

flush_all_sends(l) ==
    /\ dead[l] = 0 /\ global # <<>>
    /\ LET m == Head(global)
       IN  /\ Call(Broadcast(m, TRUE, lists[l]))
           /\ to' = [to EXCEPT ![m] = ToSet(lists[l])]
    /\ global' = Tail(global)
    /\ UNCHANGED fds

failover_flush_all ==
    /\ In("flush_all")
    /\ LET l == Top.list
       IN  flush_all_fails(l) \/ flush_all_ends(l) \/ flush_all_sends(l)
    /\ UNCHANGED <<conf, dead, alive, link, armed, expire, firing, poll, saved, sent, got, net>>

-----------------------------------------------------------------------------
(* prelude_connection_pool_broadcast.                                      *)

\* All connections of the list are dead and the next one is tried.
Skipped(l) == dead[l] = Len(lists[l]) /\ FAILOVER

walk_manager_lists(m) ==
    \/ \E l \in DOMAIN lists :
          /\ ~ Skipped(l) /\ \A k \in 1 .. l - 1 : Skipped(k)
          /\ Call(Broadcast(m, TRUE, lists[l]))
          /\ to' = [to EXCEPT ![m] = ToSet(lists[l])]
          /\ UNCHANGED global
    \/ /\ \A l \in DOMAIN lists : Skipped(l)
       /\ \E ok \in Saves : global' = IF ok THEN Append(global, m) ELSE global
       /\ UNCHANGED <<stack, to>>

prelude_connection_pool_broadcast(m) ==
    /\ Free /\ initialized
    /\ m \notin sent /\ sent' = sent \union {m}
    /\ walk_manager_lists(m)
    /\ UNCHANGED <<conf, cnxs, firing, poll, saved, got, net>>

-----------------------------------------------------------------------------
(* Reconnection.  The timer thread calls the callback without the mutex.   *)

TimerExpires(c) ==
    /\ firing = Nobody /\ c \in armed
    /\ firing' = c
    /\ UNCHANGED <<conf, cnxs, poll, store, stack, net>>

connection_timer_expire ==
    /\ Free /\ firing \in Cnx
    /\ \/ /\ prelude_connection_connect(firing)
          /\ set_state_alive(firing)
          /\ Call(FlushCnx(firing))
       \/ /\ connect_fails(firing)
          /\ expire' = [expire EXCEPT ![firing] = IF @ < MAXIMUM_EXPIRATION_TIME THEN @ * 2 ELSE @]
          /\ armed' = armed \union {firing}
          /\ UNCHANGED <<dead, fds, stack>>
    /\ firing' = Nobody
    /\ UNCHANGED <<conf, poll, store, net>>

-----------------------------------------------------------------------------
(* prelude_connection_pool_init.                                           *)

\* A changed connection string replaces the lists: the connections are
\* destroyed, but not their bits in `fds'.
pool_init ==
    IF connection_string_changed
       THEN /\ connection_string_changed' = FALSE
            /\ lists' = connection_string
            /\ dead' = [l \in DOMAIN connection_string |-> 0]
            /\ LET new == Members(connection_string)
               IN  alive' = alive \ (Pooled \union new) /\ link' = link \ (Pooled \union new)
            /\ armed' = armed \ Pooled
            /\ expire' = [c \in Cnx |-> INITIAL_EXPIRATION_TIME]
            /\ firing' = IF firing \in Pooled THEN Freed ELSE firing
            /\ Call(Connect(connection_string))
            /\ UNCHANGED <<connection_string, initialized, fds>>
       ELSE /\ IF lists = <<>> THEN UNCHANGED stack ELSE Call(Connect(lists))
            /\ UNCHANGED <<conf, cnxs, firing>>

prelude_connection_pool_init ==
    /\ Free /\ (initialized => "init" \in Calls)
    /\ IF initialized \/ (lists # <<>> /\ "profile" \in Faults) THEN Fail ELSE UNCHANGED fails
    /\ pool_init
    /\ UNCHANGED <<poll, store, up>>

init_skips(c) ==
    /\ c \in alive
    /\ Become(Connect(After(Top.rest)))
    /\ UNCHANGED cnxs

init_connects(c) ==
    /\ c \notin alive
    /\ prelude_connection_connect(c)
    /\ set_state_alive(c)
    /\ stack' = <<FlushCnx(c), Connect(After(Top.rest))>> \o Tail(stack)

init_fails(c) ==
    /\ c \notin alive /\ c \notin up
    /\ set_state_dead(c)
    /\ Become(Connect(After(Top.rest)))

\* PRELUDE_ERROR_PROFILE ends the initialization.
init_aborts(c) ==
    /\ c \notin alive /\ "profile" \in Faults
    /\ Return
    /\ UNCHANGED cnxs

init_connection ==
    /\ In("init") /\ Top.rest # <<>>
    /\ LET c == At(Top.rest)
       IN  init_skips(c) \/ init_connects(c) \/ init_fails(c) \/ init_aborts(c)
    /\ UNCHANGED <<conf, firing, poll, store, net>>

init_returns ==
    /\ In("init") /\ Top.rest = <<>>
    /\ initialized' = TRUE
    /\ Return
    /\ UNCHANGED <<lists, connection_string, connection_string_changed, cnxs, firing, poll,
                   store, net>>

-----------------------------------------------------------------------------
(* connection_pool_check_event: select runs without the mutex, on a copy   *)
(* of `fds'; the events are handled with it; the lists are replaced later. *)

PollSelect ==
    /\ poller = "out" /\ initialized
    /\ ready' \in SUBSET fds \ {{}}
    /\ poller' = "selected"
    /\ UNCHANGED <<conf, cnxs, firing, store, stack, net>>

PollLock ==
    /\ Free /\ poller = "selected"
    /\ Call(Handle(lists))
    /\ poller' = "locked"
    /\ UNCHANGED <<conf, cnxs, firing, ready, store, net>>

HasEvent(c) == c \in alive /\ c \in ready

event_skips(c) == ~ HasEvent(c) /\ UNCHANGED <<cnxs, fails>>

event_is_handled(c) == HasEvent(c) /\ c \in link /\ UNCHANGED <<cnxs, fails>>

\* The connection was closed, or what it sent is refused.
event_fails(c) ==
    /\ HasEvent(c)
    /\ IF c \in link THEN "refused" \in Faults /\ Fail ELSE UNCHANGED fails
    /\ set_state_dead(c)

\* The handler itself calls prelude_connection_pool_set_connection_dead.
event_kills(c) ==
    /\ HasEvent(c) /\ "callback" \in Faults /\ Fail
    /\ alive' = alive \ {c} /\ link' = link \ {c} /\ fds' = fds \ {c}
    /\ dead' = [dead EXCEPT ![parent(c)] = @ + 2]
    /\ armed' \in IF RECONNECT THEN Linked(c) ELSE {armed}
    /\ UNCHANGED expire

check_connection_event ==
    /\ In("poll") /\ Top.rest # <<>>
    /\ LET c == At(Top.rest)
       IN  event_skips(c) \/ event_is_handled(c) \/ event_fails(c) \/ event_kills(c)
    /\ Become(Handle(After(Top.rest)))
    /\ UNCHANGED <<conf, firing, poll, store, up>>

PollUnlock ==
    /\ In("poll") /\ Top.rest = <<>>
    /\ Return
    /\ poller' = "unlocked" /\ ready' = {}
    /\ UNCHANGED <<conf, cnxs, firing, store, net>>

PollReturn ==
    /\ poller = "unlocked" /\ poller' = "out"
    /\ \/ connection_string_changed /\ Free /\ pool_init
       \/ ~ connection_string_changed /\ UNCHANGED <<conf, cnxs, firing, stack>>
    /\ UNCHANGED <<ready, store, net>>

-----------------------------------------------------------------------------
(* The other calls of the application.                                     *)

prelude_connection_pool_set_connection_string(str) ==
    /\ "set_string" \in Calls /\ Free
    /\ connection_string' = str /\ connection_string_changed' = TRUE
    /\ UNCHANGED <<lists, initialized, cnxs, firing, poll, store, stack, net>>

prelude_connection_pool_set_connection_dead(c) ==
    /\ "set_dead" \in Calls /\ Free /\ Fail
    /\ c \in Pooled /\ c \in alive
    /\ set_state_dead(c) /\ alive' = alive \ {c}
    /\ UNCHANGED <<conf, firing, poll, store, stack, up>>

\* A mechanism of the application connects.
UserConnects(c) ==
    /\ Calls \intersect {"set_alive", "add"} # {} /\ Free
    /\ c \notin alive /\ Fail
    /\ prelude_connection_connect(c)
    /\ UNCHANGED <<conf, dead, fds, armed, expire, firing, poll, store, stack, up>>

prelude_connection_pool_set_connection_alive(c) ==
    /\ "set_alive" \in Calls /\ Free
    /\ c \in Pooled /\ dead[parent(c)] > 0
    /\ set_state_alive(c)
    /\ Call(FlushCnx(c))
    /\ UNCHANGED <<conf, alive, link, firing, poll, store, net>>

prelude_connection_pool_add_connection(c) ==
    /\ "add" \in Calls /\ Free
    /\ c \notin Pooled
    /\ IF lists = <<>> THEN lists' = <<<<c>>>> /\ dead' = <<0>>
                       ELSE lists' = [lists EXCEPT ![1] = Append(@, c)] /\ UNCHANGED dead
    /\ expire' = [expire EXCEPT ![c] = INITIAL_EXPIRATION_TIME]
    /\ Call(Add(c))
    /\ UNCHANGED <<connection_string, connection_string_changed, initialized,
                   alive, link, fds, armed, firing, poll, store, net>>

add_connection_connects ==
    /\ In("add")
    /\ LET c == Top.cnx
       IN  \/ /\ initialized /\ c \notin alive
              /\ prelude_connection_connect(c)
              /\ set_state_alive(c)
              /\ stack' = <<FlushCnx(c), Added(1)>> \o Tail(stack)
           \/ /\ initialized /\ c \notin alive
              /\ c \notin up \/ "profile" \in Faults
              /\ set_state_dead(c)
              /\ Become(Added(1))
           \/ /\ ~ initialized \/ c \in alive
              /\ Become(Added(1))
              /\ UNCHANGED cnxs
    /\ UNCHANGED <<conf, firing, poll, store, net>>

add_connection_flushes ==
    /\ In("added")
    /\ IF dead[Top.list] = 0 /\ FAILOVER /\ initialized
          THEN Become(FlushAll(Top.list, Nobody)) ELSE Return
    /\ UNCHANGED <<conf, cnxs, firing, poll, store, net>>

-----------------------------------------------------------------------------
(* The network: connections break, managers stop and start again.          *)

LinkBreaks(c) ==
    /\ Fail
    /\ c \in link \union up
    /\ link' = link \ {c} /\ up' \in {up, up \ {c}}
    /\ UNCHANGED <<conf, dead, alive, fds, armed, expire, firing, poll, store, stack>>

ManagerStarts(c) ==
    /\ c \notin up /\ up' = up \union {c}
    /\ UNCHANGED <<conf, cnxs, firing, poll, store, stack, fails>>

-----------------------------------------------------------------------------

Held ==   \* steps of the thread that holds the mutex
    \/ broadcast_message \/ failover_flush_cnx \/ failover_flush_all
    \/ init_connection \/ init_returns
    \/ check_connection_event \/ PollUnlock
    \/ add_connection_connects \/ add_connection_flushes

Timers == connection_timer_expire \/ \E c \in Cnx : TimerExpires(c)

Poller == PollSelect \/ PollLock \/ PollReturn

Application ==
    \/ prelude_connection_pool_init
    \/ \E m \in Msg : prelude_connection_pool_broadcast(m)
    \/ \E str \in Strings : prelude_connection_pool_set_connection_string(str)
    \/ \E c \in Cnx : \/ prelude_connection_pool_set_connection_dead(c)
                      \/ prelude_connection_pool_set_connection_alive(c)
                      \/ prelude_connection_pool_add_connection(c)
                      \/ UserConnects(c)

Network == \E c \in Cnx : LinkBreaks(c) \/ ManagerStarts(c)

Next == Held \/ Timers \/ Poller \/ Application \/ Network

Spec == Init /\ [][Next]_vars

\* The threads run and get the mutex, timers are called when they expire (the
\* list of timers is walked in their order), and managers come back.
Fairness ==
    /\ WF_vars(Held) /\ SF_vars(connection_timer_expire)
    /\ \A c \in Cnx : SF_vars(TimerExpires(c)) /\ WF_vars(ManagerStarts(c))

FairSpec == Spec /\ Fairness

-----------------------------------------------------------------------------
(* Properties.                                                             *)

Frames ==
    [fn : {"broadcast"}, msg : Msg, whole : BOOLEAN, and : Seq(Cnx) \ {<<>>}]
    \union [fn : {"flush_cnx", "add"}, cnx : Cnx]
    \union [fn : {"flush_all"}, list : Nat, cnx : Cnx \union {Nobody}]
    \union [fn : {"init", "poll"}, rest : Seq(Seq(Cnx) \ {<<>>})]
    \union [fn : {"added"}, list : Nat]

\* The type of the pool's fields and of the frames of the lock holder; every
\* list has its counter and is not empty.
TypeOK ==
    /\ lists \in Seq(Seq(Cnx) \ {<<>>}) /\ dead \in Seq(Nat) /\ Len(dead) = Len(lists)
    /\ connection_string \in Strings /\ connection_string_changed \in BOOLEAN
    /\ initialized \in BOOLEAN
    /\ alive \subseteq Cnx /\ link \subseteq Cnx /\ fds \subseteq Cnx /\ armed \subseteq Cnx
    /\ expire \in [Cnx -> Nat] /\ firing \in Cnx \union {Nobody, Freed}
    /\ poller \in {"out", "selected", "locked", "unlocked"} /\ ready \subseteq Cnx
    /\ saved \in [Cnx -> Seq(Msg \union {Torn})] /\ global \in Seq(Msg)
    /\ stack \in Seq(Frames)
    /\ up \subseteq Cnx /\ fails \in Nat
    /\ sent \subseteq Msg /\ to \in [Msg -> SUBSET Cnx] /\ got \in [Cnx -> [Msg -> Nat]]

\* The message is still to be sent to the connection by the broadcast that runs.
InFlight(m, c) ==
    \E i \in DOMAIN stack : /\ stack[i].fn = "broadcast" /\ stack[i].msg = m
                            /\ stack[i].whole /\ c \in ToSet(stack[i].and)

\* A message that was broadcast is never lost, whichever connections die while
\* it is sent, saved, flushed or saved again: the failover of the pool has it
\* or, for each connection of the list it was addressed to, the manager got it,
\* the failover of the connection has it, or it is about to be sent.
NothingLost ==
    FAILOVER =>
    \A m \in sent :
        \/ m \in ToSet(global)
        \/ /\ to[m] # {}
           /\ \A c \in to[m] : got[c][m] > 0 \/ m \in ToSet(saved[c]) \/ InFlight(m, c)

Copies(q, m) == Cardinality({i \in DOMAIN q : q[i] = m})

\* No message is sent twice to a manager, nor kept after it was sent or kept in
\* two failovers at once: what is flushed leaves the failover it comes from.
NothingTwice ==
    \A m \in Msg, c \in Cnx :
        got[c][m] + Copies(saved[c], m) + Copies(global, m)
            + (IF InFlight(m, c) THEN 1 ELSE 0) <= 1

\* The counter of a list never exceeds the number of its connections that are
\* down.  Were it too high, it would never be 0 again, and the failover of the
\* pool would never be flushed.
NeverOvercounts ==
    \A l \in DOMAIN lists : dead[l] <= Cardinality(ToSet(lists[l]) \ alive)

\* Once the mutex is released, a connection that is down has its timer in the
\* list of timers: no order of failures leaves one that nobody retries.
Retried ==
    (Free /\ initialized /\ RECONNECT) => (Pooled \ alive) \subseteq armed

\* Once the mutex is released, the failover of the pool is empty or every list
\* lacks a connection: no message waits while it could be sent.
FlushedWhenUp ==
    (Free /\ global # <<>>) => \A l \in DOMAIN lists : dead[l] > 0

\* The pool reconnects and flushes: once managers stay up, each message gets to
\* every connection of the list it was addressed to.
Flushed ==
    \A m \in Msg : (m \in sent) ~> (to[m] # {} /\ \A c \in to[m] : got[c][m] > 0)
=============================================================================
