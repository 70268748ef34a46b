-------------------------------- MODULE Timer --------------------------------
(***************************************************************************)
(* The timers of src/prelude-timer.c: a list sorted by expiration time,    *)
(* into which any thread inserts and from which any thread removes under   *)
(* a mutex, and prelude_timer_wake_up, which looks at the head of the list *)
(* under the mutex but examines it, marks it, runs its callback and stores *)
(* next_wakeup without it.                                                 *)
(*                                                                         *)
(* One thread wakes timers up (the asynchronous thread, or the application *)
(* itself).  Unless `concurrent', the same thread makes all the other       *)
(* calls too, so that they happen between two wake-ups or in a callback.   *)
(***************************************************************************)
EXTENDS Integers, Sequences

CONSTANTS
    Timers,      \* the timers
    Expire,      \* Expire[t]: timer->expire, in seconds
    Programs,    \* programs of one thread (FALSE), or of several (TRUE)
    Calls,       \* calls the application makes: subset of CallKinds
    Epoch,       \* the time at which the program starts
    MaxTime      \* bound on the time

CallKinds == {"init", "reset", "destroy", "flush", "critical",
              "leave"}   \* a callback returns without resetting or destroying its timer

ASSUME ExpireAssumption     == Expire \in [Timers -> Nat \ {0}]
ASSUME ProgramsAssumption   == Programs \subseteq BOOLEAN
ASSUME CallsAssumption      == Calls \subseteq CallKinds
\* The clock is far from 1970: a start_time of -1 is before any other.
ASSUME EpochAssumption      == /\ Epoch \in Nat /\ MaxTime \in Nat
                               /\ \A t \in Timers : Expire[t] <= Epoch

VARIABLES
    list,        \* timer_list
    start,       \* start_time of every timer
    next_wakeup, last_wakeup,
    now,         \* time(NULL)
    critical,    \* prelude_timer_lock_critical_region holds the mutex
    pc,          \* where the thread that wakes timers up is
    at,          \* `now' of walk_and_wake_up_timer
    timer,       \* `timer' of walk_and_wake_up_timer
    concurrent   \* other threads use timers while one wakes them up

vars == <<list, start, next_wakeup, last_wakeup, now, critical, pc, at, timer, concurrent>>

walk == <<pc, at, timer>>

NoTimer == "none"

Listed == {list[i] : i \in DOMAIN list}

-----------------------------------------------------------------------------
(* The list. *)

\* start_time + expire.  While its callback runs, start_time is -1.
Key(t) == start[t] + Expire[t]

\* time_elapsed, time_remaining at time s, when start_time is f[t].
TimeElapsed(f, t, s) == s - f[t]

time_remaining(f, t, s) == Expire[t] - TimeElapsed(f, t, s)

\* The search functions return a position, 0 being the list head itself, or
\* Abort where the code calls abort() or assert(prev) fails.  k[i] is the time
\* at which the i-th timer expires, when the search looks at it.
Abort == -1

\* Mutant: the timer that ends the search is returned, not the one before it.
ForwardNotPrevious(k, e) ==
    IF \A i \in DOMAIN k : k[i] < e THEN Abort
    ELSE CHOOSE i \in DOMAIN k : k[i] >= e /\ \A j \in 1 .. i - 1 : k[j] < e

\* The first timer that does not expire before e ends the search.
search_previous_forward(k, e) ==
    IF \A i \in DOMAIN k : k[i] < e THEN Abort
    ELSE LET i == CHOOSE i \in DOMAIN k : k[i] >= e /\ \A j \in 1 .. i - 1 : k[j] < e
         IN  IF k[i] = e THEN i ELSE IF i = 1 THEN Abort ELSE i - 1

\* The last timer that expires no later than e.
search_previous_backward(k, e) ==
    IF \A i \in DOMAIN k : k[i] > e THEN Abort
    ELSE CHOOSE i \in DOMAIN k : k[i] <= e /\ \A j \in i + 1 .. Len(k) : k[j] > e

\* A search looks at start_time once for each end of the list, twice if the
\* timer belongs between them, for the time it is looking for, and for each
\* timer on its way.
Looks(l) == Len(l) + 5

\* Mutant: whether the timer belongs at either end is not looked at first.
SearchNoEnds(l, t, seen) ==
    search_previous_backward([i \in 1 .. Len(l) |-> seen[1][l[i]] + Expire[l[i]]],
                             Expire[t] + seen[1][t])

\* Where to insert t into the list l, which is not empty.  The n-th look finds
\* the start_time seen[n][u] in timer u.
search_previous_timer(l, t, seen) ==
    LET Remaining(n, u) == time_remaining(seen[n], u, seen[n][t])
        Hop(n, i)       == seen[n][l[i]] + Expire[l[i]]
        last            == l[Len(l)]
        first           == l[1]
    IN  IF Expire[t] >= Remaining(1, last) THEN Len(l)
        ELSE IF Expire[t] <= Remaining(2, first) THEN 0
        ELSE IF Remaining(3, last) - Expire[t] > Expire[t] - Remaining(4, first)
             THEN search_previous_forward([i \in 1 .. Len(l) |-> Hop(5 + i, i)],
                                          Expire[t] + seen[5][t])
             ELSE search_previous_backward([i \in 1 .. Len(l) |-> Hop(6 + Len(l) - i, i)],
                                           Expire[t] + seen[5][t])

\* The position after which timer_init_unlocked puts t.
Previous(l, t, seen) == IF l = <<>> THEN 0 ELSE search_previous_timer(l, t, seen)

InsertAfter(l, p, t) ==
    [i \in 1 .. Len(l) + 1 |-> IF i <= p THEN l[i] ELSE IF i = p + 1 THEN t ELSE l[i - 1]]

RemoveFrom(l, p) ==
    [i \in 1 .. Len(l) - 1 |-> IF i < p THEN l[i] ELSE l[i + 1]]

\* timer_destroy_unlocked: del_init if the timer is listed.
Without(l, t) ==
    IF \E i \in DOMAIN l : l[i] = t
    THEN RemoveFrom(l, CHOOSE i \in DOMAIN l : l[i] = t)
    ELSE l

-----------------------------------------------------------------------------

Init ==
    /\ list = <<>> /\ start = [t \in Timers |-> Epoch]
    /\ next_wakeup = 0 /\ last_wakeup = 0
    /\ now = Epoch /\ critical = FALSE
    /\ pc = "idle" /\ at = 0 /\ timer = NoTimer
    /\ concurrent \in Programs

\* Time passes.
Tick ==
    /\ now < MaxTime
    /\ now' = now + 1
    /\ UNCHANGED <<concurrent, list, start, next_wakeup, last_wakeup, critical, walk>>

Min(a, b) == IF a < b THEN a ELSE b

\* start_time as a search for the place of t sees it: t starts now, and either
\* nobody writes start_time meanwhile, or the thread that wakes timers up marks
\* its timer, without the mutex, after the first n looks.
Started(t)         == [start EXCEPT ![t] = now]
Still(l, t)        == [k \in 1 .. Looks(l) |-> Started(t)]
MarkedAfter(n, l, t) ==
    [k \in 1 .. Looks(l) |-> IF k <= n THEN Started(t) ELSE [Started(t) EXCEPT ![timer] = -1]]

\* Mutant: next_wakeup is not lowered.
TimerInitNoWakeup(l, t, seen) ==
    /\ start' = seen[Looks(l)]
    /\ list' = InsertAfter(l, Previous(l, t, seen), t)
    /\ UNCHANGED next_wakeup

\* Insert t into l, which does not hold it.
timer_init_unlocked(l, t, seen) ==
    /\ start' = seen[Looks(l)]
    /\ list' = InsertAfter(l, Previous(l, t, seen), t)
    /\ next_wakeup' = Min(next_wakeup, Expire[t])

\* The process is gone, and with it all that its threads would do.
Gone == {"aborted", "raced"}

aborts(label) == pc' = label /\ UNCHANGED <<list, start, next_wakeup>>

-----------------------------------------------------------------------------
(* The calls of the application, between wake-ups, in a callback or, if    *)
(* the program is concurrent, at any time.                                 *)

MayCall(c) ==
    /\ c \in Calls
    /\ ~ critical
    /\ concurrent \/ pc \in {"idle", "callback"}
    /\ pc \notin Gone

\* A timer is initialized when it is not listed.
prelude_timer_init(t) ==
    /\ MayCall("init")
    /\ t \notin Listed
    /\ IF Previous(list, t, Still(list, t)) = Abort THEN aborts("aborted")
       ELSE timer_init_unlocked(list, t, Still(list, t)) /\ UNCHANGED pc
    /\ UNCHANGED <<concurrent, last_wakeup, now, critical, at, timer>>

\* Mutant: the timer is not removed first.
ResetTwice(t) ==
    /\ MayCall("reset")
    /\ IF Previous(list, t, Still(list, t)) = Abort THEN aborts("aborted")
       ELSE timer_init_unlocked(list, t, Still(list, t)) /\ UNCHANGED pc
    /\ UNCHANGED <<concurrent, last_wakeup, now, critical, at, timer>>

prelude_timer_reset(t) ==
    LET l == Without(list, t)
    IN  /\ MayCall("reset")
        /\ IF Previous(l, t, Still(l, t)) = Abort THEN aborts("aborted")
           ELSE timer_init_unlocked(l, t, Still(l, t)) /\ UNCHANGED pc
        /\ UNCHANGED <<concurrent, last_wakeup, now, critical, at, timer>>

\* One of these two, while the thread that wakes timers up marks its timer in
\* the middle of the search, which takes the mutex in vain.
WakeUpDuringSearch(t) ==
    LET l == Without(list, t)
    IN  /\ concurrent /\ pc = "expired" /\ ~ critical
        /\ "reset" \in Calls \/ ("init" \in Calls /\ t \notin Listed)
        /\ \E n \in 0 .. Looks(l) - 1 :
              IF Previous(l, t, MarkedAfter(n, l, t)) = Abort THEN aborts("raced")
              ELSE timer_init_unlocked(l, t, MarkedAfter(n, l, t)) /\ pc' = "callback"
        /\ UNCHANGED <<concurrent, last_wakeup, now, critical, at, timer>>

prelude_timer_destroy(t) ==
    /\ MayCall("destroy")
    /\ list' = Without(list, t)
    /\ UNCHANGED <<concurrent, start, next_wakeup, last_wakeup, now, critical, walk>>

\* prelude_timer_flush walks the list with a time of -1.
prelude_timer_flush ==
    /\ "flush" \in Calls /\ pc = "idle"
    /\ pc' = "walk" /\ at' = -1
    /\ UNCHANGED <<concurrent, list, start, next_wakeup, last_wakeup, now, critical, timer>>

prelude_timer_lock_critical_region ==
    /\ MayCall("critical")
    /\ critical' = TRUE
    /\ UNCHANGED <<concurrent, list, start, next_wakeup, last_wakeup, now, walk>>

prelude_timer_unlock_critical_region ==
    /\ critical
    /\ critical' = FALSE
    /\ UNCHANGED <<concurrent, list, start, next_wakeup, last_wakeup, now, walk>>

-----------------------------------------------------------------------------
(* Waking timers up. *)

\* prelude_timer_wake_up does nothing before next_wakeup seconds have passed.
prelude_timer_wake_up ==
    /\ pc = "idle"
    /\ now - last_wakeup >= next_wakeup
    /\ pc' = "walk" /\ at' = now
    /\ UNCHANGED <<concurrent, list, start, next_wakeup, last_wakeup, now, critical, timer>>

\* Mutant: the last timer is read.
GetLastTimer ==
    /\ pc = "walk" /\ ~ critical
    /\ \/ list = <<>> /\ pc' = "done" /\ UNCHANGED timer
       \/ list # <<>> /\ pc' = "check" /\ timer' = list[Len(list)]
    /\ UNCHANGED <<concurrent, list, start, next_wakeup, last_wakeup, now, critical, at>>

\* The head of the list is read under the mutex; the walk ends when there is
\* none.
get_next_timer ==
    /\ pc = "walk" /\ ~ critical
    /\ \/ list = <<>> /\ pc' = "done" /\ UNCHANGED timer
       \/ list # <<>> /\ pc' = "check" /\ timer' = list[1]
    /\ UNCHANGED <<concurrent, list, start, next_wakeup, last_wakeup, now, critical, at>>

Expired == at = -1 \/ TimeElapsed(start, timer, at) >= Expire[timer]

\* wake_up_if_needed finds that the timer expired, having asserted that its
\* callback does not run ...
IsExpired ==
    /\ pc = "check" /\ Expired
    /\ pc' = IF start[timer] = -1 THEN "aborted" ELSE "expired"
    /\ UNCHANGED <<concurrent, list, start, next_wakeup, last_wakeup, now, critical, at, timer>>

\* ... marks it and starts its callback.
WakeUp ==
    /\ pc = "expired"
    /\ start' = [start EXCEPT ![timer] = -1]
    /\ pc' = "callback"
    /\ UNCHANGED <<concurrent, list, next_wakeup, last_wakeup, now, critical, at, timer>>

\* Mutant: the delay of the timer is stored instead of the time that remains.
NotYetElapsed ==
    /\ pc = "check" /\ ~ Expired
    /\ next_wakeup' = Expire[timer]
    /\ pc' = "done"
    /\ UNCHANGED <<concurrent, list, start, last_wakeup, now, critical, at, timer>>

\* When it has not expired the walk ends, and next_wakeup is stored.
NotYet ==
    /\ pc = "check" /\ ~ Expired
    /\ next_wakeup' = time_remaining(start, timer, at)
    /\ pc' = "done"
    /\ UNCHANGED <<concurrent, list, start, last_wakeup, now, critical, at, timer>>

\* A callback has destroyed or reset its timer when it returns ("All expired
\* timer should be destroyed"), or its timer was destroyed meanwhile, like the
\* heartbeat's when the client exits; one that leaves it to the walk is met
\* again.
CallbackReturns ==
    /\ pc = "callback"
    /\ timer \notin Listed \/ start[timer] # -1 \/ "leave" \in Calls
    /\ pc' = "walk"
    /\ UNCHANGED <<concurrent, list, start, next_wakeup, last_wakeup, now, critical, at, timer>>

\* The walk is over: prelude_timer_wake_up stores last_wakeup, a flush does not.
Done ==
    /\ pc = "done"
    /\ pc' = "idle" /\ at' = 0 /\ timer' = NoTimer
    /\ last_wakeup' = IF at = -1 THEN last_wakeup ELSE at
    /\ UNCHANGED <<concurrent, list, start, next_wakeup, now, critical>>

Application ==
    \/ \E t \in Timers : \/ prelude_timer_init(t) \/ prelude_timer_reset(t)
                         \/ prelude_timer_destroy(t) \/ WakeUpDuringSearch(t)
    \/ prelude_timer_lock_critical_region
    \/ prelude_timer_unlock_critical_region

Walk == get_next_timer \/ IsExpired \/ WakeUp \/ NotYet \/ CallbackReturns \/ Done

Next == Tick \/ Application \/ prelude_timer_flush \/ prelude_timer_wake_up \/ Walk

Spec == Init /\ [][Next]_vars

\* The callback resets or destroys its timer.
CallbackActs ==
    /\ pc = "callback"
    /\ prelude_timer_reset(timer) \/ prelude_timer_destroy(timer)

\* The thread that wakes timers up is called again and again, callbacks end,
\* having reset or destroyed their timer, critical regions end, and time passes.
FairSpec ==
    /\ Spec
    /\ WF_vars(Tick)
    /\ WF_vars(prelude_timer_wake_up)
    /\ WF_vars(Walk)
    /\ WF_vars(prelude_timer_unlock_critical_region)
    /\ SF_vars(CallbackActs)

-----------------------------------------------------------------------------
(* Properties. *)

\* Type invariant.  A timer is listed at most once.
TypeOK ==
    /\ list \in Seq(Timers)
    /\ \A i, j \in DOMAIN list : list[i] = list[j] => i = j
    /\ start \in [Timers -> Nat \union {-1}]
    /\ next_wakeup \in Nat /\ last_wakeup \in Nat /\ now \in Nat
    /\ critical \in BOOLEAN /\ concurrent \in BOOLEAN
    /\ pc \in {"idle", "walk", "check", "expired", "callback", "done"} \union Gone
    /\ at \in Nat \union {-1}
    /\ timer \in Timers \union {NoTimer}

\* In a program of one thread the list is sorted by expiration time whatever is
\* inserted, reset and destroyed, even around a timer whose callback runs (its
\* start_time is -1).  The walk relies on it: it stops at the first timer that
\* has not expired.
Sorted ==
    ~ concurrent => \A i, j \in DOMAIN list : i < j => Key(list[i]) <= Key(list[j])

\* The process does not abort: neither search function runs off the list ("this
\* should never happen, as search_previous_timer verify if timer should be
\* inserted last"), although marks may have left it unsorted, and
\* wake_up_if_needed never meets a timer whose callback already ran.  This is so
\* but for a mark that another thread makes in the middle of the search ("raced").
NeverAborts == pc # "aborted"

\* In a program of one thread, between two wake-ups no listed timer expires
\* before the time at which the next walk may start: prelude_timer_wake_up
\* returns the "Number of second in which prelude_timer_wake_up() should be
\* called again".
WakesInTime ==
    ~ concurrent /\ pc = "idle" => \A t \in Listed : last_wakeup + next_wakeup <= Key(t)

\* In a program of one thread callbacks start in the order of expiration: no
\* listed timer should have been woken up before this one, which is still
\* listed itself.
InOrder ==
    [][WakeUp /\ ~ concurrent => /\ timer \in Listed
                                 /\ \A t \in Listed : Key(timer) <= Key(t)]_vars

Overdue(t) == t \in Listed /\ Key(t) <= now

\* In a program of one thread no timer stays overdue for ever, not even in a
\* flush: it is woken up, reset or destroyed.
Fires == \A t \in Timers : (Overdue(t) /\ ~ concurrent) ~> ~ Overdue(t)
=============================================================================
