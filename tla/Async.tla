-------------------------------- MODULE Async --------------------------------
(***************************************************************************)
(* The asynchronous thread of src/prelude-async.c: it takes jobs from a    *)
(* list and runs them and, while PRELUDE_ASYNC_FLAGS_TIMER is set, wakes   *)
(* timers up every second.  Every section of the code that holds the mutex *)
(* is one step; the condition variable is the control state of the thread, *)
(* which a signal moves out of its wait.                                   *)
(***************************************************************************)
EXTENDS Integers, SequencesExt

CONSTANTS
    Jobs,       \* prelude_async_object_t: each is added at most once
    Calls,      \* calls the application makes: subset of CallKinds
    MaxForks    \* bound on the number of forks

CallKinds == {"add", "del", "set_flags", "exit", "fork"}

ASSUME CallsAssumption == Calls \subseteq CallKinds
ASSUME ForksAssumption == MaxForks \in Nat

NoJob == "none"

ASSUME JobsAssumption == NoJob \notin Jobs

VARIABLES
    joblist,
    async_flags,      \* PRELUDE_ASYNC_FLAGS_TIMER is set
    stop_processing,
    is_initialized,
    thread,           \* where the thread is
    flags,            \* its `nflags'
    expired,          \* timespec_expired: a second has passed since last_wakeup
    obj,              \* the job it runs
    caller,           \* prelude_async_exit: "none", "joining", "returned"
    added,            \* history: jobs that were added, in order
    deleted,          \* history: jobs that were deleted
    promised,         \* history: jobs that were listed when exit was called
    executed,         \* history: jobs whose function was called, in order
    forks             \* history: number of forks

shared == <<joblist, async_flags, stop_processing, is_initialized>>
local  == <<thread, flags, expired, obj>>
hist   == <<added, deleted, promised, executed, forks>>
vars   == <<shared, local, caller, hist>>

Init ==
    /\ joblist = <<>> /\ async_flags = FALSE
    /\ stop_processing = FALSE /\ is_initialized = FALSE
    /\ thread = "none" /\ flags = FALSE /\ expired = FALSE /\ obj = NoJob
    /\ caller = "none"
    /\ added = <<>> /\ deleted = {} /\ promised = {} /\ executed = <<>> /\ forks = 0

\* gl_cond_signal: a thread that waits looks at its condition again.
Signal == thread' = CASE thread = "cond_wait"      -> "wait_data"
                      [] thread = "cond_timedwait" -> "wait_timer_and_data"
                      [] OTHER                     -> thread

-----------------------------------------------------------------------------
(* The calls of the application.  After prelude_async_exit has returned,   *)
(* the mutex is destroyed and only a forked child may go on.               *)

MayCall(c) == c \in Calls /\ caller # "returned"

prelude_async_init ==
    /\ ~ is_initialized /\ caller = "none"
    /\ is_initialized' = TRUE /\ stop_processing' = FALSE
    /\ thread' = "created"
    /\ UNCHANGED <<joblist, async_flags, flags, expired, obj, caller, hist>>

prelude_async_set_flags(f) ==
    /\ MayCall("set_flags")
    /\ async_flags' = f
    /\ Signal
    /\ UNCHANGED <<joblist, stop_processing, is_initialized, flags, expired, obj, caller, hist>>

\* Mutant: the thread is not signalled.
AddUnsignalled(j) ==
    /\ MayCall("add")
    /\ j \notin ToSet(added)
    /\ joblist' = Append(joblist, j) /\ added' = Append(added, j)
    /\ UNCHANGED <<async_flags, stop_processing, is_initialized, local, caller,
                   deleted, promised, executed, forks>>

\* Mutant: the job is added at the head of the list.
AddHead(j) ==
    /\ MayCall("add")
    /\ j \notin ToSet(added)
    /\ joblist' = <<j>> \o joblist /\ added' = Append(added, j)
    /\ Signal
    /\ UNCHANGED <<async_flags, stop_processing, is_initialized, flags, expired, obj,
                   caller, deleted, promised, executed, forks>>

prelude_async_add(j) ==
    /\ MayCall("add")
    /\ j \notin ToSet(added)
    /\ joblist' = Append(joblist, j) /\ added' = Append(added, j)
    /\ Signal
    /\ UNCHANGED <<async_flags, stop_processing, is_initialized, flags, expired, obj,
                   caller, deleted, promised, executed, forks>>

\* Only a listed job may be deleted: it is unlinked.
prelude_async_del(j) ==
    /\ MayCall("del")
    /\ \E i \in DOMAIN joblist : joblist[i] = j /\ joblist' = RemoveAt(joblist, i)
    /\ deleted' = deleted \union {j} /\ promised' = promised \ {j}
    /\ UNCHANGED <<async_flags, stop_processing, is_initialized, local, caller,
                   added, executed, forks>>

\* Mutant: the thread is not signalled.
ExitUnsignalled ==
    /\ "exit" \in Calls /\ caller = "none" /\ is_initialized
    /\ stop_processing' = TRUE
    /\ caller' = "joining"
    /\ promised' = (ToSet(joblist) \union {obj}) \ {NoJob}
    /\ UNCHANGED <<joblist, async_flags, is_initialized, local, added, deleted, executed, forks>>

\* prelude_async_exit up to gl_thread_join.
prelude_async_exit ==
    /\ "exit" \in Calls /\ caller = "none" /\ is_initialized
    /\ stop_processing' = TRUE
    /\ Signal
    /\ caller' = "joining"
    /\ promised' = (ToSet(joblist) \union {obj}) \ {NoJob}
    /\ UNCHANGED <<joblist, async_flags, is_initialized, flags, expired, obj,
                   added, deleted, executed, forks>>

\* The thread has ended: gl_thread_join returns.
Joined ==
    /\ caller = "joining" /\ thread = "ended"
    /\ caller' = "returned" /\ is_initialized' = FALSE
    /\ UNCHANGED <<joblist, async_flags, stop_processing, local, hist>>

\* The process goes on as the child of a fork, in which there is no thread;
\* the parent runs the jobs that were listed.  The mutex was held
\* (_prelude_async_fork_prepare) and is initialized again.  This is what
\* prelude_fork_child does in builds without HAVE_PTHREAD_ATFORK; with it, it
\* does nothing.
_prelude_async_fork_child ==
    /\ "fork" \in Calls /\ forks < MaxForks
    /\ is_initialized' = FALSE /\ joblist' = <<>>
    /\ thread' = "none" /\ obj' = NoJob /\ caller' = "none"
    /\ added' = <<>> /\ deleted' = {} /\ promised' = {} /\ executed' = <<>>
    /\ forks' = forks + 1
    /\ UNCHANGED <<async_flags, stop_processing, flags, expired>>

-----------------------------------------------------------------------------
(* The thread. *)

async_thread ==
    /\ thread = "created"
    /\ flags' = async_flags
    /\ thread' = "loop"
    /\ UNCHANGED <<shared, expired, obj, caller, hist>>

\* The head of the loop.  wait_timer_and_data starts with a last_wakeup one
\* second ago.
Loop ==
    /\ thread = "loop"
    /\ IF flags THEN thread' = "wait_timer_and_data" /\ expired' = TRUE
                ELSE thread' = "wait_data" /\ UNCHANGED expired
    /\ UNCHANGED <<shared, flags, obj, caller, hist>>

\* What both loops wait for.
Nothing == joblist = <<>> /\ ~ stop_processing /\ async_flags = flags

\* Mutant: the thread ends although jobs are left.
WaitDataStops ==
    /\ thread = "wait_data"
    /\ \/ Nothing /\ thread' = "cond_wait" /\ UNCHANGED flags
       \/ stop_processing /\ thread' = "ended" /\ UNCHANGED flags
       \/ ~ Nothing /\ ~ stop_processing /\ thread' = "jobs" /\ flags' = async_flags
    /\ UNCHANGED <<shared, expired, obj, caller, hist>>

wait_data ==
    /\ thread = "wait_data"
    /\ \/ Nothing /\ thread' = "cond_wait" /\ UNCHANGED flags
       \/ /\ joblist = <<>> /\ stop_processing
          /\ thread' = "ended" /\ UNCHANGED flags
       \/ /\ ~ Nothing /\ ~ (joblist = <<>> /\ stop_processing)
          /\ thread' = "jobs" /\ flags' = async_flags
    /\ UNCHANGED <<shared, expired, obj, caller, hist>>

\* A second has passed since last_wakeup.
Second ==
    /\ thread \in {"wait_timer_and_data", "cond_timedwait"} /\ ~ expired
    /\ expired' = TRUE
    /\ UNCHANGED <<shared, thread, flags, obj, caller, hist>>

\* After the inner loop: the thread ends, wakes timers up if a second has
\* passed, goes back to wait if there is no job, or has a job to run.
Leave ==
    \/ /\ joblist = <<>> /\ stop_processing
       /\ thread' = "ended" /\ UNCHANGED flags
    \/ /\ ~ (joblist = <<>> /\ stop_processing)
       /\ flags' = async_flags
       /\ thread' = IF expired
                    THEN IF joblist = <<>> THEN "wake_up" ELSE "wake_up_job"
                    ELSE IF joblist = <<>> THEN "wait_timer_and_data" ELSE "jobs"

wait_timer_and_data ==
    /\ thread = "wait_timer_and_data"
    /\ \/ Nothing /\ thread' = "cond_timedwait" /\ UNCHANGED flags
       \/ ~ Nothing /\ Leave
    /\ UNCHANGED <<shared, expired, obj, caller, hist>>

\* Mutant: the time-out is not looked at.
TimeoutWaits ==
    /\ thread = "cond_timedwait" /\ expired
    /\ thread' = "wait_timer_and_data"
    /\ UNCHANGED <<shared, flags, expired, obj, caller, hist>>

\* glthread_cond_timedwait returns ETIMEDOUT.
Timeout ==
    /\ thread = "cond_timedwait" /\ expired
    /\ Leave
    /\ UNCHANGED <<shared, expired, obj, caller, hist>>

\* Either wait may end without a signal.
Spurious ==
    /\ thread \in {"cond_wait", "cond_timedwait"}
    /\ Signal
    /\ UNCHANGED <<shared, flags, expired, obj, caller, hist>>

\* prelude_timer_wake_up.  Its callbacks may add jobs, as any thread may.
WakeUpTimers ==
    /\ thread \in {"wake_up", "wake_up_job"}
    /\ thread' = IF thread = "wake_up" THEN "wait_timer_and_data" ELSE "jobs"
    /\ expired' = FALSE
    /\ UNCHANGED <<shared, flags, obj, caller, hist>>

\* Mutant: the end of the list is not looked for.
GetNextJobNull ==
    /\ thread = "jobs"
    /\ thread' = "run"
    /\ IF joblist = <<>>
       THEN UNCHANGED <<joblist, obj>>
       ELSE obj' = Head(joblist) /\ joblist' = Tail(joblist)
    /\ UNCHANGED <<async_flags, stop_processing, is_initialized, flags, expired, caller, hist>>

get_next_job ==
    /\ thread = "jobs"
    /\ \/ /\ joblist = <<>>
          /\ thread' = "loop" /\ UNCHANGED <<joblist, obj>>
       \/ /\ joblist # <<>>
          /\ obj' = Head(joblist) /\ joblist' = Tail(joblist)
          /\ thread' = "run"
    /\ UNCHANGED <<async_flags, stop_processing, is_initialized, flags, expired, caller, hist>>

\* obj->_async_func returns.
JobDone ==
    /\ thread = "run"
    /\ executed' = Append(executed, obj)
    /\ obj' = NoJob
    /\ thread' = "jobs"
    /\ UNCHANGED <<shared, flags, expired, caller, added, deleted, promised, forks>>

Thread ==
    \/ async_thread \/ Loop \/ wait_data \/ wait_timer_and_data \/ Timeout
    \/ WakeUpTimers \/ get_next_job \/ JobDone

Application ==
    \/ prelude_async_init \/ prelude_async_exit \/ Joined \/ _prelude_async_fork_child
    \/ \E f \in BOOLEAN : prelude_async_set_flags(f)
    \/ \E j \in Jobs : prelude_async_add(j) \/ prelude_async_del(j)

Next == Application \/ Thread \/ Second \/ Spurious

Spec == Init /\ [][Next]_vars

\* The thread is scheduled, jobs and timer callbacks return, time passes, and a
\* thread that has ended can be joined.  A wait whose deadline has passed does
\* not sleep: it times out however often the thread is signalled.
FairSpec ==
    Spec /\ WF_vars(Thread) /\ WF_vars(Second) /\ SF_vars(Timeout) /\ WF_vars(Joined)

-----------------------------------------------------------------------------
(* Properties. *)

\* Type invariant.  The thread never calls the function of no job.
TypeOK ==
    /\ joblist \in Seq(Jobs) /\ async_flags \in BOOLEAN
    /\ stop_processing \in BOOLEAN /\ is_initialized \in BOOLEAN
    /\ thread \in {"none", "created", "loop", "wait_data", "cond_wait",
                   "wait_timer_and_data", "cond_timedwait", "wake_up",
                   "wake_up_job", "jobs", "run", "ended"}
    /\ flags \in BOOLEAN /\ expired \in BOOLEAN /\ obj \in Jobs \union {NoJob}
    /\ thread = "run" => obj # NoJob
    /\ caller \in {"none", "joining", "returned"}
    /\ added \in Seq(Jobs) /\ deleted \subseteq Jobs /\ promised \subseteq Jobs
    /\ executed \in Seq(Jobs) /\ forks \in Nat

\* What was run, is being run and is listed.
Line == executed \o (IF obj = NoJob THEN <<>> ELSE <<obj>>) \o joblist

\* Jobs run once each, in the order in which they were added: what was run, is
\* being run and is listed is what was added and not deleted, and of two jobs
\* the first one was added earlier.
RunInOrder ==
    /\ ToSet(Line) = ToSet(added) \ deleted
    /\ \A i, k \in DOMAIN Line :
        i < k => \E p, q \in DOMAIN added : p < q /\ added[p] = Line[i] /\ added[q] = Line[k]

\* No wake-up is lost: the thread never waits on the condition variable while
\* there is a job, a change of flags or a request to stop that it has not seen.
NoLostWakeup ==
    thread \in {"cond_wait", "cond_timedwait"} => Nothing

\* When prelude_async_exit returns, every job that was listed or running when
\* it was called has been run (tests/async-timer.c asserts async_done).
ExitDrains == caller = "returned" => promised \subseteq ToSet(executed)

\* A job that is listed while there is a thread is run, or deleted, or the
\* thread is told to stop.
JobsRun ==
    \A j \in Jobs :
        (j \in ToSet(joblist) /\ is_initialized)
            ~> (j \notin ToSet(joblist) \/ stop_processing \/ ~ is_initialized)

\* prelude_async_exit returns.
ExitReturns == (caller = "joining") ~> (caller # "joining")

\* While PRELUDE_ASYNC_FLAGS_TIMER stays set, the thread goes on waking timers
\* up ("you won't need to call prelude_wake_up_timer() anymore").
TimersServed ==
    []<>(\/ thread \in {"wake_up", "wake_up_job"}
         \/ ~ async_flags \/ ~ is_initialized \/ stop_processing)
=============================================================================
