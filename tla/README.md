# A TLA+ model of libprelude

libprelude is the library sensors link with to send IDMEF alerts to Prelude
managers. Its hard part is not the alert format but getting every alert to a
manager although connections come and go, the process may be killed and one
background thread does the sending. That part is what this project models,
checks with TLC and, where noted, proves with TLAPS. Paths below are relative
to the root of the repository.

## 1. Inventory

### Components and their state

| Component | Source | State | Operations |
|---|---|---|---|
| failover | `src/prelude-failover.c` | data file, journal, `count`, `rindex`, descriptors' offsets | new (recovery), save, get saved, commit, rollback, enable transaction |
| connection pool | `src/prelude-connection-pool.c` | AND/OR lists of connections, `dead`/`total` counts, per-connection and global failover, fd set, reconnection timers | init, broadcast (sync and async), check_event, set alive/dead, add/del connection |
| timer | `src/prelude-timer.c` | sorted list of timers, `next_wakeup`, `last_wakeup` | init, reset, destroy, wake_up, flush |
| async | `src/prelude-async.c` | job list, flags, `stop_processing`, worker thread | init, add, del, set_flags, exit, fork handlers |
| message | `src/prelude-msg.c`, `src/prelude-msgbuf.c` | header and payload buffers, `header_index`, `read_index`, `write_index`, `fd_write_index`, fragment flag | new, set, mark_end, read, write, get, forward, clone; msgbuf: new, set, mark_end, destroy |
| connection | `src/prelude-connection.c` | state flags, fd, peer | connect (authentication exchange), close, send, recv, forward |
| client | `src/prelude-client.c` | status, flags, message buffer with its lock, heartbeat timer, refcount | new, init, start, send_idmef, heartbeat, destroy |
| identifiers | `src/prelude-ident.c` | `clockseq`, `tick`, last timestamp | generate, inc |
| I/O | `src/prelude-io.c` | fd/TLS session, function table | read, write, forward, close, pending |
| options, configuration | `src/prelude-option.c`, `src/prelude-option-wide.c`, `src/config-engine.c` | option tree, buffered file | add, set, commit, read |
| paths | `src/idmef-path.c`, `src/prelude-hash.c` | names, reference counts, the table of cached paths | new, ref, clone, destroy, set_index, make_child, make_parent |
| strings, lists | `src/prelude-string.c` | buffers with ownership flags | grow, ref, clone, insert |
| criteria, values, time | `src/idmef-*.c` | trees | match, get/set, parse, print |
| plugins, logging, profiles, TLS, prelude-admin, bindings | | | I/O, loading, generated code |

### Interactions

A client owns a connection pool. `prelude_client_send_idmef` fills a message
buffer; each full buffer becomes a message which the pool broadcasts, directly
or as a job of the async thread. The pool sends it over every connection of the
first OR list that is not entirely down; for a connection that is down or fails
the message goes to that connection's failover, and when no list is usable to
the global failover. The async thread also runs the timers once per second: the
heartbeat of the client and the reconnection and poll timers of the pool. When
a reconnection timer succeeds the pool flushes the failovers through the new
connection, reading each message back with `prelude_msg_read` and saving it
again when the connection fails in the middle.

### What is hard

* crashes between two system calls on two files (failover);
* short writes whose result nobody looks at (failover);
* fragments of one message handled by separate calls (message, failover, pool);
* timers that run outside the lock that protects their list, while any thread
  adds, resets or destroys timers (timer);
* a worker thread that must drain its jobs before it is joined (async);
* counts of dead connections maintained by several event sources (pool);
* reads and writes that stop after any byte and are resumed (message);
* one buffer written by two threads, and two locks taken in two orders (client);
* shared, cached objects that may be modified by an only owner (path);
* identifiers derived from a clock that does not advance between two calls.

PROJECT.json lists each of these as a hazard at the line where it bites.

### What makes each component correct

* failover: an accepted message is delivered, whole, at least once; recovery
  never starts in the middle of a record; it behaves as a FIFO queue.
* pool: `dead` is the number of connections that are down; a message accepted
  by the pool is sent or saved for every connection; a connection that is down
  has a timer that will try it again.
* timer: no timer expires late or early; the list is sorted; a destroyed timer
  does not fire.
* async: every job added before exit is run, exactly once, in order, and exit
  returns.
* message: what is written at one end is read at the other, whole, once, in
  order, with its tag and priority; no index leaves its buffer.
* client: fragments of one message stay together; the starting heartbeat is the
  first message and the exiting one the last; what is written is sent, also when
  the client is destroyed meanwhile; nothing freed is used.
* path: a path is freed with the last pointer to it, modified only by an only
  owner, and found under the name it has.
* identifiers: no two are equal.

## 2. Modules

Every module translates the C file it names; PROJECT.json maps each definition
to its lines. `Mutant` definitions are plausible bugs of the definition that
follows them; each must make TLC find a property violated.

### Failover.tla, FailoverQueue.tla

*State.* `data` and `journal` are the two files, as sequences of units: a record
is a header unit and `Body` payload units per fragment; a journal entry is its
two halves, enough to distinguish torn, misaligned and whole entries and to
model the CRC (`CrcOk`: both halves belong to one entry). `count`, `rindex`,
`rpos` (offset of `rfd`), `jpos` (offset of `jfd`) and `transaction` are the
handle. `pc`, `ret`, `jent`, `cur` say where the call in progress is, because
every system call on a file is a step of its own. `next`, `part` and `flushing`
are the caller (the pool's `failover_save_msg` and `failover_flush`). `acked`,
`delivered`, `crashes` and `exposed` (the crashes that hit a flush outside of a
transaction) are history.

*Actions.* `prelude_failover_new` and `JournalLoad` are recovery,
`TruncateData`/`TruncateJournal` are `truncate_failover`, `journal_write` writes
one entry, `prelude_failover_save_msg`, `prelude_failover_get_saved_msg`,
`ReadRecord`, `ReadFails`, `prelude_failover_commit`, `prelude_failover_rollback`
are the operations, `Deliver` and `SendFails` the two outcomes of a send in
`failover_flush`. `JournalShort` and `SaveShort` are writes cut short, `Crash`
kills the process between any two steps. What a process wrote is in the files
then. The code never calls `fsync`: after a loss of power the two files may be of
different age, which is not modelled.

`FailoverQueue` is what the failover promises: a FIFO queue into which messages
go in order and from whose head they are handed out. Without transactions a
message leaves the queue when it is handed out, and goes back to its end when
it could not be delivered; with them it stays until the caller commits, so that
a crash in between delivers it again. `ImplementsQueue` maps `queue` to what
recovery would find on the disk at that moment (`DurableQueue`), which makes every
step that changes a file a step of the queue or a stutter, crashes included. The
mapping is in `Failover.tla`, next to the properties, so that the run and the
proof use the same one.

*Runs.*

| Run | Instance | Shows |
|---|---|---|
| `failover_crashes` | 3 messages of one fragment, with and without transactions, 2 crashes, fairness | recovery is aligned and always opens; messages are delivered whole; at most one message is lost per crash that hits a flush outside of a transaction, none otherwise; `count` is exact until a crash; the queue is implemented; without crashes every accepted message is delivered |
| `failover_faults` | 2 messages, one of two fragments, short writes of both files and a crash, fairness | types; every flush ends whatever it finds |

*Bounds.* `MaxMsg`, `Parts`, `Body`, `MaxCrashes` and `MaxUnits` (size of the
data file) bound the instance. Three messages let one be delivered, one be in
hand and one be behind it; two crashes let one hit the recovery from another.

*Fairness.* `FairSpec` assumes weak fairness of the steps of the process and
that a send eventually succeeds if it is tried again and again, which is what
the reconnection timer of the pool provides when a manager is reachable.

*Proofs* (`FailoverProofs.tla`). `TypeCorrect` needs no assumption on faults: its
inductive invariant `TypeInv` strengthens `TypeOK` with `Sane`, which ties the
length of the message in hand to the read offset (so that a rollback never
seeks before the beginning) and says that a header has a payload. `AlwaysAligned`,
`AlwaysDeliveredWhole` and `AlwaysOpens` assume `OneFragment` (every message fits
in one fragment) and `NoShortWrites`; section 3 shows
how each fails without them. Their inductive invariant `FileInv` says that
the data file is a sequence of whole records (`WellFormed`), that `rpos`, `rindex`
and the read index of every journal entry are record boundaries or lie beyond
the end (a crash between the two truncations), and what `cur` holds at every
step.

`FileInv` says that the files can be read, not which messages they hold.
`AlwaysCountExact`, `AlwaysLossBounded` and `RefinesQueue`,
under the same two assumptions, need `DurableInv` as well, which relates the
disk to the process. `From` is the read index recovery would start from, and
`Starts(data, From)` the headers of the records behind it, which are the queue
(`DurableQueue`):

- `StartInv`: between two writes `rindex` is `From`; while a message is in hand under a
  transaction it is the first of the queue; before a truncation nothing is
  behind `From`.
- `EntryInv`: between the write of a record or the advance of `rindex` and the
  write of the journal entry for it, the two differ by that one message
  (`Committed`), and the entry that is written makes them equal again. This is
  what a crash hits, and where the one message that may be lost outside of a
  transaction is.
- `CountInv`: until the first crash `count` is the number of records behind
  `rindex`.
- `Ranked`: the records behind `From` can be numbered in order, so that removing the
  first or adding one at the end removes or adds one element of the queue.

`AlwaysLossBounded` then follows step by step: `Safe`, the messages delivered, in
hand or in the queue, loses a message only in a crash that is counted in
`exposed`, and one at most. `RefinesQueue` has one lemma per kind of step of the
queue; all other steps leave the queue and the message in hand alone.
`AckedDelivered` and `FlushEnds` are liveness properties and model-checked only.


### Timer.tla

*State.* `list` is `timer_list` as a sequence, `start` the `start_time` of every
timer (-1 from the moment its callback starts), `next_wakeup` and `last_wakeup`
the two statics, `critical` whether a caller of
`prelude_timer_lock_critical_region` has the mutex. `pc`, `at` and `timer` are
the thread inside `prelude_timer_wake_up`: where it is, its `now`, and the timer
it has read. `concurrent` tells programs in which other threads use timers while
one wakes them up from programs of one thread, in which the other calls come
between two walks or from a callback.

*Actions.* `prelude_timer_init`, `_reset`, `_destroy`, `_flush`, `_wake_up` and the two
critical-region calls have the names of the code. The walk is in steps because
only `get_next_timer` takes the mutex: `get_next_timer` reads the head,
`IsExpired`/`WakeUp` are the two halves of `wake_up_if_needed` (the comparison; the
assignment of -1 and the start of the callback), `NotYet` is the store of
`next_wakeup`, `CallbackReturns` and `Done` the end of one callback and of the walk.
`Tick` is the clock. `WakeUpDuringSearch` is a call of another thread whose search
the mark of `WakeUp` falls into: the search holds the mutex, the mark does not.
The operators of the search are given what each of their looks at a `start_time`
finds (`seen`); in all other calls the looks agree (`Still`). `search_previous_forward`, `search_previous_backward` and
`search_previous_timer` are operators with the same three ways out as the C
functions, `Abort` included.

| Run | Instance | Shows |
|---|---|---|
| `timer` | 3 timers, all calls, programs of one thread and of several, fairness | in both: a timer is listed once, no timer is met whose callback ran already, and no search runs off the list, although marks leave it unsorted, unless a mark falls into the search itself; in programs of one thread also: the list stays sorted, no timer expires before the next walk may start, callbacks start in order, and no timer stays overdue for ever |

*Bounds.* `MaxTime` bounds the clock, `Epoch` is its start. Three timers with
different delays make every branch of `search_previous_timer` reachable: before,
after and between two others, from either side. `Expire[t] <= Epoch` is the fact
that the clock is far from 1970, so that a timer whose `start_time` is -1 sorts
before all others.

*Fairness.* Time passes; critical regions end; `prelude_timer_wake_up` is called again and again (every
second by the asynchronous thread, see Async, or by the application); a callback
ends, having reset or destroyed its own timer, as all three callbacks of the
library do (`heartbeat_expire_cb`, `connection_timer_expire`,
`check_for_data_cb`). The heartbeat's does not while its client exits, but then
its timer was destroyed before (`prelude-client.c:1694`, the status is set at `:1700`).
A callback that leaves its timer listed is `"leave"` of `Calls`, see section 3. A callback may wait for
its turn while other calls are made, hence strong fairness of it.

*Proofs* (`TimerProofs.tla`). `TimerTypes`, `TimerNeverAborts`, `TimerSorted`,
`TimerWakesInTime` and the action property `TimerInOrder` hold for any timers,
delays, threads and any length of time; they need the
assumptions of `Timer` and `Returning`: callbacks reset or destroy their timer. The inductive invariant `TimerInv` adds to `TypeOK`,
`Sorted` and `WakesInTime` four facts: `Marks` (a listed timer with a `start_time` of
-1 is the one whose callback runs), without which a walk could meet a timer that
it has already woken up; `AtHead` (in a program of one thread the timer in hand
is still the first), without which `WakeUp` might start a later one; `Past` (times
that were read are not in the future) and `WalkedInTime` (what the walk leaves in
`next_wakeup` when it ends), without which `WakesInTime` is not preserved by the end
of a walk. `search_previous_forward` and `_backward` choose the first, or the last,
place that satisfies a comparison: that there is one is the least-number
principle (`LeastNat`, `GreatestNat`). `Fires` is a liveness property and stays
with TLC.

`NeverAborts` is part of it, and is not about sorted lists: `search_previous_timer` first compares with both ends, and
each direction then meets the end that stops it, however the timers in between are sorted
(`PreviousFacts`, for searches during which no `start_time` changes). A mark that
falls into a search can part the comparison with an end from the walk: the model
then ends in "raced", not in "aborted", so the theorem says that these races are
the only way to run off the list. `Races` says what such a call leaves behind if
it does not.

*Abstracted.* Of the looks of a search, each hop reads a timer once, where the
code reads `start_time` in two places of one comparison. The links of the list (a timer that is initialized while it is
listed, and the list of a forked child, corrupt links: see the plan), and
callbacks' effects other than on timers.


### Async.tla

*State.* `joblist`, `async_flags` (its TIMER bit), `stop_processing`,
`is_initialized` are the statics; `thread` is the control state of the
asynchronous thread (`"cond_wait"` and `"cond_timedwait"` are the waits on the
condition variable), `flags` its `nflags`, `expired` the result of
`timespec_expired`, `obj` the job it runs; `caller` is a thread in
`prelude_async_exit`. The rest is history.

*Actions.* One step per section that holds the mutex. `prelude_async_init`, `_add`,
`_del`, `_set_flags`, `_exit`, `Joined` (the return of `gl_thread_join`) and
`_prelude_async_fork_child` are the callers'; `async_thread`, `Loop`, `wait_data`,
`wait_timer_and_data`, `Timeout`, `WakeUpTimers`, `get_next_job`, `JobDone` the
thread's; `Second` is the clock and `Spurious` a wake-up without a signal.

| Run | Instance | Shows |
|---|---|---|
| `async` | 3 jobs, all calls, 1 fork, fairness | jobs run once and in order; no wake-up is lost; exit returns after the jobs it found; jobs are run, exit returns, timers are served, in a forked child too |

*Bounds.* Each job is added once; three let one run while one is listed and one
is deleted. `MaxForks` is 1: after a fork the model is the child. The child
is the one of builds without `HAVE_PTHREAD_ATFORK` (section 3).

*Fairness.* Weak fairness of the thread, of `Second` and of `Joined`; strong fairness
of `Timeout` because a `pthread_cond_timedwait` whose deadline is past returns
ETIMEDOUT whether or not it is signalled again. Nothing is assumed of the
application.

*Proofs* (`AsyncProofs.tla`). `AsyncTypes`, `AsyncWakeup`, `AsyncOrder` and `AsyncDrains` hold
for any set of jobs, any calls and any number of forks, without hypotheses. The
inductive invariant `AsyncInv` joins `TypeOK` and `NoLostWakeup` with `Control` (which
states of the thread and of its caller go together), `Order` (what has run, what
runs and what is listed is, in this order, a part of what was added: `RunInOrder`
alone says nothing of the jobs to come) and `Drain` (what prelude_async_exit found
is listed, running or done until the thread has ended). Liveness stays with TLC.


### Ident.tla

*State.* `last`, `tick`, `clockseq` are the fields of `prelude_ident_t`; `clock` is
`gettimeofday`, `idents` what was generated. Timestamps are in units of 100 ns, `UUIDS_PER_TICK` of
them per microsecond.

*Actions.* `prelude_ident_generate` (with `get_current_time` and `uuidgen` as
operators) and `Tick`.

| Run | Instance | Shows |
|---|---|---|
| `ident` (violation) | as many identifiers as `get_current_time` gives | the eleventh identifier of a microsecond is the first of the next one, against the comment of `UUIDS_PER_TICK` |

`MaxClock` and `MaxIdents` bound the history; eleven identifiers and one more are
enough.

*Proofs* (`IdentProofs.tla`). `AlwaysIncreasingButForTheLast`: for every `MaxClock`,
`MaxIdents`, clock sequence and `UUIDS_PER_TICK >= 1` identifiers grow strictly,
except that one whose counter is `UUIDS_PER_TICK` may equal the one that follows it.
So the violation above is the only way in which an identifier repeats while the
clock does not go back. The inductive invariant `IdentInv` bounds the counter, says that `last` is
the timestamp of a microsecond that is not in the future, and compares every
identifier with `last + tick` (`LastIdent`).

*Abstracted.* The textual form of a UUID and the node part, which are the same
for all identifiers of an analyzer.


### ConnectionPool.tla

*State.* `lists` and `dead` are the `cnx_list_t` chain with its counters;
`connection_string`, `connection_string_changed`, `initialized` fields of the pool;
`alive` the connections in state ESTABLISHED, `fds` the descriptor set, `armed` and
`expire` the reconnection timers, `saved` and `global` the failovers of each
connection and of the pool, on a disk that outlives the lists. `firing` is a
timer callback that waits for the mutex, `poller` and `ready` a thread in
`connection_pool_check_event`. `link` and `up` are the network: connections that
still work and managers that accept one. `sent`, `to` (the list a message was
addressed to) and `got` are history.

The pool's mutex is recursive and held across sends, connection attempts and
flushes, during which `set_state_dead`, `set_state_alive`, `failover_flush` and
`broadcast_message` call each other. `stack` holds the frames of the thread that
has the mutex: a frame says which function it is in and what is left of its
loop. Each send, connection attempt, event and read of a failover is one step,
so that connections may break and managers stop in between.

*Actions.*

| Action | Code |
|---|---|
| `prelude_connection_pool_broadcast`, `walk_manager_lists`, `broadcast_message` | choice of the AND list; then one connection per step: sent, failed (saved and set dead), or down (saved) |
| `failover_flush_cnx`, `failover_flush_all` | `failover_flush`, for the connection and for the pool, with the end of `set_state_alive` |
| `TimerExpires`, `connection_timer_expire` | the callback is called without the mutex; it then has it |
| `prelude_connection_pool_init`, `pool_init`, `init_connection`, `init_returns` | replacement of the lists, then one connection attempt per step |
| `PollSelect`, `PollLock`, `check_connection_event`, `PollUnlock`, `PollReturn` | `connection_pool_check_event`: select without the mutex on a copied set, events with it, re-initialization when the string changed |
| `prelude_connection_pool_set_connection_string`, `_set_connection_dead`, `_set_connection_alive`, `_add_connection`, `add_connection_connects`, `add_connection_flushes` | calls of the application |
| `UserConnects`, `LinkBreaks`, `ManagerStarts` | the environment |

| Run | Instance | Shows |
|---|---|---|
| `pool` | "a && b", "a \|\| b", "a"; 2 messages; 2 failures of links, managers or answers, or reports of dead connections; fairness | nothing sent or kept twice; counters never too high; dead connections have a timer; the pool's failover is flushed as soon as a list is complete; every message gets to every connection of its list |
| `pool_lost` | "a", 2 messages; connections added or reported alive, the string set again, failures noticed late, refused profiles, unreadable failovers, handlers that kill their connection, repeated initialization | nothing is lost |

*Bounds.* Two connections in each of the three shapes of a string, two messages so that one is in a
failover while another is sent, `MaxFails` failures. `Calls` and `Faults` select
which calls the application makes and what goes wrong, so that each run asks one
question; section 3 says which faults break which properties. `pool_lost`, which has
no temporal property, takes the two messages as symmetric.

*Fairness.* The thread that has the mutex runs (`Held`), managers come back, and
timers are called: strong fairness of `TimerExpires` and
`connection_timer_expire`, because a callback may find the mutex taken again and
again. `Fires` of Timer, with the timers served by the asynchronous thread
(`TimersServed` of Async), is what the code offers for the first; a mutex that is
not starved for ever is assumed for the second.

*Proofs* (`PoolProofs.tla`). All theorems hold for any connections, strings, messages
and numbers of failures, and for any calls and faults but the ones they name.
What they exclude is excluded because the property fails with it: section 3.

- `PoolTypeOK` rests on `PoolInv`. `TypeOK` alone is not inductive: `parent(c)` finds a
  list only for a connection of the pool. `PoolInv` says that the frames of the
  lock holder (`Known`), the timers and the callback that waits for the mutex name
  connections and lists of the pool, or a freed connection. It is preserved
  because the lists are replaced only while nobody has the mutex.
- `PoolNothingLost` assumes `Writable`: neither `"part"` nor `"unsaved"`; section 3
  shows the loss otherwise. `NothingLost` is proved together with `WholeFrames`: a broadcast in
  progress still has its message from the first byte. The argument is `Kept`: what
  a manager got, a failover holds or a broadcast has still to send stays in one
  of the three places in every step, and only two steps address a message to a
  list (`Addressed`).
- `PoolRetried` assumes `Orderly`, like `PoolNeverOvercounts` below, whose invariant
  it uses; section 3 says how `Retried` fails otherwise. `Retried` speaks of states
  in which the mutex is free; `Watched` extends it to the time between: a
  connection that is down has a timer or is still to be tried by the call in
  progress (`Awaited`). `Unarmed`, a connection that is up or awaited has no timer, is
  what makes `init_cnx_timer` safe: it is called for connections that were up or
  awaited, so that it never links a timer that is listed already, which would
  cut others off (`Linked`).

- `PoolNothingTwice` assumes `"late" \notin Faults` and `Plain`: no AND list of a string
  names a connection twice (lists may share connections). `AtMostOnce` strengthens
  `NothingTwice` in two ways. It charges a broadcast in progress for every connection it has still
  to come to, whether or not its message is whole (`Pending`), and allows no
  copy at all of a message that was not broadcast yet (`Due`), without which the
  first broadcast could be a second copy. `Shape`, at most one broadcast runs and it
  is the innermost frame, makes the charge at most one.
- `PoolNeverOvercounts` assumes `Orderly`: strings that name no connection twice,
  an application that sets strings and reports connections dead, and no
  `"close"`, `"profile"` or `"callback"`. (`"set_alive"` and `"add"` come with an
  application that connects by itself, `UserConnects`: a connection is up, and still
  counted, until it is reported.) `NeverOvercounts` is not
  inductive: a connection that `prelude_connection_pool_init` has still to try is
  down and not counted. `Counts` compares the counter with the connections that
  are down and not awaited (`Down`); `Trials` says that an initialization tries each
  connection once and in the order of the lists, and `Flushing` that a connection
  whose failover is flushed is up, so that a failure counts a connection that
  was not counted.
- `PoolFlushedWhenUp` assumes that no connection is in two lists of a string (`Apart`),
  and neither `"unread"` nor `"profile"`. `Drained` extends `FlushedWhenUp` to the time
  during which the mutex is held: when the failover of the pool holds a message
  and no connection of a list is counted dead, a frame on the stack will still flush it or
  try a connection of that list (`Covered`). `FirstList`, a connection
  that is being added is in the first list, is what ties `add_connection_flushes`
  to the list it looks at.

The liveness property `Flushed` is model-checked only.

To initialize a timer that is listed links its node in a second time, and the
timers between the two places may leave the list: `init_cnx_timer` keeps any
subset of them. A failover that cannot be written (`"unsaved"`) is ignored by
`broadcast_message`, `failover_flush` and `walk_manager_lists`, as in the code.

*Abstracted.* A descriptor is its connection, so that the reuse of a number by
another connection is not seen; a message in the kernel's buffer counts as got,
what TCP loses after that is noticed by nobody; a failover is the queue that
FailoverQueue specifies (Failover is shown to implement it); connections with the same
address share a failover directory, so that one connection per address is
enough; the notification callbacks have no effect; an AND list is never empty,
as the parser of connection strings guarantees. After a callback met a freed
connection (`firing = Freed`) nothing more is said of it. `pool_lost`
allows a deadlock: an application whose profile is refused may stop.

### Msg.tla, MsgFifo.tla

*State.* A message is a record with the fields of `struct prelude_msg`:
`header_index`, `read_index`, `write_index`, `fd_write_index`, `datalen`,
`is_fragment`, the bytes of `hdrbuf` and of `payload`. `msg` is the one in the
`prelude_msgbuf_t` of the application, `joblist` the messages left to the
asynchronous thread, `in` what each reader has read so far. `wire` are the bytes
in the two descriptors, `open` whether their reader closed them. `pc`, `cur` and
`pending` are the application inside `prelude_msgbuf_set`. `sent` and `received`
are history.

*Actions.* `Begin` (`prelude_msg_set_tag`), `set_data`, `prelude_msg_set_priority`,
`prelude_msg_mark_end` and `prelude_msgbuf_destroy` write; `SendSome`/`SendNone` are
`do_send_msg` with its loop on EAGAIN, `do_send_msg_async` hands the message over,
`JobWrites`/`JobWritesNone` are the asynchronous thread. `read_message_header` and
`read_message_content` are one `prelude_io_read` each, of any number of bytes;
`prelude_msg_write` is a relay that writes what it has read, as `failover_flush`
and managers do; `prelude_msg_get` takes the message apart.

`MsgFifo` is what both ends promise together: a channel from which the messages
come in the order in which they were put in, up to the first that is too long.
`ImplementsFifo` in MCMsg states that Msg implements it, its fairness included.

| Run | Instance | Shows |
|---|---|---|
| `msg` | 2 of 6 messages, of one to three fragments, exactly filling a buffer, or too long; both modes, fairness | the FIFO is implemented; no index leaves its buffer |

*Bounds.* A buffer has 13 bytes and a header 5, so that 8 bytes are left for
data: the six messages leave room for another header, leave none, need two
fragments (with the priority set before or after the first is flushed), need
three, or exceed `max_message_size`. Descriptors hold two bytes, so that every
header and payload is cut everywhere. `WORD`, 32, is the 2^32 modulo which
lengths are computed. Headers come from the modelled writers, whose lengths never
wrap: the checks of `slice_message_header` and `read_message_header` for lengths
that do are not exercised by the run but by the proof, which lets the
descriptors hold any bytes. A second message shows what the first left in the
buffer.

*Fairness.* Weak fairness of each process: the application finishes the message
it has begun (it calls `prelude_io_write` again on EAGAIN), the asynchronous thread
runs, readers read.

*Proofs* (`MsgProofs.tla`). `MsgInBounds` holds for any messages, sizes of buffers and
descriptors, and limits of which the sum with a header does not overflow
(`LimitAssumption`; `max_message_size` is far below 2^32 in the code). `InBounds` speaks
of the buffers; its inductive invariant `MsgInv` also says what keeps the next
access inside them: of a message that is written (`Outward`), that its header fits
before its data and that not all of it was written; of a message that is read
(`Inward`), that its buffer is as long as the fragments whose headers were read,
that the offset in the header never passes what was read of it, and that a
complete header belongs to an allocated buffer; of the application (`Writer`), that
nothing of the buffer is on its way while a message is being filled in. The
refinement of `MsgFifo` and its fairness are model-checked only.

*Abstracted.* Every integer of the format is one byte; time stamps of the header
are left out. The callback of the client is the one that is modelled: it writes until
the message is written and never fails. That of a connection's own buffer
(`connection_write_msgbuf`) returns EAGAIN; section 3 says what happens then.

### Client.tla

*State.* `status`, `msgbuf_lock`, `armed` (the heartbeat timer) and `buf` (content
and tag of `msgbuf`) are fields of the client; `refcount` and `mutex` those of its
pool; `joblist` and `obj` the jobs of the asynchronous thread. `pc`, `cur`,
`part`, `ret` say for each of the two threads where it is. `program` selects
`PRELUDE_CLIENT_FLAGS_ASYNC_SEND`, `PRELUDE_CLIENT_FLAGS_ASYNC_TIMER` and which calls the
application makes. `written` and `out` are history: what was written to the buffer
and what the pool was given.

*Actions.* `prelude_client_send_idmef`, `idmef_message_write` (one fragment),
`prelude_client_send_msg`, `broadcast_async`, `SendUnlocks` are a send by either
thread; `get_next_job`, `broadcast_async_cb`, `pool_destroy` the job that sends it.
`prelude_client_start`, `start_fails`, `start_returns`, `SendAlert`, `heartbeat_expire_cb`,
`heartbeat_reads_status`, `heartbeat_resets`, `prelude_client_destroy`,
`_prelude_client_destroy` are the life of a client; `check_for_data` and
`event_handled` an option request that the pool's timer finds,
`prelude_client_recv_msg` one that the application receives.

The module composes what Async, Timer, Msg and ConnectionPool say of their parts:
a job list served in order, callbacks without the lock of the timers, buffers
sent in fragments, a pool that is given messages under its mutex.

| Run | Instance | Shows |
|---|---|---|
| `client` | all combinations of the two flags, 2 alerts of 2 fragments, 2 heartbeats, 1 request, fairness | fragments of a message stay together and have their tag; nothing freed is used; heartbeats are in order; what is written is sent, and the pool of a destroyed client is freed |
| `client_locks` | asynchronous timers and an option request | expected violation: the asynchronous thread holds the pool's mutex and waits for `msgbuf_lock`, the application holds `msgbuf_lock` and waits for the mutex |

*Bounds.* Two alerts let one be sent while another is written, two heartbeats let
one follow the reset of the other. In `client`, programs with asynchronous
timers neither poll for requests (`client_locks`) nor destroy the client, and
replies through the client's buffer need asynchronous sends: section 3 says what
the code does in these three cases.

*Fairness.* A thread inside a call goes on, and the asynchronous thread takes
queued jobs. Weak fairness only: no lock is assumed to be fair, and nothing is
assumed of the application between two calls.

*Proofs* (`ClientProofs.tla`). `ClientContiguous`, `ClientNothingStale` and
`ClientBeatsInOrder` hold for any number of alerts, heartbeats and requests, under
`Sound`: a client that answers requests itself sends asynchronously, and a client
with asynchronous timers is not destroyed. These are the conditions of the run;
section 3 says what the code does without them. The inductive invariant
`ClientInv` follows a message on its way: `Where` and `Phase` tie the position of each
thread to the lock, the program and the status of the client; `References` counts
the references of the pool, one for every message that is queued, being queued
or being sent; `Chain` says that, in what was sent, in the job in hand and in the
list, every buffer continues the one before it or starts a message after the end
of another; `Writer` says the same of the buffer of the thread that holds the lock,
which is why no other thread can come between two parts; `Tags`, `FirstOut`,
`FirstCall` and `Final` do so for the tag and for the first and the last heartbeat.
None of the three properties is inductive without what is still queued.

### Path.tla

*State.* `state`, `name` and `refcount` are those of every path ever allocated;
`table` is `cached_path`, whose entries remember the list they were put into,
since a path is found only if its present name hashes to that list. `handles`
counts the pointers each thread holds; `pc`, `arg`, `obj` are calls in progress.

*Actions.* `idmef_path_create` (the lookup, and the allocation if it fails),
`prelude_hash_add` and `idmef_path_new_returns` (the reference of the caller) are the
sections of `idmef_path_new_from_root_fast`; `invalidate` and `build_name` those of
`idmef_path_set_index`, `_undefine_index`, `_make_child` and `_make_parent`;
`idmef_path_ref`, `_clone`, `_destroy` and `_idmef_path_cache_destroy` have the names
of the code.

| Run | Instance | Shows |
|---|---|---|
| `path` | two threads that share paths, or one that also modifies them | reference counts are exact; an entry is in the list of the name its path has |
| `path_shared` (violation) | one thread that modifies and copies paths and takes further references | a copy with two references is modified, against the comment of `invalidate` |

*Bounds.* Four paths and two handles per thread; names that are created have at most one
element, with or without one of two indexes (`MAX_DEPTH` is 2, and
`idmef_path_parse_new` refuses names of `MAX_DEPTH` elements, `idmef-path.c:806`);
`make_child` may add one more. Two threads that miss the same name need two paths, a copy of each
and a modification two more. Names of one length share a list of the table. In
programs with two threads paths are not modified, in those that modify them no
second reference is taken: section 3 says why.

*Proofs* (`PathProofs.tla`). `PathRefcountExact` and `PathFoundByName` hold for any threads, names, depth, hash
function and number of paths, under `Sound`: a program that modifies paths has one thread and
takes no further references, the conditions of the run. The inductive invariant
`PathInv` says that a path is listed at most once, in the list of its name
(`Listing`), what each call knows of the path it has in hand (`Where`: a new path is
unknown to others, a path that was looked up stays in the table until the
reference is taken, which is what makes the two sections of the lookup safe), that
counts are exact (`Exact`), and that in a program that modifies paths the table has
each name once and a path outside of it one pointer (`Modifying`): otherwise
`invalidate`, which removes an entry by name, could remove that of another path.

*Abstracted.* Parsing; elements with keys; memory that is used again.

## 3. Deviations

What the models show of the code beyond the violation runs `client_locks`, `ident` and
`path_shared`, and which change of constants or which formula shows it. Each can be replayed with a
copy of the cfg named.

| Where | What the code does | How to see it |
|---|---|---|
| failover, `prelude-failover.c:492` | fragments of two messages saved in turn, or a flush between two fragments of one, merge into one message or split one | `failover_faults` with `Faults = {}` and `DeliveredWhole` |
| failover, `:116` | a short write of the first journal entry leaves half an entry: the failover can never be opened again | `failover_crashes` with `"short_journal"` and `RecoveryOpens` |
| failover, `:256` ff. | an entry that was skipped for its CRC is still in the buffer when no entry before it is usable | the same with the invariant `pc = "load" /\ data = <<>> => jent = ZeroEntry` |
| failover, `:471` | with transactions, a message accepted before a crash is found by recovery but not counted: it is delivered only when another is saved | `failover_crashes` with `Modes = {TRUE}` and `AckedDelivered` without its `crashes > 0` |
| timer, `prelude-timer.c:101` | the callback runs without the mutex, also while another thread is in a critical region | invariant `~ (critical /\ pc = "callback")` |
| timer, `prelude_timer_flush` | if a callback resets its timer, the flush meets it again and does not return | `Programs = {FALSE}`, property `(at = -1) ~> (at # -1)` |
| timer, `:101` | `start_time` is set to -1 without the mutex, possibly while another thread searches the list (`:168-207`, `:279-316`): the search may run off the list and end the process (`:198`, `:207`, `:229`, `:240`) | `timer` with the invariant `pc # "raced"` |
| timer, `:98` | a callback that leaves its timer listed is met again by the walk, and the assertion fails | `timer` with `"leave"` in `Calls`, `NeverAborts` |
| async, `prelude-async.c:135` | after the timer flag is cleared timers are woken up until a signal makes the thread read the flags | property `async_flags` cleared `=>` no `WakeUpTimers` |
| identifiers, `prelude-ident.c:147` | the clock is compared with a `last` that was just overwritten: the clock sequence never changes when the clock is set back, and identifiers may repeat | add an action that decreases `clock` |
| pool, `prelude-connection-pool.c:551` | a connection that comes back while another of its list dies during the flush of the pool's failover is up and never polled | `pool` with `Free => (Pooled \intersect alive) \subseteq fds` |
| pool, `:655` | the delay is doubled while it is less than 3600 and not cut: 10 to 5120 seconds | invariant `expire[c] <= MAXIMUM_EXPIRATION_TIME` |
| pool, `:227` | after a handler has reported its connection dead, it is counted dead once more; the counter is never 0 again and the pool's failover never flushed | `NeverOvercounts`, `Flushed` with `"callback"` |
| pool, `:980` | a profile that is refused while the lists of an initialized pool are replaced ends the initialization: the connections not yet tried have no timer and nobody retries them | `pool` with `"profile"`, `"set_string"`, `"init"` and `Retried` |
| pool, `:570` | `prelude_connection_close` is not repeated when it asks for it: the connection stays established and is counted again | `NeverOvercounts` with `"close"` |
| pool, `:457` | a message written in part before an error is saved from the byte that was reached | `NothingLost` with `"part"` |
| pool, `:639` | a callback that waits for the mutex runs after the lists, and its connection, were freed | invariant `firing # Freed` with `"set_string"` |
| pool, `:984` | a second initialization counts the connections that are down again | `NeverOvercounts` with `"init"` |
| pool, `:984`, `:227`, `:234` | a second initialization, or a second report of a dead connection, calls `prelude_timer_init` for a timer that is listed already (`:397`, `:580`), which links it twice: of the two neighbours it had, one now leads past other timers | `Retried` with `"init"` (the set `Linked` in `set_state_dead`) |
| pool, `:1319` | `prelude_connection_pool_set_connection_alive` looks at the counter of the list only: a report about a connection that is down lowers the counter and destroys its timer (`:535`) | `Retried` with `"set_alive"` |
| pool, `:435`, `:508`, `:623` | the result of `prelude_failover_save_msg` is ignored: a message that cannot be saved is lost without an error | `pool_lost` with `"unsaved"` and `NothingLost` |
| pool, `:457` | a message that was sent when its failure is noticed is saved and sent once more | `pool` with `"late"` and `NothingTwice` |
| pool, connection strings | nothing refuses a string that names a connection twice: in one AND list it gets every message twice; in two lists only one of them counts it | `Strings = {<<<<a, a>>>>}` and `NothingTwice`; `{<<<<a>>, <<a, b>>>>}` and `NeverOvercounts`; `{<<<<a>>, <<a>>>>, <<<<b>>>>}` with `"init"`, `"set_string"` and `FlushedWhenUp` |
| pool, `:980` | after a refused profile the connections not yet tried are not counted: the list seems complete and the pool's failover is not flushed | `FlushedWhenUp` with `"profile"`, `"init"`, `"set_string"` |
| pool, `:495` | a failover that cannot be read is given up without an error | `FlushedWhenUp` with `"unread"` |
| failover, `:431` | `rindex` advances by the length of the message with one header although the file held one per fragment: after a fragmented message a crash before the truncation restarts inside a record, against the comment at `:141` | `failover_crashes` with `Parts <- MCPartsTwo` and `Aligned` |
| failover, `:438-447` | a rollback moves the read position back by the same length, and so into a record | the same, with `Modes = {TRUE}` |
| timer, `:146` | `next_wakeup` is stored without the mutex from a timer read earlier: a timer that another thread adds meanwhile is looked at only when the older one expires | `timer` with `WakesInTime` without its `~ concurrent` |
| pool, `:990` | `prelude_connection_pool_init` calls `set_state_alive` for connections that were never counted dead: in "a && b \|\| d" with a down and b up the counter is 0, and 1 when both are down, so that messages are kept for a and b rather than sent to d, against the comment at `:611` | three connections, and a property that no new message is addressed to a list without a live connection while another has one |
| async, `prelude.c:311` | the fork handlers return at once in builds with `HAVE_PTHREAD_ATFORK`, although they are what `glthread_atfork` registers: a forked child keeps `is_initialized`, has no thread, and its jobs are never run | let `_prelude_async_fork_child` change only `thread`; `JobsRun` |
| async, `prelude-async.c:368` | the mutex is destroyed by `prelude_async_exit` and not initialized by `prelude_async_init` | the model stops at exit |
| msg, `prelude-msg.c:584` | a callback that returns EAGAIN, as `connection_write_msgbuf` (`prelude-connection.c:123`) does when `prelude_connection_send` does, leaves a marked message in the buffer; the header of a fragmented message behind it is never written, and `prelude_msgbuf_destroy`, which says that remaining data is flushed, finds the buffer empty | a disjunct of `SendNone` that changes only `pc` |
| msg, `prelude-msg.c:105` | after another error of the callback `is_fragment` stays set, and the next message is marked as a fragment | the same without `CallAllocReset` |
| client, `prelude-option-wide.c:423` | the reply to a request that the application receives sets the tag of the client's buffer; with synchronous sends nothing sets it back, and receivers refuse the messages after it | `Client` with `P(FALSE, FALSE, FALSE, FALSE, TRUE)`, `Contiguous` |
| client, `prelude-client.c:1978` | the handler of a request marks the end of `client->msgbuf` instead of its own buffer; the reply goes out because `prelude_msgbuf_destroy` sends it | `Request` has no part of its own |
| client, `prelude-client.c:283` | with asynchronous timers a heartbeat in progress puts the timer of a client back that is being destroyed, or uses the freed client | `P(FALSE, TRUE, TRUE, FALSE, FALSE)`, `NothingStale` |
| client, `prelude-client.c:1478` | `prelude_client_send_msg` takes no lock: a message of another thread may come between two fragments | |
| path, `idmef-path.c:841` | a lookup and its reference are two sections: a path may be modified or freed in between by another thread | two threads and `modifies`, `RefcountExact` |
| path, `idmef-path.c:858` | the same name may be added twice; a modification removes the entry found first by name, which may be that of the other path | the same |
| path, `idmef-path.c:1078` | the key of an element is freed and not cleared; copies and later elements of that depth use it | keys are not modelled |
| path, `idmef-path.c:1586` | `cached_path` is not reset when the table is destroyed: a lookup after `prelude_deinit` uses freed memory | `destroyed` disables lookups |

## 4. Plan

Done modules are described above. In the order of importance, what is left:

Order of work: the store first (failover), then what moves messages into and
out of it (pool), then what drives the pool (timer, asynchronous thread), then
what feeds it (message, client), then the small algorithms (identifiers, paths).

1. `Connection`: the states of a connection and of its TLS session, a close that
   must be repeated, the authentication exchange; the refinement of `link` and
   `alive` of the pool.
2. The rest of the pool: `prelude_connection_pool_recv`, `_del_connection`,
   `_destroy`, reference counts of connections.
3. The links of the list of timers: a second initialization of a listed timer,
   the emptied list of a forked child.
4. Algorithms against reference definitions: `prelude-string.c` (growth and
   ownership), `prelude-option.c` (priorities and commit order),
   `config-engine.c`, `idmef-criteria.c` (matching).

## 5. Not modelled

Generated code (the IDMEF object tree, its codecs, the criteria parser, the
SWIG bindings), vendored code (`libmissing`), the interactive `prelude-admin`
tool, TLS and file permissions (`tls-auth.c`, `prelude-client-profile.c`), and
logging: they are conversions and I/O without a protocol of their own. The
README of each module above names what it abstracts. Every invariant the
runs check is also proved, under the assumptions its theorem states, and so are
the refinement of the failover queue and the action property `InOrder`. `Increasing`
and `ModifiesOwn` are violated; what is left of the first is proved
(`AlwaysIncreasingButForTheLast`). Liveness stays with TLC, as the prover has no rules for fairness.
So does the refinement of the channel (`ImplementsFifo`), for its fairness and
because its mapping would have to parse the bytes in the descriptors and in
five buffers into fragments of messages, a recursive definition whose value the
prover cannot establish by induction.
