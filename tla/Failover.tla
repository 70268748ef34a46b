------------------------------- MODULE Failover -------------------------------
(***************************************************************************)
(* The on-disk failover queue of src/prelude-failover.c: messages that no  *)
(* manager could take are appended to a data file, a journal of            *)
(* (count, rindex) entries remembers how many are left and from where to   *)
(* read, and recovery after a restart rebuilds the queue from both files.  *)
(*                                                                         *)
(* Every system call that changes a file is a step of its own, so that a   *)
(* crash (the process dies by SIGKILL: the code masks the other signals)   *)
(* may fall between any two of them.  What was written stays: the code     *)
(* never calls fsync, and a loss of power is not modelled.                 *)
(*                                                                         *)
(* Bytes are abstracted to units.  A record in the data file is one header *)
(* unit followed by the payload units of the fragment it carries.  A       *)
(* journal entry is two units, its halves, which is what it takes to tell  *)
(* a torn or misaligned entry from a whole one.                            *)
(***************************************************************************)
EXTENDS Integers, Sequences, FiniteSets

CONSTANTS
    MaxMsg,      \* the application saves the messages 1 .. MaxMsg, in order
    Parts,       \* Parts[m]: number of fragments message m is written in
    Body,        \* payload units of a fragment
    Modes,       \* what the caller sets transaction_enabled to
    Faults,      \* environment faults: subset of FaultKinds
    MaxCrashes,  \* bound on the number of crashes
    MaxUnits,    \* bound on the size of the data file, in units
    NoMsg        \* not a message

Msgs == 1 .. MaxMsg

\* The process dies between two system calls; an append to the data file or a
\* write of a journal entry is cut short (disk full).  Dying inside a write is
\* a short write followed by a crash.
FaultKinds == {"crash", "short_data", "short_journal"}

ASSUME MaxMsgAssumption == MaxMsg \in Nat \ {0}
ASSUME PartsAssumption  == Parts \in [Msgs -> Nat \ {0}]
ASSUME BodyAssumption   == Body \in Nat \ {0}
ASSUME ModesAssumption  == Modes \subseteq BOOLEAN
ASSUME FaultsAssumption == Faults \subseteq FaultKinds
ASSUME NoMsgAssumption  == NoMsg \notin Msgs
ASSUME BoundsAssumption == MaxCrashes \in Nat /\ MaxUnits \in Nat

VARIABLES
    \* On disk: survives a crash.
    data,        \* data file: sequence of units
    journal,     \* journal file: sequence of half entries
    \* struct prelude_failover and its descriptors.
    count,       \* failover->count
    rindex,      \* failover->rindex
    rpos,        \* read offset of failover->rfd
    jpos,        \* offset of failover->jfd
    transaction, \* failover->transaction_enabled
    \* Where the call in progress is.
    pc,          \* next step of the call
    ret,         \* where to go after journal_write or truncate_failover
    jent,        \* jentry of journal_initialize
    cur,         \* payload of the message being read or handed to the caller
    \* The caller: the connection pool's failover_save_msg and failover_flush.
    next,        \* next message to save
    part,        \* fragments of it that were already handed to save_msg
    flushing,    \* inside the loop of failover_flush
    \* History.
    acked,       \* messages whose last fragment save_msg accepted
    delivered,   \* what was handed to a manager, in order
    crashes,     \* number of crashes so far
    exposed      \* those that hit a flush outside of a transaction

disk   == <<data, journal>>
handle == <<count, rindex, rpos, jpos, transaction>>
call   == <<pc, ret, jent, cur>>
app    == <<next, part, flushing>>
hist   == <<acked, delivered, crashes, exposed>>
vars   == <<disk, handle, call, app, hist>>

-----------------------------------------------------------------------------
(* Units of the two files. *)

\* A header carries the length of its payload and the is_fragment flag.
Header(m, len, frag) == [kind |-> "H", msg |-> m, n |-> len, frag |-> frag]

\* The j-th payload unit of message m.
Payload(m, j) == [kind |-> "D", msg |-> m, n |-> j, frag |-> FALSE]

Units == [kind : {"H", "D"}, msg : Msgs, n : Nat, frag : BOOLEAN]

\* All the payload of message m, in order: what a reader should get back.
Whole(m) == [j \in 1 .. Parts[m] * Body |-> Payload(m, j)]

\* What prelude_msg_write puts on the wire for fragment p (from 0) of m.
Record(m, p) ==
    <<Header(m, Body, p + 1 < Parts[m])>>
        \o [j \in 1 .. Body |-> Payload(m, p * Body + j)]

\* A message that was read back has been defragmented: it is written as one
\* record, however many fragments it was read from.
Rewritten(c) == <<Header(c[1].msg, Len(c), FALSE)>> \o c

\* Mutant: the header is not counted.
GetLenNoHeader(c) == Len(c)

\* prelude_msg_get_len: header and payload of the (defragmented) message.
GetLen(c) == 1 + Len(c)

HalfEntries == [half : {1, 2}, count : Nat, rindex : Nat]

Half(h, c, r) == [half |-> h, count |-> c, rindex |-> r]

Entry(c, r) == <<Half(1, c, r), Half(2, c, r)>>

\* write(2) of cells at offset pos of file f: overwrites, then extends.
WriteAt(f, pos, cells) ==
    SubSeq(f, 1, pos) \o cells \o SubSeq(f, pos + Len(cells) + 1, Len(f))

-----------------------------------------------------------------------------
(* Reading the journal back (journal_read_last_entry, journal_check). *)

\* The journal entry at aligned position k, 1 being the first.
EntryAt(k) == [count |-> journal[2*k - 1].count, rindex |-> journal[2*k].rindex]

\* journal_checksum matches: both halves are of one entry.
CrcOk(k) == /\ journal[2*k - 1].half = 1
            /\ journal[2*k].half = 2
            /\ journal[2*k - 1].count = journal[2*k].count
            /\ journal[2*k - 1].rindex = journal[2*k].rindex

\* Mutant: an entry that ends the file is taken for a half entry.
WholeEntriesOffByOne == 1 .. (Len(journal) - 1) \div 2

\* The half entry left over at the end (offset % FAILOVER_JOURNAL_ENTRY_SIZE)
\* is skipped.
WholeEntries == 1 .. Len(journal) \div 2

ValidEntries == {k \in WholeEntries : CrcOk(k)}

\* The first good entry found walking the journal backwards.
IsLastValid(k) == k \in ValidEntries /\ \A l \in ValidEntries : l <= k

ZeroEntry == [count |-> 0, rindex |-> 0]

\* What journal_check leaves in jentry: an entry whose read index is at or
\* after the end of the data is of no use, recovery starts over.
Recovered(e) == IF e.rindex >= Len(data) THEN ZeroEntry ELSE e

-----------------------------------------------------------------------------

Init ==
    /\ data = <<>> /\ journal = <<>>
    /\ count = 0 /\ rindex = 0 /\ rpos = 0 /\ jpos = 0
    /\ transaction = FALSE
    /\ pc = "down" /\ ret = "down" /\ jent = ZeroEntry /\ cur = <<>>
    /\ next = 1 /\ part = 0 /\ flushing = FALSE
    /\ acked = {} /\ delivered = <<>> /\ crashes = 0 /\ exposed = 0

-----------------------------------------------------------------------------
(* prelude_failover_new, journal_initialize. *)

\* Opens the files and looks for the last usable journal entry.  Neither file
\* is changed before truncate_failover.
prelude_failover_new ==
    /\ pc = "down"
    /\ count' = 0 /\ rindex' = 0 /\ rpos' = 0
    /\ transaction' = FALSE
    /\ cur' = <<>> /\ part' = 0 /\ flushing' = FALSE
    /\ ret' = "load"
    /\ \/ \* No journal: with data it is an inconsistency, the data is dropped.
          /\ journal = <<>>
          /\ jent' = ZeroEntry /\ jpos' = 0
          /\ pc' = IF data = <<>> THEN "load" ELSE "truncate_data"
       \/ \* Less than one entry: lseek to a negative offset fails.
          /\ journal # <<>> /\ WholeEntries = {}
          /\ pc' = "failed"
          /\ UNCHANGED <<jent, jpos>>
       \/ \* Every entry has a bad CRC: the files are truncated, but jentry
          \* still holds the first entry of the journal.
          /\ WholeEntries # {} /\ ValidEntries = {}
          /\ jent' = EntryAt(1) /\ jpos' = 2
          /\ pc' = "truncate_data"
       \/ \E k \in ValidEntries :
             /\ IsLastValid(k)
             /\ jpos' = 2 * k
             /\ jent' = Recovered(EntryAt(k))
             /\ pc' = IF EntryAt(k).rindex < Len(data) THEN "load"
                      ELSE "truncate_data"
    /\ UNCHANGED <<disk, next, hist>>

\* Mutant: rfd is not moved to rindex.
JournalLoadNoSeek ==
    /\ pc = "load"
    /\ count' = jent.count /\ rindex' = jent.rindex
    /\ pc' = "idle"
    /\ UNCHANGED <<disk, rpos, jpos, transaction, ret, jent, cur, app, hist>>

\* The end of journal_initialize: count and rindex are taken from jentry and
\* rfd is moved to rindex.
JournalLoad ==
    /\ pc = "load"
    /\ count' = jent.count /\ rindex' = jent.rindex /\ rpos' = jent.rindex
    /\ pc' = "idle"
    /\ UNCHANGED <<disk, jpos, transaction, ret, jent, cur, app, hist>>

\* prelude_failover_enable_transaction, prelude_failover_disable_transaction.
SetTransaction ==
    /\ pc = "idle" /\ ~ flushing
    /\ \E b \in Modes : b # transaction /\ transaction' = b
    /\ UNCHANGED <<disk, count, rindex, rpos, jpos, call, app, hist>>

-----------------------------------------------------------------------------
(* journal_write: one write of an entry at the current journal offset. *)

\* Back to the caller.  When it is save_msg, the last fragment of the message
\* saved last (next - 1) has been accepted.
Return ==
    /\ pc' = IF ret = "saved" THEN "idle" ELSE ret
    /\ acked' = IF ret = "saved" THEN acked \cup {next - 1} ELSE acked

journal_write ==
    /\ pc = "journal"
    /\ journal' = WriteAt(journal, jpos, Entry(count, rindex))
    /\ jpos' = jpos + 2
    /\ Return
    /\ UNCHANGED <<data, count, rindex, rpos, transaction, ret, jent, cur, app,
                   delivered, crashes, exposed>>

\* Half an entry gets to the disk.  The error is not looked at by any caller:
\* the process goes on, with the journal offset inside an entry.
JournalShort ==
    /\ pc = "journal" /\ "short_journal" \in Faults
    /\ journal' = WriteAt(journal, jpos, <<Half(1, count, rindex)>>)
    /\ jpos' = jpos + 1
    /\ Return
    /\ UNCHANGED <<data, count, rindex, rpos, transaction, ret, jent, cur, app,
                   delivered, crashes, exposed>>

-----------------------------------------------------------------------------
(* truncate_failover: the data file, the journal, then the offsets, the    *)
(* counters and a first journal entry.                                     *)

TruncateData ==
    /\ pc = "truncate_data"
    /\ data' = <<>>
    /\ pc' = "truncate_journal"
    /\ UNCHANGED <<journal, handle, ret, jent, cur, app, hist>>

TruncateJournal ==
    /\ pc = "truncate_journal"
    /\ journal' = <<>> /\ jpos' = 0
    /\ rpos' = 0 /\ count' = 0 /\ rindex' = 0
    /\ pc' = "journal"
    /\ UNCHANGED <<data, transaction, ret, jent, cur, app, hist>>

-----------------------------------------------------------------------------
(* prelude_failover_save_msg, as called for the fragments of a message. *)

LastPart == part + 1 = Parts[next]

\* The caller goes on to the next fragment, or to the next message.
Advance ==
    /\ next' = IF LastPart THEN next + 1 ELSE next
    /\ part' = IF LastPart THEN 0 ELSE part + 1

\* The record is appended (wfd is O_APPEND).  A fragment is not counted: only
\* the last record of a message updates count and the journal.
prelude_failover_save_msg ==
    /\ pc = "idle" /\ ~ flushing
    /\ next \in Msgs
    /\ Len(data) + 1 + Body <= MaxUnits
    /\ data' = data \o Record(next, part)
    /\ Advance
    /\ IF LastPart
       THEN /\ count' = count + 1
            /\ pc' = "journal" /\ ret' = "saved"
       ELSE UNCHANGED <<count, pc, ret>>
    /\ UNCHANGED <<journal, rindex, rpos, jpos, transaction, jent, cur,
                   flushing, hist>>

\* prelude_msg_write fails after n units: they stay in the file, the message
\* is not counted and the caller only logs the error.
SaveShort ==
    /\ pc = "idle" /\ ~ flushing /\ "short_data" \in Faults
    /\ next \in Msgs
    /\ Len(data) + 1 + Body <= MaxUnits
    /\ \E n \in 0 .. Body : data' = data \o SubSeq(Record(next, part), 1, n)
    /\ Advance
    /\ UNCHANGED <<journal, handle, call, flushing, hist>>

-----------------------------------------------------------------------------
(* failover_flush of the connection pool, and prelude_failover_get_saved_msg *)

\* Mutant: the last available message does not start a flush.
FlushOffByOne ==
    /\ pc = "idle" /\ ~ flushing
    /\ transaction \in Modes
    /\ count > 1
    /\ flushing' = TRUE
    /\ UNCHANGED <<disk, handle, call, next, part, hist>>

\* A connection is back: nothing is done unless messages are available.
failover_flush ==
    /\ pc = "idle" /\ ~ flushing
    /\ transaction \in Modes
    /\ count > 0
    /\ flushing' = TRUE
    /\ UNCHANGED <<disk, handle, call, next, part, hist>>

\* Mutant: *msg is not reset before the read.
GetSavedNoReset ==
    /\ pc = "idle" /\ flushing
    /\ pc' = "read"
    /\ UNCHANGED <<disk, handle, ret, jent, cur, app, hist>>

\* prelude_failover_get_saved_msg starts to read a new message.
prelude_failover_get_saved_msg ==
    /\ pc = "idle" /\ flushing
    /\ cur' = <<>>
    /\ pc' = "read"
    /\ UNCHANGED <<disk, handle, ret, jent, app, hist>>

\* A whole record can be read at rpos.
Readable ==
    /\ rpos < Len(data)
    /\ data[rpos + 1].kind = "H"
    /\ rpos + 1 + data[rpos + 1].n <= Len(data)

\* Mutant: the message is committed although transactions are enabled.
ReadRecordCommitted ==
    /\ pc = "read" /\ Readable
    /\ LET h == data[rpos + 1]
       IN  /\ cur' = cur \o SubSeq(data, rpos + 2, rpos + 1 + h.n)
           /\ rpos' = rpos + 1 + h.n
           /\ pc' = IF h.frag THEN "read" ELSE "commit"
    /\ UNCHANGED <<disk, count, rindex, jpos, transaction, ret, jent, app, hist>>

\* prelude_msg_read of one record.  A fragment makes it go on with the next
\* record; otherwise the message is complete, and is committed at once unless
\* the caller asked for transactions.
ReadRecord ==
    /\ pc = "read" /\ Readable
    /\ LET h == data[rpos + 1]
       IN  /\ cur' = cur \o SubSeq(data, rpos + 2, rpos + 1 + h.n)
           /\ rpos' = rpos + 1 + h.n
           /\ pc' = IF h.frag THEN "read"
                    ELSE IF transaction THEN "got" ELSE "commit"
    /\ UNCHANGED <<disk, count, rindex, jpos, transaction, ret, jent, app, hist>>

\* Mutant: the loop is not left at the end of the file.
ReadFailsNoBreak ==
    /\ pc = "read" /\ ~ Readable
    /\ cur' = <<>>
    /\ pc' = "truncate_data" /\ ret' = "idle"
    /\ UNCHANGED <<disk, handle, jent, app, hist>>

\* End of file (at a record boundary or inside a record) or a header that
\* makes no sense: everything is truncated and the flush loop ends.
ReadFails ==
    /\ pc = "read" /\ ~ Readable
    /\ cur' = <<>>
    /\ flushing' = FALSE
    /\ pc' = "truncate_data" /\ ret' = "idle"
    /\ UNCHANGED <<disk, handle, jent, next, part, hist>>

\* Mutant: count is decremented below zero.
CommitUnguarded ==
    /\ pc = "commit"
    /\ count' = count - 1
    /\ rindex' = rindex + GetLen(cur)
    /\ pc' = "journal"
    /\ ret' = IF transaction THEN "idle" ELSE "got"
    /\ UNCHANGED <<disk, rpos, jpos, transaction, jent, cur, app, hist>>

\* prelude_failover_commit: called by get_saved_msg before the message is
\* handed out, or by the caller afterwards when transactions are enabled.
prelude_failover_commit ==
    /\ pc = "commit"
    /\ count' = IF count > 0 THEN count - 1 ELSE 0
    /\ rindex' = rindex + GetLen(cur)
    /\ pc' = "journal"
    /\ ret' = IF transaction THEN "idle" ELSE "got"
    /\ UNCHANGED <<disk, rpos, jpos, transaction, jent, cur, app, hist>>

\* do_send succeeded.
Deliver ==
    /\ pc = "got"
    /\ delivered' = Append(delivered, cur)
    /\ pc' = IF transaction THEN "commit" ELSE "idle"
    /\ UNCHANGED <<disk, handle, ret, jent, cur, app, acked, crashes, exposed>>

\* Mutant: the message is saved again but not counted.
SendFailsUncounted ==
    /\ pc = "got" /\ ~ transaction
    /\ Len(data) + GetLen(cur) <= MaxUnits
    /\ data' = data \o Rewritten(cur)
    /\ flushing' = FALSE
    /\ pc' = "journal" /\ ret' = "idle"
    /\ UNCHANGED <<journal, count, rindex, rpos, jpos, transaction, jent, cur,
                   next, part, hist>>

\* do_send failed: the message is saved again, at the end of the file, and the
\* flush loop ends.
SendFails ==
    /\ pc = "got" /\ ~ transaction
    /\ Len(data) + GetLen(cur) <= MaxUnits
    /\ data' = data \o Rewritten(cur)
    /\ count' = count + 1
    /\ flushing' = FALSE
    /\ pc' = "journal" /\ ret' = "idle"
    /\ UNCHANGED <<journal, rindex, rpos, jpos, transaction, jent, cur, next,
                   part, hist>>

\* With transactions the caller gives the message back instead.
prelude_failover_rollback ==
    /\ pc = "got" /\ transaction
    /\ rpos' = rpos - GetLen(cur)
    /\ flushing' = FALSE
    /\ pc' = "idle"
    /\ UNCHANGED <<disk, count, rindex, jpos, transaction, ret, jent, cur,
                   next, part, hist>>

-----------------------------------------------------------------------------
(* Crashes.  The rest of a message that was being saved is never written.  *)

Crash ==
    /\ "crash" \in Faults /\ crashes < MaxCrashes
    /\ pc \notin {"down", "failed"}
    /\ count' = 0 /\ rindex' = 0 /\ rpos' = 0 /\ jpos' = 0
    /\ transaction' = FALSE
    /\ pc' = "down" /\ ret' = "down" /\ jent' = ZeroEntry /\ cur' = <<>>
    /\ next' = IF part > 0 THEN next + 1 ELSE next
    /\ part' = 0 /\ flushing' = FALSE
    /\ crashes' = crashes + 1
    /\ exposed' = IF flushing /\ ~ transaction THEN exposed + 1 ELSE exposed
    /\ UNCHANGED <<disk, acked, delivered>>

-----------------------------------------------------------------------------

Step ==
    \/ prelude_failover_new \/ JournalLoad \/ SetTransaction
    \/ journal_write \/ TruncateData \/ TruncateJournal
    \/ prelude_failover_get_saved_msg \/ ReadRecord \/ ReadFails
    \/ prelude_failover_commit

Next ==
    \/ Step
    \/ prelude_failover_save_msg \/ failover_flush
    \/ Deliver \/ SendFails \/ prelude_failover_rollback
    \/ JournalShort \/ SaveShort \/ Crash

Spec == Init /\ [][Next]_vars

\* Calls run to their end, the process is restarted, the application keeps
\* producing, the pool flushes whenever a connection comes back, and a
\* manager that is asked again and again ends up accepting a message.
Fairness ==
    /\ WF_vars(Step)
    /\ WF_vars(prelude_failover_save_msg)
    /\ SF_vars(failover_flush)
    /\ WF_vars(Deliver \/ SendFails \/ prelude_failover_rollback)
    /\ SF_vars(Deliver)

FairSpec == Spec /\ Fairness

-----------------------------------------------------------------------------
(* Properties. *)

\* Every variable has its type.
TypeOK ==
    /\ data \in Seq(Units) /\ journal \in Seq(HalfEntries)
    /\ count \in Nat /\ rindex \in Nat /\ rpos \in Nat /\ jpos \in Nat
    /\ transaction \in BOOLEAN
    /\ pc \in {"down", "failed", "load", "idle", "journal", "truncate_data",
               "truncate_journal", "read", "commit", "got"}
    /\ ret \in {"down", "load", "idle", "saved", "got"}
    /\ jent \in [count : Nat, rindex : Nat]
    /\ cur \in Seq(Units)
    /\ next \in 1 .. MaxMsg + 1 /\ part \in Nat /\ flushing \in BOOLEAN
    /\ acked \in SUBSET Msgs /\ delivered \in Seq(Seq(Units)) /\ crashes \in Nat
    /\ exposed \in Nat

\* What recovery would start from if the process died now: the read index of
\* the last usable journal entry.
DurableRindex ==
    LET valid == ValidEntries
    IN  EntryAt(CHOOSE k \in valid : \A l \in valid : l <= k).rindex

\* Where the records of file d start that come after offset pos.
Starts(d, pos) == {i \in pos + 1 .. Len(d) : d[i].kind = "H"}

\* The place of j among the numbers in S, and the number at place i.
Rank(S, j) == Cardinality({k \in S : k <= j})
Nth(S, i)  == CHOOSE j \in S : Rank(S, j) = i

\* The messages of those records, in order.
Queued(d, pos) ==
    LET S == Starts(d, pos)
    IN  [i \in 1 .. Cardinality(S) |-> d[Nth(S, i)].msg]

RecordsAfter(pos) == Queued(data, pos)

\* The queue as recovery would see it: data without journal is dropped.
DurableQueue ==
    IF ValidEntries = {} THEN <<>> ELSE RecordsAfter(DurableRindex)

RangeOf(s) == {s[i] : i \in 1 .. Len(s)}

\* The messages a manager got in full.
DeliveredMsgs == {m \in Msgs : Whole(m) \in RangeOf(delivered)}

\* The message in the hands of the caller.
InHand == {m \in Msgs : pc = "got" /\ cur = Whole(m)}

Safe == DeliveredMsgs \cup RangeOf(DurableQueue) \cup InHand

\* The read offset, and the read index any recovery may start from, are never
\* in the middle of a record: a record is never parsed from its inside.
Aligned ==
    /\ pc \in {"idle", "read"} /\ rpos < Len(data) => data[rpos + 1].kind = "H"
    /\ \A k \in ValidEntries :
          IsLastValid(k) /\ EntryAt(k).rindex < Len(data)
              => data[EntryAt(k).rindex + 1].kind = "H"

\* What reaches a manager is a message that was saved, all of it and nothing
\* else.
DeliveredWhole == \A i \in 1 .. Len(delivered) : \E m \in Msgs : delivered[i] = Whole(m)

\* A message save_msg accepted is, at every moment and across crashes, either
\* delivered or found again by recovery.  Outside of a transaction it is
\* committed before it is delivered: a crash during a flush may lose it, but
\* only that one; with transactions no crash loses anything.
LossBounded == Cardinality(acked \ Safe) <= exposed

\* Without crashes count is exact: no saved message is left unannounced.
CountExact ==
    pc = "idle" /\ crashes = 0 => count = Len(RecordsAfter(rindex))

\* Recovery copes with whatever a crash left on the disk.
RecoveryOpens == pc # "failed"

\* The promise of FailoverQueue: the queue is what recovery would find, the
\* message in hand is the one between get_saved_msg and its outcome.
Queue == INSTANCE FailoverQueue WITH
    queue <- DurableQueue,
    held <- IF pc = "got" THEN cur[1].msg ELSE NoMsg,
    delivered <- [i \in 1 .. Len(delivered) |-> delivered[i][1].msg]

\* The failover implements the FIFO queue of FailoverQueue.
ImplementsQueue == Queue!Spec

\* What save_msg accepted is delivered in the end, unless the process dies.
AckedDelivered == \A m \in Msgs : (m \in acked) ~> (m \in DeliveredMsgs \/ crashes > 0)

\* The flush loop ends, whatever it finds in the files.
FlushEnds == flushing ~> ~ flushing

=============================================================================
