-------------------------------- MODULE Ident --------------------------------
(***************************************************************************)
(* The identifiers of src/prelude-ident.c: a timestamp in units of 100 ns, *)
(* of which the clock gives every tenth, the ones between being told apart *)
(* by a counter, and a clock sequence.                                     *)
(***************************************************************************)
EXTENDS Integers, Sequences

CONSTANTS
    UUIDS_PER_TICK,  \* units per microsecond, and identifiers per microsecond
    TimeOffset,      \* UUID_TIMEOFFSET
    ClockSeq,        \* number of clock sequences: 2^14 in the code
    MaxClock,        \* bound on the clock, in microseconds
    MaxIdents        \* bound on the number of identifiers

VARIABLES
    clock,     \* gettimeofday, in microseconds
    last, tick, clockseq,
    idents     \* history: what was generated, in order, and its counter

vars == <<clock, last, tick, clockseq, idents>>

get_system_time == UUIDS_PER_TICK * clock + TimeOffset

\* prelude_ident_new: the clock sequence is random.
Init ==
    /\ clock = 0 /\ idents = <<>>
    /\ last = 0 /\ tick = 0
    /\ clockseq \in 0 .. ClockSeq - 1

\* Spins, that is, waits for the clock, when the counter is at its limit.
get_current_time ==
    \/ get_system_time # last /\ last' = get_system_time /\ tick' = 0
    \/ get_system_time = last /\ tick < UUIDS_PER_TICK /\ tick' = tick + 1 /\ UNCHANGED last

\* uuidgen compares the timestamp with the `last' that get_current_time has
\* just stored.
uuidgen ==
    LET timestamp == last' + tick'
    IN  /\ get_current_time
        /\ clockseq' = IF timestamp < last' THEN (clockseq + 1) % ClockSeq ELSE clockseq
        /\ idents' = Append(idents, [time |-> timestamp, seq |-> clockseq', tick |-> tick'])

prelude_ident_generate ==
    /\ Len(idents) < MaxIdents
    /\ uuidgen
    /\ UNCHANGED clock

\* Time passes.
Tick ==
    /\ clock < MaxClock
    /\ clock' = clock + 1
    /\ UNCHANGED <<last, tick, clockseq, idents>>

Next == prelude_ident_generate \/ Tick

Spec == Init /\ [][Next]_vars

-----------------------------------------------------------------------------

\* No two identifiers of an analyzer are equal, and a later one is greater:
\* get_current_time gives as many timestamps per microsecond as there are
\* units in it, and waits for the next one then.
Increasing ==
    \A i, j \in 1 .. Len(idents) : i < j => idents[i].time < idents[j].time

\* What get_current_time does guarantee, at any speed: identifiers grow, except
\* that the last one a microsecond has room for, the counter being at
\* UUIDS_PER_TICK, may equal the one that follows it, the first of the next
\* microsecond.  No other two are equal.
IncreasingButForTheLast ==
    \A i, j \in 1 .. Len(idents) : i < j =>
        \/ idents[i].time < idents[j].time
        \/ /\ idents[i].time = idents[j].time /\ j = i + 1
           /\ idents[i].tick = UUIDS_PER_TICK /\ idents[j].tick = 0
=============================================================================
