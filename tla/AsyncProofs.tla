----------------------------- MODULE AsyncProofs -----------------------------
(* Proofs about Async. *)
EXTENDS Async, SequenceTheorems, TLAPS

-----------------------------------------------------------------------------
(* Sequences whose elements are distinct and come in the order of another. *)

Distinct(a) == \A i, k \in DOMAIN a : a[i] = a[k] => i = k

Ordered(l, a) ==
    \A i, k \in DOMAIN l :
        i < k => \E p, q \in DOMAIN a : p < q /\ a[p] = l[i] /\ a[q] = l[k]

\* A sequence of elements of S: their set, and the positions.
LEMMA RangeFacts ==
    ASSUME NEW S, NEW s \in Seq(S)
    PROVE  /\ ToSet(s) = {s[i] : i \in 1 .. Len(s)} /\ ToSet(s) \subseteq S
           /\ DOMAIN s = 1 .. Len(s) /\ Len(s) \in Nat
<1>1. DOMAIN s = 1 .. Len(s) /\ Len(s) \in Nat /\ \A i \in 1 .. Len(s) : s[i] \in S
  BY LenProperties, ElementOfSeq
<1> QED BY <1>1 DEF ToSet

\* What an element at the end adds.
LEMMA AppendFacts ==
    ASSUME NEW S, NEW s \in Seq(S), NEW e \in S, NEW t \in Seq(S), Len(t) = Len(s) + 1,
           t[Len(s) + 1] = e, \A i \in 1 .. Len(s) : t[i] = s[i]
    PROVE  ToSet(t) = ToSet(s) \union {e}
<1>1. /\ ToSet(s) = {s[i] : i \in 1 .. Len(s)} /\ Len(s) \in Nat
      /\ ToSet(t) = {t[i] : i \in 1 .. (Len(s) + 1)}
  BY RangeFacts
<1>2. 1 .. (Len(s) + 1) = (1 .. Len(s)) \union {Len(s) + 1}
  BY <1>1
<1> QED BY <1>1, <1>2

\* The elements of two sequences put together.
LEMMA ConcatRange ==
    ASSUME NEW S, NEW s \in Seq(S), NEW t \in Seq(S)
    PROVE  s \o t \in Seq(S) /\ ToSet(s \o t) = ToSet(s) \union ToSet(t)
<1>1. s \o t \in Seq(S) /\ Range(s \o t) = Range(s) \union Range(t)
  BY ConcatProperties, RangeConcatenation
<1>2. ASSUME NEW u \in Seq(S) PROVE ToSet(u) = Range(u)
  BY DEF ToSet, Range
<1> QED BY <1>1, <1>2

\* A new element at the end keeps the order of the others.
LEMMA AppendOrdered ==
    ASSUME NEW S, NEW a \in Seq(S), NEW l \in Seq(S), NEW e \in S, Distinct(a),
           e \notin ToSet(a), ToSet(l) \subseteq ToSet(a), Ordered(l, a)
    PROVE  Distinct(Append(a, e)) /\ Ordered(Append(l, e), Append(a, e))
<1> DEFINE b == Append(a, e)
           m == Append(l, e)
<1>1. /\ b \in Seq(S) /\ Len(b) = Len(a) + 1 /\ b[Len(a) + 1] = e
      /\ \A i \in 1 .. Len(a) : b[i] = a[i]
      /\ m \in Seq(S) /\ Len(m) = Len(l) + 1 /\ m[Len(l) + 1] = e
      /\ \A i \in 1 .. Len(l) : m[i] = l[i]
  BY AppendProperties
<1>2. /\ DOMAIN a = 1 .. Len(a) /\ DOMAIN l = 1 .. Len(l) /\ Len(a) \in Nat /\ Len(l) \in Nat
      /\ DOMAIN b = 1 .. Len(a) + 1 /\ DOMAIN m = 1 .. Len(l) + 1
  BY <1>1, RangeFacts
<1>3. \A i \in 1 .. Len(a) : a[i] # e
  BY <1>2 DEF ToSet
<1>4. \A i \in 1 .. Len(l) : \E p \in 1 .. Len(a) : a[p] = l[i]
  BY <1>2 DEF ToSet
<1> HIDE DEF b, m
<1>5. Distinct(b)
  <2> SUFFICES ASSUME NEW i \in 1 .. Len(a) + 1, NEW k \in 1 .. Len(a) + 1, b[i] = b[k]
               PROVE  i = k
    BY <1>2 DEF Distinct
  <2>1. i \in 1 .. Len(a) \/ i = Len(a) + 1
    BY <1>2
  <2>2. k \in 1 .. Len(a) \/ k = Len(a) + 1
    BY <1>2
  <2> QED BY <1>1, <1>2, <1>3, <2>1, <2>2 DEF Distinct
<1>6. Ordered(m, b)
  <2> SUFFICES ASSUME NEW i \in DOMAIN m, NEW k \in DOMAIN m, i < k
               PROVE  \E p, q \in DOMAIN b : p < q /\ b[p] = m[i] /\ b[q] = m[k]
    BY DEF Ordered
  <2>1. i \in 1 .. Len(l)
    BY <1>2
  <2>2. CASE k = Len(l) + 1
    <3>1. PICK p \in 1 .. Len(a) : a[p] = l[i]
      BY <1>4, <2>1
    <3>2. p < Len(a) + 1 /\ p \in DOMAIN b /\ Len(a) + 1 \in DOMAIN b
      BY <1>2
    <3> QED BY <1>1, <2>1, <2>2, <3>1, <3>2
  <2>3. CASE k \in 1 .. Len(l)
    <3>1. PICK p, q \in 1 .. Len(a) : p < q /\ a[p] = l[i] /\ a[q] = l[k]
      BY <1>2, <2>1, <2>3 DEF Ordered
    <3>2. p \in DOMAIN b /\ q \in DOMAIN b
      BY <1>2
    <3> QED BY <1>1, <2>1, <2>3, <3>1, <3>2
  <2> QED BY <1>2, <2>2, <2>3
<1> QED BY <1>5, <1>6 DEF b, m

\* Taking an element out of a sequence of distinct elements.
LEMMA RemoveFacts ==
    ASSUME NEW S, NEW s \in Seq(S), NEW n \in 1 .. Len(s)
    PROVE  /\ RemoveAt(s, n) \in Seq(S) /\ Len(RemoveAt(s, n)) = Len(s) - 1
           /\ \A i \in 1 .. Len(s) - 1 : RemoveAt(s, n)[i] = IF i < n THEN s[i] ELSE s[i + 1]
<1> DEFINE u == SubSeq(s, 1, n - 1)
           v == SubSeq(s, n + 1, Len(s))
<1>1. Len(s) \in Nat /\ n \in Int /\ 1 <= n /\ n <= Len(s) /\ \A i \in 1 .. Len(s) : s[i] \in S
  BY LenProperties, ElementOfSeq
<1>2. /\ u \in Seq(S) /\ Len(u) = n - 1
      /\ \A i \in 1 .. n - 1 : u[i] = s[i]
  <2>1. \A i \in 1 .. n - 1 : s[i] \in S
    BY <1>1
  <2>2. /\ u \in Seq(S) /\ Len(u) = IF 1 <= n - 1 THEN (n - 1) - 1 + 1 ELSE 0
        /\ \A i \in 1 .. (n - 1) - 1 + 1 : u[i] = s[1 + i - 1]
    BY <1>1, <2>1, SubSeqProperties
  <2>3. \A i \in 1 .. n - 1 : 1 + i - 1 = i
    BY <1>1
  <2> HIDE DEF u
  <2> QED BY <1>1, <2>2, <2>3
<1>3. /\ v \in Seq(S) /\ Len(v) = Len(s) - n
      /\ \A i \in 1 .. Len(s) - n : v[i] = s[n + i]
  <2>1. \A i \in n + 1 .. Len(s) : s[i] \in S
    BY <1>1
  <2>2. /\ v \in Seq(S) /\ Len(v) = IF n + 1 <= Len(s) THEN Len(s) - (n + 1) + 1 ELSE 0
        /\ \A i \in 1 .. Len(s) - (n + 1) + 1 : v[i] = s[n + 1 + i - 1]
    BY <1>1, <2>1, SubSeqProperties
  <2>3. \A i \in 1 .. Len(s) - n : n + 1 + i - 1 = n + i
    BY <1>1
  <2> HIDE DEF v
  <2> QED BY <1>1, <2>2, <2>3
<1>4. RemoveAt(s, n) = u \o v
  BY DEF RemoveAt
<1> HIDE DEF u, v
<1>5. /\ u \o v \in Seq(S) /\ Len(u \o v) = Len(s) - 1
      /\ \A i \in 1 .. Len(s) - 1 : (u \o v)[i] = IF i <= n - 1 THEN u[i] ELSE v[i - (n - 1)]
  <2>1. Len(u) + Len(v) = Len(s) - 1
    BY <1>1, <1>2, <1>3
  <2>2. /\ u \o v \in Seq(S) /\ Len(u \o v) = Len(u) + Len(v)
        /\ \A i \in 1 .. Len(u) + Len(v) : (u \o v)[i] = IF i <= Len(u) THEN u[i] ELSE v[i - Len(u)]
    BY <1>2, <1>3, ConcatProperties
  <2>3. Len(u) = n - 1
    BY <1>2
  <2> QED BY ONLY <2>1, <2>2, <2>3
<1>6. ASSUME NEW i \in 1 .. Len(s) - 1
      PROVE  (u \o v)[i] = IF i < n THEN s[i] ELSE s[i + 1]
  <2>1. CASE i < n
    <3>1. i <= n - 1 /\ i \in 1 .. n - 1
      BY <1>1, <2>1
    <3> QED BY <1>2, <1>5, <2>1, <3>1
  <2>2. CASE ~ (i < n)
    <3> DEFINE k == i - (n - 1)
    <3>1. ~ (i <= n - 1) /\ k \in 1 .. Len(s) - n /\ n + k = i + 1
      BY <1>1, <2>2
    <3>2. (u \o v)[i] = v[k]
      BY <1>5, <3>1
    <3> HIDE DEF k
    <3>3. v[k] = s[i + 1]
      BY <1>3, <3>1
    <3> QED BY <2>2, <3>2, <3>3
  <2> QED BY <2>1, <2>2
<1> QED BY <1>4, <1>5, <1>6

\* Taking an element away keeps the order of the others.
LEMMA RemoveOrdered ==
    ASSUME NEW S, NEW a \in Seq(S), NEW l \in Seq(S), NEW n \in 1 .. Len(l), Distinct(a),
           Ordered(l, a)
    PROVE  Ordered(RemoveAt(l, n), a) /\ ToSet(RemoveAt(l, n)) = ToSet(l) \ {l[n]}
<1> DEFINE m == RemoveAt(l, n)
           At(i) == IF i < n THEN i ELSE i + 1
<1>1. /\ Len(l) \in Nat /\ DOMAIN l = 1 .. Len(l) /\ n \in Nat /\ 1 <= n /\ n <= Len(l)
      /\ m \in Seq(S) /\ DOMAIN m = 1 .. Len(l) - 1 /\ DOMAIN a = 1 .. Len(a) /\ Len(a) \in Nat
  BY RemoveFacts, RangeFacts
<1>2. \A i \in 1 .. Len(l) - 1 : m[i] = l[At(i)]
  BY RemoveFacts
<1>3. \A i \in 1 .. Len(l) - 1 : At(i) \in 1 .. Len(l) /\ At(i) # n
  BY <1>1
<1>4. \A i, k \in 1 .. Len(l) - 1 : i < k => At(i) < At(k)
  BY <1>1
<1>5. \A i \in 1 .. Len(l) : i # n => \E k \in 1 .. Len(l) - 1 : At(k) = i
  <2> SUFFICES ASSUME NEW i \in 1 .. Len(l), i # n
               PROVE  \E k \in 1 .. Len(l) - 1 : At(k) = i
    OBVIOUS
  <2>1. CASE i < n
    <3>1. i \in 1 .. Len(l) - 1 /\ At(i) = i
      BY <1>1, <2>1
    <3> QED BY <3>1
  <2>2. CASE i > n
    <3>1. i - 1 \in 1 .. Len(l) - 1 /\ At(i - 1) = i
      BY <1>1, <2>2
    <3> QED BY <3>1
  <2> QED BY <1>1, <2>1, <2>2
<1> HIDE DEF m, At
<1>6. \A i, k \in 1 .. Len(l) : i < k => l[i] # l[k]
  <2> SUFFICES ASSUME NEW i \in 1 .. Len(l), NEW k \in 1 .. Len(l), i < k PROVE l[i] # l[k]
    OBVIOUS
  <2>0. i \in DOMAIN l /\ k \in DOMAIN l
    BY <1>1
  <2>1. PICK p, q \in DOMAIN a : p < q /\ a[p] = l[i] /\ a[q] = l[k]
    BY <2>0 DEF Ordered
  <2> QED BY <1>1, <2>1 DEF Distinct
<1>7. \A i \in 1 .. Len(l) : i # n => l[i] # l[n]
  BY <1>1, <1>6
<1>8. ToSet(m) = ToSet(l) \ {l[n]}
  <2>1. ToSet(m) = {l[At(i)] : i \in 1 .. Len(l) - 1}
    <3>1. ToSet(m) = {m[i] : i \in 1 .. Len(l) - 1}
      BY <1>1 DEF ToSet
    <3> QED BY <1>2, <3>1
  <2>2. ToSet(l) = {l[i] : i \in 1 .. Len(l)}
    BY <1>1 DEF ToSet
  <2> QED BY <1>3, <1>5, <1>7, <2>1, <2>2
<1>9. Ordered(m, a)
  <2> SUFFICES ASSUME NEW i \in DOMAIN m, NEW k \in DOMAIN m, i < k
               PROVE  \E p, q \in DOMAIN a : p < q /\ a[p] = m[i] /\ a[q] = m[k]
    BY DEF Ordered
  <2>1. At(i) \in DOMAIN l /\ At(k) \in DOMAIN l /\ At(i) < At(k)
    BY <1>1, <1>3, <1>4
  <2>2. m[i] = l[At(i)] /\ m[k] = l[At(k)]
    BY <1>1, <1>2
  <2>3. \E p, q \in DOMAIN a : p < q /\ a[p] = l[At(i)] /\ a[q] = l[At(k)]
    BY <2>1 DEF Ordered
  <2> QED BY <2>2, <2>3
<1> QED BY <1>8, <1>9 DEF m

-----------------------------------------------------------------------------
(* The inductive invariant, in the order in which its parts are proved.    *)

\* Where the thread is says whether there is one, whether it runs a job and
\* whether prelude_async_exit was called: a thread that ends was told to stop,
\* and is joined before the call returns.
Control ==
    /\ (thread = "run") <=> (obj # NoJob)
    /\ (thread # "none") <=> (is_initialized \/ caller = "returned")
    /\ thread # "none" /\ stop_processing => caller # "none"
    /\ thread = "ended" => caller # "none"
    /\ caller = "returned" => thread = "ended"

\* The history of what was added tells jobs apart, and RunInOrder.
Order ==
    /\ Distinct(added) /\ deleted \subseteq ToSet(added)
    /\ RunInOrder

\* What prelude_async_exit found is in the line until it was run; when the
\* thread has ended, it was run, although more may have been listed since.
Drain ==
    /\ caller # "none" => promised \subseteq ToSet(Line)
    /\ thread = "ended" => promised \subseteq ToSet(executed)

AsyncInv == TypeOK /\ Control /\ NoLostWakeup /\ Order /\ Drain

-----------------------------------------------------------------------------
\* Every step keeps the types.
LEMMA TypeStep == TypeOK /\ [Next]_vars => TypeOK'
<1> SUFFICES ASSUME TypeOK, [Next]_vars PROVE TypeOK'
  OBVIOUS
<1>1. CASE prelude_async_init
  BY <1>1 DEF TypeOK, prelude_async_init, shared, local, hist
<1>2. CASE prelude_async_exit
  <2>1. promised' \subseteq Jobs
    <3>1. ToSet(joblist) \subseteq Jobs /\ obj \in Jobs \union {NoJob}
      BY RangeFacts DEF TypeOK
    <3> QED BY <1>2, <3>1 DEF prelude_async_exit
  <2> QED BY <1>2, <2>1 DEF TypeOK, prelude_async_exit, Signal
<1>3. CASE Joined
  BY <1>3 DEF TypeOK, Joined, shared, local, hist
<1>4. CASE _prelude_async_fork_child
  <2>1. joblist' \in Seq(Jobs) /\ added' \in Seq(Jobs) /\ executed' \in Seq(Jobs)
    BY <1>4, EmptySeq DEF _prelude_async_fork_child
  <2>2. forks' \in Nat
    BY <1>4 DEF TypeOK, _prelude_async_fork_child
  <2>3. /\ async_flags' \in BOOLEAN /\ stop_processing' \in BOOLEAN /\ is_initialized' \in BOOLEAN
        /\ flags' \in BOOLEAN /\ expired' \in BOOLEAN
    BY <1>4, Zenon DEF TypeOK, _prelude_async_fork_child
  <2>4. /\ thread' = "none" /\ obj' = NoJob /\ caller' = "none"
        /\ deleted' = {} /\ promised' = {}
    BY <1>4 DEF _prelude_async_fork_child
  <2> QED BY <2>1, <2>2, <2>3, <2>4 DEF TypeOK
<1>5. ASSUME NEW f \in BOOLEAN, prelude_async_set_flags(f) PROVE TypeOK'
  BY <1>5 DEF TypeOK, prelude_async_set_flags, Signal, shared, local, hist
<1>6. ASSUME NEW j \in Jobs, prelude_async_add(j) PROVE TypeOK'
  <2>1. joblist' \in Seq(Jobs) /\ added' \in Seq(Jobs)
    BY <1>6, AppendProperties DEF TypeOK, prelude_async_add
  <2> QED BY <1>6, <2>1 DEF TypeOK, prelude_async_add, Signal
<1>7. ASSUME NEW j \in Jobs, prelude_async_del(j) PROVE TypeOK'
  <2>1. joblist' \in Seq(Jobs)
    <3>1. PICK i \in DOMAIN joblist : joblist' = RemoveAt(joblist, i)
      BY <1>7 DEF prelude_async_del
    <3>2. i \in 1 .. Len(joblist) /\ joblist \in Seq(Jobs)
      BY RangeFacts DEF TypeOK
    <3> QED BY <3>1, <3>2, RemoveFacts
  <2> QED BY <1>7, <2>1 DEF TypeOK, prelude_async_del, local
<1>8. CASE async_thread
  BY <1>8 DEF TypeOK, async_thread, shared, local, hist
<1>9. CASE Loop
  BY <1>9 DEF TypeOK, Loop, shared, local, hist
<1>10. CASE wait_data
  BY <1>10 DEF TypeOK, wait_data, shared, local, hist
<1>11. CASE wait_timer_and_data
  BY <1>11 DEF TypeOK, wait_timer_and_data, Leave, shared, local, hist
<1>12. CASE Timeout
  BY <1>12 DEF TypeOK, Timeout, Leave, shared, local, hist
<1>13. CASE WakeUpTimers
  BY <1>13 DEF TypeOK, WakeUpTimers, shared, local, hist
<1>14. CASE get_next_job
  <2>1. CASE joblist = <<>>
    BY <1>14, <2>1 DEF TypeOK, get_next_job, hist
  <2>2. CASE joblist # <<>>
    <3>1. Head(joblist) \in Jobs /\ Tail(joblist) \in Seq(Jobs)
      BY <2>2, HeadTailProperties DEF TypeOK
    <3> QED BY <1>14, <2>2, <3>1, JobsAssumption DEF TypeOK, get_next_job, hist
  <2> QED BY <2>1, <2>2
<1>15. CASE JobDone
  <2>1. executed' \in Seq(Jobs)
    <3>1. obj \in Jobs /\ executed \in Seq(Jobs) /\ executed' = Append(executed, obj)
      BY <1>15 DEF TypeOK, JobDone
    <3> QED BY <3>1, AppendProperties
  <2> QED BY <1>15, <2>1 DEF TypeOK, JobDone, shared
<1>16. CASE Second
  BY <1>16 DEF TypeOK, Second, shared, local, hist
<1>17. CASE Spurious
  BY <1>17 DEF TypeOK, Spurious, Signal, shared, local, hist
<1>18. CASE UNCHANGED vars
  BY <1>18 DEF TypeOK, vars, shared, local, hist, shared, local, hist
<1> QED BY <1>1, <1>2, <1>3, <1>4, <1>5, <1>6, <1>7, <1>8, <1>9, <1>10, <1>11, <1>12, <1>13, <1>14, <1>15, <1>16, <1>17, <1>18 DEF Next, Application, Thread

\* Every step keeps where the threads are and who has the mutex.
LEMMA ControlStep == TypeOK /\ Control /\ [Next]_vars => Control'
<1> SUFFICES ASSUME TypeOK, Control, [Next]_vars PROVE Control'
  OBVIOUS
<1>1. CASE prelude_async_init
  BY <1>1 DEF TypeOK, Control, prelude_async_init, shared, local, hist
<1>2. CASE prelude_async_exit
  BY <1>2 DEF TypeOK, Control, prelude_async_exit, Signal, shared, local, hist
<1>3. CASE Joined
  BY <1>3 DEF TypeOK, Control, Joined, shared, local, hist
<1>4. CASE _prelude_async_fork_child
  BY <1>4 DEF TypeOK, Control, _prelude_async_fork_child, shared, local, hist
<1>5. ASSUME NEW f \in BOOLEAN, prelude_async_set_flags(f) PROVE Control'
  BY <1>5 DEF TypeOK, Control, prelude_async_set_flags, Signal, shared, local, hist
<1>6. ASSUME NEW j \in Jobs, prelude_async_add(j) PROVE Control'
  BY <1>6 DEF TypeOK, Control, prelude_async_add, Signal, shared, local, hist
<1>7. ASSUME NEW j \in Jobs, prelude_async_del(j) PROVE Control'
  BY <1>7 DEF TypeOK, Control, prelude_async_del, shared, local, hist
<1>8. CASE async_thread
  BY <1>8 DEF TypeOK, Control, async_thread, shared, local, hist
<1>9. CASE Loop
  BY <1>9 DEF TypeOK, Control, Loop, shared, local, hist
<1>10. CASE wait_data
  BY <1>10 DEF TypeOK, Control, wait_data, shared, local, hist
<1>11. CASE wait_timer_and_data
  BY <1>11 DEF TypeOK, Control, wait_timer_and_data, Leave, shared, local, hist
<1>12. CASE Timeout
  BY <1>12 DEF TypeOK, Control, Timeout, Leave, shared, local, hist
<1>13. CASE WakeUpTimers
  BY <1>13 DEF TypeOK, Control, WakeUpTimers, shared, local, hist
<1>14. CASE get_next_job
  <2>1. CASE joblist = <<>>
    BY <1>14, <2>1 DEF TypeOK, Control, get_next_job, hist
  <2>2. CASE joblist # <<>>
    <3>1. Head(joblist) \in Jobs
      BY <2>2, HeadTailProperties DEF TypeOK
    <3> QED BY <1>14, <2>2, <3>1, JobsAssumption DEF TypeOK, Control, get_next_job, hist
  <2> QED BY <2>1, <2>2
<1>15. CASE JobDone
  BY <1>15 DEF TypeOK, Control, JobDone, shared, local, hist
<1>16. CASE Second
  BY <1>16 DEF TypeOK, Control, Second, shared, local, hist
<1>17. CASE Spurious
  BY <1>17 DEF TypeOK, Control, Spurious, Signal, shared, local, hist
<1>18. CASE UNCHANGED vars
  BY <1>18 DEF TypeOK, Control, vars, shared, local, hist, shared, local, hist
<1> QED BY <1>1, <1>2, <1>3, <1>4, <1>5, <1>6, <1>7, <1>8, <1>9, <1>10, <1>11, <1>12, <1>13, <1>14, <1>15, <1>16, <1>17, <1>18 DEF Next, Application, Thread

\* Every step keeps the condition signalled while jobs wait.
LEMMA WakeupStep == NoLostWakeup /\ [Next]_vars => NoLostWakeup'
<1> SUFFICES ASSUME NoLostWakeup, [Next]_vars PROVE NoLostWakeup'
  OBVIOUS
<1>1. CASE prelude_async_init
  BY <1>1 DEF NoLostWakeup, Nothing, prelude_async_init, shared, local, hist
<1>2. CASE prelude_async_exit
  BY <1>2 DEF NoLostWakeup, Nothing, prelude_async_exit, Signal, shared, local, hist
<1>3. CASE Joined
  BY <1>3 DEF NoLostWakeup, Nothing, Joined, shared, local, hist
<1>4. CASE _prelude_async_fork_child
  BY <1>4 DEF NoLostWakeup, Nothing, _prelude_async_fork_child, shared, local, hist
<1>5. ASSUME NEW f \in BOOLEAN, prelude_async_set_flags(f) PROVE NoLostWakeup'
  BY <1>5 DEF NoLostWakeup, Nothing, prelude_async_set_flags, Signal, shared, local, hist
<1>6. ASSUME NEW j \in Jobs, prelude_async_add(j) PROVE NoLostWakeup'
  BY <1>6 DEF NoLostWakeup, Nothing, prelude_async_add, Signal, shared, local, hist
<1>7. ASSUME NEW j \in Jobs, prelude_async_del(j) PROVE NoLostWakeup'
  BY <1>7 DEF NoLostWakeup, Nothing, prelude_async_del, shared, local, hist
<1>8. CASE async_thread
  BY <1>8 DEF NoLostWakeup, Nothing, async_thread, shared, local, hist
<1>9. CASE Loop
  BY <1>9 DEF NoLostWakeup, Nothing, Loop, shared, local, hist
<1>10. CASE wait_data
  BY <1>10 DEF NoLostWakeup, Nothing, wait_data, shared, local, hist
<1>11. CASE wait_timer_and_data
  BY <1>11 DEF NoLostWakeup, Nothing, wait_timer_and_data, Leave, shared, local, hist
<1>12. CASE Timeout
  BY <1>12 DEF NoLostWakeup, Nothing, Timeout, Leave, shared, local, hist
<1>13. CASE WakeUpTimers
  BY <1>13 DEF NoLostWakeup, Nothing, WakeUpTimers, shared, local, hist
<1>14. CASE get_next_job
  BY <1>14 DEF NoLostWakeup, Nothing, get_next_job, shared, local, hist
<1>15. CASE JobDone
  BY <1>15 DEF NoLostWakeup, Nothing, JobDone, shared, local, hist
<1>16. CASE Second
  BY <1>16 DEF NoLostWakeup, Nothing, Second, shared, local, hist
<1>17. CASE Spurious
  BY <1>17 DEF NoLostWakeup, Nothing, Spurious, Signal, shared, local, hist
<1>18. CASE UNCHANGED vars
  BY <1>18 DEF NoLostWakeup, Nothing, vars, shared, local, hist, shared, local, hist
<1> QED BY <1>1, <1>2, <1>3, <1>4, <1>5, <1>6, <1>7, <1>8, <1>9, <1>10, <1>11, <1>12, <1>13, <1>14, <1>15, <1>16, <1>17, <1>18 DEF Next, Application, Thread

-----------------------------------------------------------------------------
(* How the line changes.                                                   *)

Running == IF obj = NoJob THEN <<>> ELSE <<obj>>

\* The jobs in line are jobs.
LEMMA LineType ==
    ASSUME TypeOK
    PROVE  /\ Running \in Seq(Jobs) /\ executed \o Running \in Seq(Jobs) /\ Line \in Seq(Jobs)
           /\ Line = (executed \o Running) \o joblist
           /\ ToSet(Line) = ToSet(executed) \union ToSet(Running) \union ToSet(joblist)
           /\ ToSet(Running) = {obj} \ {NoJob}
<1>1. executed \in Seq(Jobs) /\ joblist \in Seq(Jobs) /\ obj \in Jobs \union {NoJob}
  BY DEF TypeOK
<1>2. Running \in Seq(Jobs)
  BY <1>1 DEF Running
<1>3. Line = (executed \o Running) \o joblist
  BY DEF Line, Running
<1>4. ToSet(Running) = {obj} \ {NoJob}
  <2>1. CASE obj = NoJob
    <3>1. Running = <<>> /\ DOMAIN <<>> = {}
      BY <2>1 DEF Running
    <3> QED BY <2>1, <3>1 DEF ToSet
  <2>2. CASE obj # NoJob
    <3>1. Running = <<obj>> /\ DOMAIN <<obj>> = {1} /\ <<obj>>[1] = obj
      BY <2>2 DEF Running
    <3> QED BY <2>2, <3>1 DEF ToSet
  <2> QED BY <2>1, <2>2
<1>5. /\ executed \o Running \in Seq(Jobs)
      /\ ToSet(executed \o Running) = ToSet(executed) \union ToSet(Running)
  BY <1>1, <1>2, ConcatRange
<1>6. /\ Line \in Seq(Jobs)
      /\ ToSet(Line) = ToSet(executed \o Running) \union ToSet(joblist)
  <2> DEFINE x == executed \o Running
  <2>1. x \in Seq(Jobs) /\ Line = x \o joblist
    BY <1>3, <1>5
  <2> HIDE DEF x
  <2>2. Line \in Seq(Jobs) /\ ToSet(Line) = ToSet(x) \union ToSet(joblist)
    BY <1>1, <2>1, ConcatRange
  <2> QED BY <2>2 DEF x
<1> QED BY <1>2, <1>3, <1>4, <1>5, <1>6

\* A job that is taken from the list, and one that was run, keep their place.
LEMMA LineTake ==
    ASSUME TypeOK, Control, get_next_job
    PROVE  Line' = Line
<1>1. executed \in Seq(Jobs) /\ joblist \in Seq(Jobs) /\ executed' = executed /\ obj = NoJob
  BY DEF TypeOK, Control, get_next_job, hist
<1>2. CASE joblist = <<>>
  BY <1>1, <1>2 DEF get_next_job, Line
<1>3. CASE joblist # <<>>
  <2> DEFINE h == Head(joblist)
             r == Tail(joblist)
  <2>1. obj' = h /\ joblist' = r /\ h \in Jobs /\ r \in Seq(Jobs) /\ h # NoJob
    BY <1>1, <1>3, HeadTailProperties, JobsAssumption DEF get_next_job
  <2>2. Line = executed \o joblist
    BY <1>1, ConcatEmptySeq DEF Line
  <2>3. Line' = (executed \o <<h>>) \o r
    BY <1>1, <2>1 DEF Line
  <2>4. <<h>> \in Seq(Jobs)
    BY <2>1
  <2>5. Line' = executed \o (<<h>> \o r)
    <3>1. \A s, t, u \in Seq(Jobs) : (s \o t) \o u = s \o (t \o u)
      BY ONLY ConcatAssociative
    <3> QED BY ONLY <1>1, <2>1, <2>3, <2>4, <3>1, ZenonT(60)
  <2>6. <<h>> \o r = joblist
    <3>1. PICK l \in Seq(Jobs) : l = joblist
      BY <1>1
    <3>2. l # <<>> => <<Head(l)>> \o Tail(l) = l
      BY ONLY l \in Seq(Jobs), SMTT(60)
    <3> QED BY <1>3, <3>1, <3>2
  <2> QED BY <2>2, <2>5, <2>6
<1> QED BY <1>2, <1>3

\* A job that is finished stays where it was in the line.
LEMMA LineDone ==
    ASSUME TypeOK, Control, JobDone
    PROVE  Line' = Line
<1>1. /\ executed \in Seq(Jobs) /\ joblist' = joblist /\ obj \in Jobs /\ obj # NoJob
      /\ executed' = Append(executed, obj) /\ obj' = NoJob
  BY DEF TypeOK, Control, JobDone, shared
<1>2. Append(executed, obj) \in Seq(Jobs) /\ Append(executed, obj) = executed \o <<obj>>
  BY <1>1, AppendProperties, AppendIsConcat
<1>3. Line' = (executed \o <<obj>>) \o <<>> \o joblist
  BY <1>1, <1>2 DEF Line
<1>4. Line = (executed \o <<obj>>) \o joblist
  BY <1>1 DEF Line
<1> QED BY <1>2, <1>3, <1>4, ConcatEmptySeq

\* A job that is added is the last in line.
LEMMA LineAdd ==
    ASSUME TypeOK, NEW j \in Jobs, prelude_async_add(j)
    PROVE  Line' = Append(Line, j) /\ ToSet(Line') = ToSet(Line) \union {j}
<1> DEFINE x == executed \o Running
<1>1. /\ joblist' = Append(joblist, j) /\ executed' = executed /\ obj' = obj
      /\ joblist \in Seq(Jobs)
  BY DEF TypeOK, prelude_async_add
<1>2. x \in Seq(Jobs) /\ Line \in Seq(Jobs) /\ Line = x \o joblist
  BY LineType
<1>3. Line' = x \o Append(joblist, j)
  BY <1>1 DEF Line, Running
<1> HIDE DEF x
<1>4. Append(joblist, j) = joblist \o <<j>> /\ Append(Line, j) = Line \o <<j>> /\ <<j>> \in Seq(Jobs)
  BY <1>1, <1>2, AppendIsConcat
<1>5. x \o (joblist \o <<j>>) = (x \o joblist) \o <<j>>
  BY <1>1, <1>2, <1>4, ConcatAssociative
<1>6. Line' = Append(Line, j)
  BY <1>2, <1>3, <1>4, <1>5
<1>7. ToSet(joblist') = ToSet(joblist) \union {j} /\ joblist' \in Seq(Jobs)
  <2>1. /\ joblist' \in Seq(Jobs) /\ Len(joblist') = Len(joblist) + 1
        /\ joblist'[Len(joblist) + 1] = j
        /\ \A i \in 1 .. Len(joblist) : joblist'[i] = joblist[i]
    BY <1>1, AppendProperties
  <2>2. ToSet(joblist') = ToSet(joblist) \union {j}
    <3>1. joblist \in Seq(Jobs)
      BY <1>1
    <3> QED BY <2>1, <3>1, AppendFacts
  <2> QED BY <2>1, <2>2
<1>8. ToSet(Line') = ToSet(Line) \union {j}
  <2>1. ToSet(x \o joblist) = ToSet(x) \union ToSet(joblist)
    BY <1>1, <1>2, ConcatRange
  <2>2. ToSet(x \o joblist') = ToSet(x) \union ToSet(joblist')
    BY <1>2, <1>7, ConcatRange
  <2>3. Line' = x \o joblist'
    BY <1>1, <1>3
  <2> QED BY <1>2, <1>7, <2>1, <2>2, <2>3
<1> QED BY <1>6, <1>8

\* Taking an element out of the end of a sequence takes it out of the sequence.
LEMMA RemoveConcat ==
    ASSUME NEW S, NEW x \in Seq(S), NEW s \in Seq(S), NEW i \in 1 .. Len(s)
    PROVE  /\ Len(x) + i \in 1 .. Len(x \o s) /\ (x \o s)[Len(x) + i] = s[i]
           /\ x \o RemoveAt(s, i) = RemoveAt(x \o s, Len(x) + i)
<1> DEFINE t == RemoveAt(s, i)
           y == x \o s
           n == Len(x) + i
<1>1. Len(x) \in Nat /\ Len(s) \in Nat /\ i \in Nat /\ 1 <= i /\ i <= Len(s)
  BY LenProperties
<1>2. /\ y \in Seq(S) /\ Len(y) = Len(x) + Len(s)
      /\ \A k \in 1 .. Len(x) + Len(s) : y[k] = IF k <= Len(x) THEN x[k] ELSE s[k - Len(x)]
  BY ConcatProperties
<1> HIDE DEF y
<1>3. n \in 1 .. Len(y) /\ ~ (n <= Len(x)) /\ n - Len(x) = i
  BY <1>1, <1>2
<1>4. y[n] = s[i]
  BY <1>1, <1>2, <1>3
<1>5. /\ t \in Seq(S) /\ Len(t) = Len(s) - 1
      /\ \A k \in 1 .. Len(s) - 1 : t[k] = IF k < i THEN s[k] ELSE s[k + 1]
  BY RemoveFacts
<1> HIDE DEF t
<1>6. /\ x \o t \in Seq(S) /\ Len(x \o t) = Len(x) + Len(t)
      /\ \A k \in 1 .. Len(x) + Len(t) : (x \o t)[k] = IF k <= Len(x) THEN x[k] ELSE t[k - Len(x)]
  BY <1>5, ConcatProperties
<1> HIDE DEF n
<1> DEFINE z == RemoveAt(y, n)
<1>7. /\ z \in Seq(S) /\ Len(z) = Len(y) - 1
      /\ \A k \in 1 .. Len(y) - 1 : z[k] = IF k < n THEN y[k] ELSE y[k + 1]
  BY <1>2, <1>3, RemoveFacts
<1> HIDE DEF z
<1>8. ASSUME NEW k \in 1 .. Len(x) + Len(t) PROVE (x \o t)[k] = z[k]
  <2>1. k \in 1 .. Len(y) - 1 /\ k \in 1 .. Len(x) + Len(s) /\ k + 1 \in 1 .. Len(x) + Len(s)
    BY <1>1, <1>2, <1>5
  <2>2. CASE k <= Len(x)
    <3>1. k < n
      BY <1>1, <2>2 DEF n
    <3> QED BY <1>2, <1>6, <1>7, <2>1, <2>2, <3>1
  <2>3. CASE ~ (k <= Len(x))
    <3> DEFINE m == k - Len(x)
    <3>1. m \in 1 .. Len(s) - 1 /\ ~ (k + 1 <= Len(x)) /\ (k + 1) - Len(x) = m + 1 /\ (k < n <=> m < i)
      BY <1>1, <1>5, <2>3 DEF n
    <3>2. (x \o t)[k] = t[m]
      BY <1>6, <2>3
    <3>3. y[k] = s[m]
      BY <1>2, <2>1, <2>3
    <3>4. y[k + 1] = s[m + 1]
      BY <1>2, <2>1, <3>1
    <3> HIDE DEF m
    <3>5. t[m] = IF m < i THEN s[m] ELSE s[m + 1]
      BY <1>5, <3>1
    <3>6. z[k] = IF k < n THEN y[k] ELSE y[k + 1]
      BY <1>7, <2>1
    <3> QED BY <3>1, <3>2, <3>3, <3>4, <3>5, <3>6
  <2> QED BY <2>2, <2>3
<1>9. Len(x \o t) = Len(z)
  BY <1>1, <1>2, <1>5, <1>6, <1>7
<1>10. x \o t = z
  BY <1>6, <1>7, <1>8, <1>9, SeqEqual
<1> QED BY <1>3, <1>4, <1>10 DEF y, t, z, n

\* A job that is deleted leaves the line.
LEMMA LineDel ==
    ASSUME TypeOK, NEW j \in Jobs, prelude_async_del(j)
    PROVE  \E n \in 1 .. Len(Line) : Line[n] = j /\ Line' = RemoveAt(Line, n)
<1> DEFINE x == executed \o Running
<1>1. x \in Seq(Jobs) /\ Line = x \o joblist /\ joblist \in Seq(Jobs) /\ DOMAIN joblist = 1 .. Len(joblist)
  BY LineType, RangeFacts DEF TypeOK
<1>2. PICK i \in 1 .. Len(joblist) : joblist[i] = j /\ joblist' = RemoveAt(joblist, i)
  BY <1>1 DEF prelude_async_del
<1>3. Line' = x \o RemoveAt(joblist, i)
  BY <1>2 DEF Line, Running, prelude_async_del, local
<1> HIDE DEF x
<1>4. /\ Len(x) + i \in 1 .. Len(Line) /\ Line[Len(x) + i] = j
      /\ Line' = RemoveAt(Line, Len(x) + i)
  BY <1>1, <1>2, <1>3, RemoveConcat, ZenonT(60)
<1> QED BY <1>4

-----------------------------------------------------------------------------
\* Every step keeps the line in the order of the calls.
LEMMA OrderStep == TypeOK /\ Control /\ Order /\ [Next]_vars => Order'
<1> SUFFICES ASSUME TypeOK, Control, Order, [Next]_vars PROVE Order'
  OBVIOUS
<1>1. /\ added \in Seq(Jobs) /\ Line \in Seq(Jobs) /\ Distinct(added) /\ deleted \subseteq ToSet(added)
      /\ ToSet(Line) = ToSet(added) \ deleted /\ Ordered(Line, added)
  BY LineType DEF TypeOK, Order, RunInOrder, Ordered
<1>2. ASSUME Line' = Line, added' = added, deleted' = deleted
      PROVE  Order'
  BY <1>1, <1>2 DEF Order, RunInOrder, Ordered
<1>3. ASSUME NEW j \in Jobs, prelude_async_add(j) PROVE Order'
  <2>1. added' = Append(added, j) /\ deleted' = deleted /\ j \notin ToSet(added)
    BY <1>3 DEF prelude_async_add
  <2>2. Line' = Append(Line, j) /\ ToSet(Line') = ToSet(Line) \union {j}
    BY <1>3, LineAdd
  <2>3. ToSet(added') = ToSet(added) \union {j}
    <3>1. /\ added' \in Seq(Jobs) /\ Len(added') = Len(added) + 1 /\ added'[Len(added) + 1] = j
          /\ \A i \in 1 .. Len(added) : added'[i] = added[i]
      BY <1>1, <2>1, AppendProperties
    <3> QED BY <1>1, <3>1, AppendFacts
  <2>4. Distinct(added') /\ Ordered(Line', added')
    BY <1>1, <2>1, <2>2, AppendOrdered
  <2>5. ToSet(Line') = ToSet(added') \ deleted' /\ deleted' \subseteq ToSet(added')
    BY <1>1, <2>1, <2>2, <2>3
  <2> QED BY <2>4, <2>5 DEF Order, RunInOrder, Ordered
<1>4. ASSUME NEW j \in Jobs, prelude_async_del(j) PROVE Order'
  <2>1. added' = added /\ deleted' = deleted \union {j}
    BY <1>4 DEF prelude_async_del
  <2>2. PICK n \in 1 .. Len(Line) : Line[n] = j /\ Line' = RemoveAt(Line, n)
    BY <1>4, LineDel
  <2>3. Ordered(Line', added) /\ ToSet(Line') = ToSet(Line) \ {j}
    BY <1>1, <2>2, RemoveOrdered
  <2>4. j \in ToSet(Line)
    BY <1>1, <2>2, RangeFacts
  <2>5. ToSet(Line') = ToSet(added') \ deleted' /\ deleted' \subseteq ToSet(added')
    BY <1>1, <2>1, <2>3, <2>4
  <2> QED BY <1>1, <2>1, <2>3, <2>5 DEF Order, RunInOrder, Ordered
<1>5. CASE _prelude_async_fork_child
  <2>1. added' = <<>> /\ deleted' = {} /\ Line' = <<>> \o <<>> \o <<>>
    BY <1>5 DEF _prelude_async_fork_child, Line
  <2>2. Line' = <<>> /\ DOMAIN <<>> = {}
    BY <2>1
  <2> QED BY <2>1, <2>2 DEF Order, RunInOrder, Distinct, ToSet
<1>6. CASE get_next_job
  BY <1>2, <1>6, LineTake DEF get_next_job, hist
<1>7. CASE JobDone
  BY <1>2, <1>7, LineDone DEF JobDone
<1>8. ASSUME executed' = executed, obj' = obj, joblist' = joblist, added' = added, deleted' = deleted
      PROVE  Order'
  BY <1>2, <1>8 DEF Line
<1>9. ASSUME NEW f \in BOOLEAN, prelude_async_set_flags(f) PROVE Order'
  BY <1>8, <1>9 DEF prelude_async_set_flags, hist
<1>10. CASE prelude_async_init \/ prelude_async_exit \/ Joined
  BY <1>8, <1>10 DEF prelude_async_init, prelude_async_exit, Joined, local, hist
<1>11. CASE async_thread \/ Loop \/ wait_data \/ wait_timer_and_data
  BY <1>8, <1>11 DEF async_thread, Loop, wait_data, wait_timer_and_data, shared, hist
<1>12. CASE Timeout \/ WakeUpTimers \/ Second \/ Spurious
  BY <1>8, <1>12 DEF Timeout, WakeUpTimers, Second, Spurious, shared, hist
<1>13. CASE UNCHANGED vars
  BY <1>8, <1>13 DEF vars, shared, local, hist
<1> QED BY <1>3, <1>4, <1>5, <1>6, <1>7, <1>9, <1>10, <1>11, <1>12, <1>13
        DEF Next, Application, Thread

\* The thread ends when the list is empty: everything in the line was run.
LEMMA Drained ==
    ASSUME TypeOK, Control, thread \notin {"none", "run"}, joblist = <<>>
    PROVE  ToSet(Line) = ToSet(executed)
<1>1. obj = NoJob /\ executed \in Seq(Jobs)
  BY DEF TypeOK, Control
<1>2. Line = executed \o <<>> \o <<>>
  BY <1>1 DEF Line
<1> QED BY <1>1, <1>2, ConcatEmptySeq

\* Every step keeps what prelude_async_exit waits for.
LEMMA DrainStep == TypeOK /\ Control /\ Order /\ Drain /\ [Next]_vars => Drain'
<1> SUFFICES ASSUME TypeOK, Control, Order, Drain, [Next]_vars PROVE Drain'
  OBVIOUS
<1>1. ASSUME thread' = "ended" => thread = "ended", executed' = executed, promised' = promised,
             ToSet(Line) \subseteq ToSet(Line'), caller' # "none" => caller # "none"
      PROVE  Drain'
  BY <1>1 DEF Drain
<1>2. ASSUME NEW j \in Jobs, prelude_async_add(j) PROVE Drain'
  <2>1. ToSet(Line) \subseteq ToSet(Line')
    BY <1>2, LineAdd
  <2> QED BY <1>1, <1>2, <2>1 DEF prelude_async_add, Signal
<1>3. ASSUME NEW j \in Jobs, prelude_async_del(j) PROVE Drain'
  <2>1. PICK n \in 1 .. Len(Line) : Line[n] = j /\ Line' = RemoveAt(Line, n)
    BY <1>3, LineDel
  <2>2. ToSet(Line') = ToSet(Line) \ {j}
    <3>1. Line \in Seq(Jobs) /\ added \in Seq(Jobs) /\ Distinct(added) /\ Ordered(Line, added)
      BY LineType DEF TypeOK, Order, RunInOrder, Ordered
    <3> QED BY <2>1, <3>1, RemoveOrdered
  <2> QED BY <1>3, <2>2 DEF Drain, prelude_async_del, local
<1>4. CASE _prelude_async_fork_child
  BY <1>4 DEF Drain, _prelude_async_fork_child
<1>5. CASE prelude_async_exit
  <2>1. thread # "ended" /\ thread' # "ended"
    BY <1>5 DEF Control, prelude_async_exit, Signal
  <2>2. Line' = Line
    BY <1>5 DEF Line, prelude_async_exit
  <2>3. promised' \subseteq ToSet(Line)
    BY <1>5, LineType DEF prelude_async_exit
  <2> QED BY <2>1, <2>2, <2>3 DEF Drain
<1>6. CASE get_next_job
  <2>1. ToSet(Line) \subseteq ToSet(Line')
    BY <1>6, LineTake
  <2> QED BY <1>1, <1>6, <2>1 DEF get_next_job, hist
<1>7. CASE JobDone
  <2>1. Line' = Line /\ promised' = promised /\ caller' = caller /\ thread' = "jobs"
    BY <1>7, LineDone DEF JobDone
  <2> QED BY <2>1 DEF Drain
<1>8. ASSUME executed' = executed, obj' = obj, joblist' = joblist, promised' = promised,
             thread' = "ended" => thread = "ended", caller' # "none" => caller # "none"
      PROVE  Drain'
  <2>1. Line' = Line
    BY <1>8 DEF Line
  <2> QED BY <1>1, <1>8, <2>1
<1>9. ASSUME NEW f \in BOOLEAN, prelude_async_set_flags(f) PROVE Drain'
  BY <1>8, <1>9 DEF prelude_async_set_flags, hist, Signal
<1>10. CASE prelude_async_init \/ Joined
  BY <1>8, <1>10 DEF prelude_async_init, Joined, local, hist
<1>11. ASSUME executed' = executed, obj' = obj, joblist' = joblist, promised' = promised,
              thread \notin {"none", "run"}, joblist = <<>>, stop_processing, caller' = caller
       PROVE  Drain'
  <2>1. Line' = Line
    BY <1>11 DEF Line
  <2>2. caller # "none" /\ promised \subseteq ToSet(Line)
    BY <1>11 DEF Control, Drain
  <2>3. ToSet(Line) = ToSet(executed)
    BY <1>11, Drained
  <2> QED BY <1>11, <2>1, <2>2, <2>3 DEF Drain
<1>12. CASE wait_data
  BY <1>8, <1>11, <1>12 DEF wait_data, shared, hist
<1>13. CASE wait_timer_and_data
  BY <1>8, <1>11, <1>13 DEF wait_timer_and_data, Leave, shared, hist
<1>14. CASE Timeout
  BY <1>8, <1>11, <1>14 DEF Timeout, Leave, shared, hist
<1>15. CASE async_thread \/ Loop \/ WakeUpTimers \/ Second \/ Spurious
  BY <1>8, <1>15 DEF async_thread, Loop, WakeUpTimers, Second, Spurious, Signal, shared, hist
<1>16. CASE UNCHANGED vars
  BY <1>8, <1>16 DEF vars, shared, local, hist
<1> QED BY <1>2, <1>3, <1>4, <1>5, <1>6, <1>7, <1>9, <1>10, <1>12, <1>13, <1>14, <1>15, <1>16
        DEF Next, Application, Thread

-----------------------------------------------------------------------------
\* The invariant holds at first.
LEMMA AsyncInit == Init => AsyncInv
<1> SUFFICES ASSUME Init PROVE AsyncInv
  OBVIOUS
<1>1. TypeOK
  <2>1. joblist \in Seq(Jobs) /\ added \in Seq(Jobs) /\ executed \in Seq(Jobs)
    BY EmptySeq DEF Init
  <2>2. forks \in Nat
    BY DEF Init
  <2>3. /\ async_flags \in BOOLEAN /\ stop_processing \in BOOLEAN /\ is_initialized \in BOOLEAN
        /\ flags \in BOOLEAN /\ expired \in BOOLEAN
    BY DEF Init
  <2>4. thread = "none" /\ obj = NoJob /\ caller = "none" /\ deleted = {} /\ promised = {}
    BY DEF Init
  <2> QED BY <2>1, <2>2, <2>3, <2>4 DEF TypeOK
<1>2. Control /\ NoLostWakeup
  BY DEF Init, Control, NoLostWakeup
<1>3. Line = <<>> /\ added = <<>> /\ DOMAIN <<>> = {} /\ deleted = {}
  BY DEF Init, Line
<1>4. Order
  BY <1>3 DEF Order, RunInOrder, Distinct, ToSet
<1>5. Drain
  BY DEF Init, Drain
<1> QED BY <1>1, <1>2, <1>4, <1>5 DEF AsyncInv

\* The inductive invariant holds, whatever the jobs and the calls are.
THEOREM AsyncInvariant == Spec => []AsyncInv
<1>1. AsyncInv /\ [Next]_vars => AsyncInv'
  BY TypeStep, ControlStep, WakeupStep, OrderStep, DrainStep DEF AsyncInv
<1> QED BY <1>1, AsyncInit, PTL DEF Spec

\* The thread never calls the function of no job (get_next_job), and every
\* variable has its type.
THEOREM AsyncTypes == Spec => []TypeOK
<1>1. AsyncInv => TypeOK
  BY DEF AsyncInv
<1> QED BY <1>1, AsyncInvariant, PTL

\* No signal is lost between the look at the list, the flags and the request
\* to stop, and the wait on the condition variable (wait_data,
\* wait_timer_and_data).
THEOREM AsyncWakeup == Spec => []NoLostWakeup
<1>1. AsyncInv => NoLostWakeup
  BY DEF AsyncInv
<1> QED BY <1>1, AsyncInvariant, PTL

\* Jobs run once, in the order in which prelude_async_add listed them, however
\* they are deleted and whenever the process forks.
THEOREM AsyncOrder == Spec => []RunInOrder
<1>1. AsyncInv => RunInOrder
  BY DEF AsyncInv, Order
<1> QED BY <1>1, AsyncInvariant, PTL

\* prelude_async_exit returns after the jobs it found were run.
THEOREM AsyncDrains == Spec => []ExitDrains
<1>1. AsyncInv => ExitDrains
  BY DEF AsyncInv, Control, Drain, ExitDrains
<1> QED BY <1>1, AsyncInvariant, PTL
=============================================================================
