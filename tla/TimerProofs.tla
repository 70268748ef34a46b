----------------------------- MODULE TimerProofs -----------------------------
(***************************************************************************)
(* Proofs about Timer, for any timers, delays and calls, when callbacks    *)
(* reset or destroy their timer: the search of timer_init_unlocked never   *)
(* runs off the list, in programs of one thread or of several, unless a    *)
(* timer is marked in the middle of it; in programs of one thread the list *)
(* stays sorted, timers are woken up in the order in which they expire,    *)
(* and next_wakeup is no later than the first of them.                     *)
(***************************************************************************)
EXTENDS Timer, SequenceTheorems, WellFoundedInduction, TLAPS

-----------------------------------------------------------------------------
(* The inductive invariant.                                                *)

\* The timer that the walk has in hand is a timer.  A start_time of -1 marks
\* the one whose callback runs: the walk never meets it in the list.
Marks ==
    /\ pc \in {"check", "expired", "callback"} => timer \in Timers
    /\ pc \in {"check", "expired"} => start[timer] # -1
    /\ \A t \in Listed : start[t] = -1 => pc = "callback" /\ t = timer

\* With one thread the list does not change between get_next_timer and the
\* callback: the timer in hand is the first one.
AtHead ==
    ~ concurrent /\ pc \in {"check", "expired"} => list # <<>> /\ timer = list[1]

\* Times that were read are in the past.
Past == at <= now /\ last_wakeup <= now

\* What Done makes of a walk of a program of one thread: the list is empty, or
\* next_wakeup was computed at the time of the walk.
WalkedInTime ==
    ~ concurrent /\ pc = "done" =>
        \/ list = <<>>
        \/ at # -1 /\ \A t \in Listed : at + next_wakeup <= Key(t)

TimerInv ==
    TypeOK /\ Marks /\ AtHead /\ Sorted /\ Past /\ WalkedInTime /\ WakesInTime /\ NeverAborts

\* Callbacks reset or destroy their timer.
Returning == "leave" \notin Calls

-----------------------------------------------------------------------------
(* Least and greatest numbers of a set.                                    *)

Less == {p \in Nat \X Nat : p[1] < p[2]}

\* The order of the natural numbers is well-founded.
LEMMA LessWellFounded == IsWellFoundedOn(Less, Nat)
  BY NatLessThanWellFounded DEF OpToRel, Less

\* A set of natural numbers has a least element.
LEMMA LeastNat ==
    ASSUME NEW T, T \subseteq Nat, T # {}
    PROVE  \E x \in T : \A y \in T : x <= y
<1>1. PICK x \in T : \A y \in T : ~ (<<y, x>> \in Less)
  BY ONLY WFMin, LessWellFounded, T \subseteq Nat, T # {}
<1>2. ASSUME NEW y \in T PROVE x <= y
  <2>1. ~ (y < x)
    BY <1>1 DEF Less
  <2> QED BY <2>1
<1> QED BY <1>2

\* If it is bounded, it has a greatest one.
LEMMA GreatestNat ==
    ASSUME NEW n \in Nat, NEW T, T \subseteq 1 .. n, T # {}
    PROVE  \E x \in T : \A y \in T : y <= x
<1> DEFINE D == {n - y : y \in T}
<1>1. D \subseteq Nat /\ D # {}
  OBVIOUS
<1>2. PICK d \in D : \A e \in D : d <= e
  <2> HIDE DEF D
  <2> QED BY <1>1, LeastNat
<1>3. PICK x \in T : d = n - x
  OBVIOUS
<1>4. ASSUME NEW y \in T PROVE y <= x
  <2>1. n - y \in D
    OBVIOUS
  <2>2. n - x <= n - y
    BY <1>2, <1>3, <2>1
  <2> QED BY <2>2
<1> QED BY <1>4

-----------------------------------------------------------------------------
(* Lists.                                                                  *)

Distinct(l) == \A i, j \in DOMAIN l : l[i] = l[j] => i = j

\* The times at which timers expire.
Keys == [t \in Timers |-> Key(t)]

\* l is sorted by the times K.
Increasing(l, K) == \A i, j \in DOMAIN l : i < j => K[l[i]] <= K[l[j]]

\* What removing a timer leaves.
LEMMA RemoveFacts ==
    ASSUME NEW l \in Seq(Timers), NEW p \in DOMAIN l
    PROVE  /\ RemoveFrom(l, p) \in Seq(Timers) /\ Len(RemoveFrom(l, p)) = Len(l) - 1
           /\ \A i \in 1 .. Len(l) - 1 :
                 RemoveFrom(l, p)[i] = IF i < p THEN l[i] ELSE l[i + 1]
<1>1. Len(l) \in Nat /\ DOMAIN l = 1 .. Len(l) /\ \A i \in 1 .. Len(l) : l[i] \in Timers
  BY LenProperties, ElementOfSeq
<1>2. RemoveFrom(l, p) \in [1 .. Len(l) - 1 -> Timers] /\ Len(l) - 1 \in Nat
  BY <1>1 DEF RemoveFrom
<1>3. RemoveFrom(l, p) \in Seq(Timers)
  BY <1>2
<1> QED BY <1>1, <1>2, <1>3, LenProperties DEF RemoveFrom

\* timer_destroy_unlocked removes the timer and keeps the order of the others.
LEMMA WithoutFacts ==
    ASSUME NEW l \in Seq(Timers), NEW t \in Timers, Distinct(l), NEW K
    PROVE  /\ Without(l, t) \in Seq(Timers) /\ Distinct(Without(l, t))
           /\ {Without(l, t)[i] : i \in DOMAIN Without(l, t)} = {l[i] : i \in DOMAIN l} \ {t}
           /\ Increasing(l, K) => Increasing(Without(l, t), K)
<1>1. Len(l) \in Nat /\ DOMAIN l = 1 .. Len(l) /\ \A i \in 1 .. Len(l) : l[i] \in Timers
  BY LenProperties, ElementOfSeq
<1>2. CASE ~ \E i \in DOMAIN l : l[i] = t
  BY <1>2 DEF Without
<1>3. CASE \E i \in DOMAIN l : l[i] = t
  <2> DEFINE p == CHOOSE i \in DOMAIN l : l[i] = t
             r == RemoveFrom(l, p)
  <2>1. p \in DOMAIN l /\ l[p] = t
    BY <1>3
  <2>2. Without(l, t) = r
    BY <1>3 DEF Without
  <2> HIDE DEF p
  <2>3. /\ r \in Seq(Timers) /\ Len(r) = Len(l) - 1 /\ DOMAIN r = 1 .. Len(l) - 1
        /\ \A i \in 1 .. Len(l) - 1 : r[i] = IF i < p THEN l[i] ELSE l[i + 1]
    <3>1. /\ r \in Seq(Timers) /\ Len(r) = Len(l) - 1
          /\ \A i \in 1 .. Len(l) - 1 : r[i] = IF i < p THEN l[i] ELSE l[i + 1]
      BY <1>1, <2>1, RemoveFacts
    <3> HIDE DEF r
    <3>2. DOMAIN r = 1 .. Len(r)
      BY ONLY <3>1, LenProperties
    <3> QED BY ONLY <3>1, <3>2
  <2> HIDE DEF r
  <2>4. \A i, j \in DOMAIN r : r[i] = r[j] => i = j
    <3> SUFFICES ASSUME NEW i \in DOMAIN r, NEW j \in DOMAIN r, r[i] = r[j] PROVE i = j
      OBVIOUS
    <3>1. PICK a : a = IF i < p THEN i ELSE i + 1
      OBVIOUS
    <3>2. PICK b : b = IF j < p THEN j ELSE j + 1
      OBVIOUS
    <3>3. i \in 1 .. Len(l) - 1 /\ j \in 1 .. Len(l) - 1 /\ p \in 1 .. Len(l) /\ Len(l) \in Nat
      BY <1>1, <2>1, <2>3
    <3>4. a \in DOMAIN l /\ b \in DOMAIN l
      BY ONLY <1>1, <3>1, <3>2, <3>3
    <3>5. r[i] = l[a] /\ r[j] = l[b]
      BY ONLY <2>3, <3>1, <3>2, <3>3
    <3>6. l[a] = l[b]
      BY <3>5
    <3>7. a = b
      BY <3>4, <3>6 DEF Distinct
    <3> QED BY ONLY <3>1, <3>2, <3>3, <3>7
  <2>5. {r[i] : i \in DOMAIN r} = {l[i] : i \in DOMAIN l} \ {t}
    <3>1. ASSUME NEW i \in DOMAIN r PROVE \E k \in DOMAIN l : k # p /\ r[i] = l[k]
      <4>1. CASE i < p
        BY <1>1, <2>1, <2>3, <4>1
      <4>2. CASE ~ (i < p)
        <5>1. i + 1 \in DOMAIN l /\ i + 1 # p
          BY ONLY <1>1, <2>1, <2>3, <3>1, <4>2
        <5>2. r[i] = l[i + 1]
          BY ONLY <2>3, <3>1, <4>2
        <5> QED BY <5>1, <5>2
      <4> QED BY <4>1, <4>2
    <3>2. ASSUME NEW k \in DOMAIN l, k # p PROVE \E i \in DOMAIN r : r[i] = l[k]
      <4>1. CASE k < p
        BY <1>1, <2>1, <2>3, <4>1
      <4>2. CASE k > p
        <5>1. k - 1 \in DOMAIN r /\ ~ (k - 1 < p) /\ (k - 1) + 1 = k
          BY <1>1, <2>1, <2>3, <4>2
        <5> QED BY <2>3, <5>1
      <4> QED BY <1>1, <2>1, <3>2, <4>1, <4>2
    <3> QED BY <2>1, <3>1, <3>2 DEF Distinct
  <2>6. ASSUME Increasing(l, K), NEW i \in DOMAIN r, NEW j \in DOMAIN r, i < j
        PROVE  K[r[i]] <= K[r[j]]
    <3> DEFINE a == IF i < p THEN i ELSE i + 1
               b == IF j < p THEN j ELSE j + 1
    <3>1. a \in DOMAIN l /\ b \in DOMAIN l /\ a < b
      BY <1>1, <2>1, <2>3, <2>6
    <3>2. r[i] = l[a] /\ r[j] = l[b]
      BY <2>3
    <3> HIDE DEF a, b
    <3> QED BY <2>6, <3>1, <3>2 DEF Increasing
  <2>7. Distinct(r) /\ (Increasing(l, K) => Increasing(r, K))
    BY <2>4, <2>6 DEF Distinct, Increasing
  <2> QED BY <2>2, <2>3, <2>5, <2>7
<1> QED BY <1>2, <1>3

\* What inserting a timer makes of a list that does not hold it.
LEMMA InsertFacts ==
    ASSUME NEW l \in Seq(Timers), NEW t \in Timers, NEW p \in 0 .. Len(l)
    PROVE  /\ InsertAfter(l, p, t) \in Seq(Timers) /\ Len(InsertAfter(l, p, t)) = Len(l) + 1
           /\ DOMAIN InsertAfter(l, p, t) = 1 .. Len(l) + 1
           /\ \A i \in 1 .. Len(l) + 1 :
                 InsertAfter(l, p, t)[i] = IF i <= p THEN l[i] ELSE IF i = p + 1 THEN t ELSE l[i - 1]
           /\ \A x : (\E i \in 1 .. Len(l) + 1 : InsertAfter(l, p, t)[i] = x)
                       <=> (x = t \/ \E i \in DOMAIN l : l[i] = x)
<1> DEFINE r == InsertAfter(l, p, t)
<1>1. Len(l) \in Nat /\ DOMAIN l = 1 .. Len(l) /\ \A i \in 1 .. Len(l) : l[i] \in Timers
  BY LenProperties, ElementOfSeq
<1>2. r \in [1 .. Len(l) + 1 -> Timers] /\ Len(l) + 1 \in Nat
  BY <1>1 DEF InsertAfter
<1>3. r \in Seq(Timers) /\ DOMAIN r = 1 .. Len(l) + 1 /\ Len(r) = Len(l) + 1
  BY <1>2, LenProperties
<1>4. \A i \in 1 .. Len(l) + 1 : r[i] = IF i <= p THEN l[i] ELSE IF i = p + 1 THEN t ELSE l[i - 1]
  BY DEF InsertAfter
<1> HIDE DEF r
<1>5. ASSUME NEW i \in 1 .. Len(l) + 1 PROVE r[i] = t \/ \E k \in DOMAIN l : r[i] = l[k]
  <2>1. i <= p => i \in DOMAIN l
    BY <1>1
  <2>2. ~ (i <= p) /\ i # p + 1 => i - 1 \in DOMAIN l
    BY <1>1
  <2> QED BY <1>4, <2>1, <2>2
<1>6. ASSUME NEW k \in DOMAIN l PROVE \E i \in 1 .. Len(l) + 1 : r[i] = l[k]
  <2>1. CASE k <= p
    BY <1>1, <1>4, <2>1
  <2>2. CASE ~ (k <= p)
    <3>1. k + 1 \in 1 .. Len(l) + 1 /\ ~ (k + 1 <= p) /\ k + 1 # p + 1 /\ (k + 1) - 1 = k
      BY <1>1, <2>2
    <3> QED BY <1>4, <3>1
  <2> QED BY <2>1, <2>2
<1>7. p + 1 \in 1 .. Len(l) + 1 /\ r[p + 1] = t
  BY <1>1, <1>4
<1>8. \A x : (\E i \in 1 .. Len(l) + 1 : r[i] = x) <=> (x = t \/ \E i \in DOMAIN l : l[i] = x)
  BY <1>5, <1>6, <1>7
<1> QED BY <1>3, <1>4, <1>8 DEF r

\* Inserted once, a timer is listed once.
LEMMA InsertDistinct ==
    ASSUME NEW l \in Seq(Timers), NEW t \in Timers, NEW p \in 0 .. Len(l),
           Distinct(l), t \notin {l[i] : i \in DOMAIN l}
    PROVE  Distinct(InsertAfter(l, p, t))
<1> DEFINE r == InsertAfter(l, p, t)
<1>1. Len(l) \in Nat /\ DOMAIN l = 1 .. Len(l)
  BY LenProperties
<1>2. /\ DOMAIN r = 1 .. Len(l) + 1
      /\ \A i \in 1 .. Len(l) + 1 : r[i] = IF i <= p THEN l[i] ELSE IF i = p + 1 THEN t ELSE l[i - 1]
  BY InsertFacts
<1> HIDE DEF r
<1>3. ASSUME NEW i \in DOMAIN r, NEW j \in DOMAIN r, r[i] = r[j], i < j PROVE FALSE
  <2>1. CASE j <= p
    BY <1>1, <1>2, <1>3, <2>1 DEF Distinct
  <2>2. CASE j = p + 1
    BY <1>1, <1>2, <1>3, <2>2 DEF Distinct
  <2>3. CASE j > p + 1
    <3>1. r[j] = l[j - 1] /\ j - 1 \in DOMAIN l /\ j - 1 > p
      BY <1>1, <1>2, <2>3
    <3>2. i # p + 1
      BY <1>1, <1>2, <1>3, <3>1
    <3>3. CASE i <= p
      BY <1>1, <1>2, <1>3, <3>1, <3>3 DEF Distinct
    <3>4. CASE i > p + 1
      <4>1. r[i] = l[i - 1] /\ i - 1 \in DOMAIN l
        BY <1>1, <1>2, <3>4
      <4>2. i - 1 = j - 1
        BY <1>3, <3>1, <4>1 DEF Distinct
      <4> QED BY <1>1, <1>2, <1>3, <4>2
    <3> QED BY <1>1, <1>2, <3>2, <3>3, <3>4
  <2> QED BY <1>1, <1>2, <2>1, <2>2, <2>3
<1>4. \A i, j \in DOMAIN r : r[i] = r[j] => i = j
  BY <1>1, <1>2, <1>3
<1> QED BY <1>4 DEF Distinct, r

\* Inserted between the timers that expire no later and those that expire no
\* earlier, it leaves the list sorted.
LEMMA InsertIncreasing ==
    ASSUME NEW l \in Seq(Timers), NEW t \in Timers, NEW p \in 0 .. Len(l), NEW K,
           Increasing(l, K),
           \A i \in 1 .. p : K[l[i]] <= K[t],
           \A i \in p + 1 .. Len(l) : K[t] <= K[l[i]]
    PROVE  Increasing(InsertAfter(l, p, t), K)
<1> DEFINE r == InsertAfter(l, p, t)
<1>1. Len(l) \in Nat /\ DOMAIN l = 1 .. Len(l)
  BY LenProperties
<1>2. /\ DOMAIN r = 1 .. Len(l) + 1
      /\ \A i \in 1 .. Len(l) + 1 : r[i] = IF i <= p THEN l[i] ELSE IF i = p + 1 THEN t ELSE l[i - 1]
  BY InsertFacts
<1> HIDE DEF r
<1>3. ASSUME NEW i \in DOMAIN r, NEW j \in DOMAIN r, i < j PROVE K[r[i]] <= K[r[j]]
  <2>1. CASE j <= p
    BY <1>1, <1>2, <1>3, <2>1 DEF Increasing
  <2>2. CASE j = p + 1
    BY <1>1, <1>2, <1>3, <2>2
  <2>3. CASE j > p + 1
    <3>1. r[j] = l[j - 1] /\ j - 1 \in DOMAIN l /\ j - 1 > p
      BY <1>1, <1>2, <2>3
    <3>2. CASE i = p + 1
      BY <1>1, <1>2, <3>1, <3>2
    <3>3. CASE i <= p
      BY <1>1, <1>2, <1>3, <3>1, <3>3 DEF Increasing
    <3>4. CASE i > p + 1
      <4>1. r[i] = l[i - 1] /\ i - 1 \in DOMAIN l /\ i - 1 < j - 1
        BY <1>1, <1>2, <1>3, <3>4
      <4> QED BY <3>1, <4>1 DEF Increasing
    <3> QED BY <1>1, <1>2, <3>2, <3>3, <3>4
  <2> QED BY <1>1, <1>2, <2>1, <2>2, <2>3
<1> QED BY <1>3 DEF Increasing, r

-----------------------------------------------------------------------------
(* The search.                                                             *)

\* The times of the search are numbers.
LEMMA KeyType ==
    ASSUME start \in [Timers -> Nat \union {-1}], NEW t \in Timers
    PROVE  Key(t) \in Int /\ start[t] \in Int /\ Expire[t] \in Nat \ {0} /\ Keys[t] = Key(t)
  BY ExpireAssumption DEF Key, Keys

\* time_remaining is what is left until the timer expires.
LEMMA RemainingFact ==
    ASSUME NEW t \in Timers, NEW f \in [Timers -> Int], NEW s \in Int
    PROVE  time_remaining(f, t, s) = (f[t] + Expire[t]) - s
<1>1. f[t] \in Int /\ Expire[t] \in Int
  BY ExpireAssumption
<1>2. ASSUME NEW a \in Int, NEW b \in Int PROVE b - (s - a) = (a + b) - s
  OBVIOUS
<1> QED BY <1>1, <1>2 DEF time_remaining, TimeElapsed

\* search_previous_forward stops at the first timer that does not expire before
\* e, if there is one.
LEMMA ForwardFirst ==
    ASSUME NEW k \in Seq(Int), NEW e \in Int, \E i \in DOMAIN k : k[i] >= e
    PROVE  \E q \in DOMAIN k :
              /\ k[q] >= e /\ \A j \in 1 .. q - 1 : k[j] < e
              /\ search_previous_forward(k, e) = IF k[q] = e THEN q ELSE IF q = 1 THEN Abort ELSE q - 1
<1>1. Len(k) \in Nat /\ DOMAIN k = 1 .. Len(k)
  BY LenProperties
<1>a. \A i \in DOMAIN k : k[i] \in Int
  BY <1>1, ElementOfSeq
<1> DEFINE T == {i \in DOMAIN k : k[i] >= e}
           P(i) == k[i] >= e /\ \A j \in 1 .. i - 1 : k[j] < e
           q == CHOOSE i \in DOMAIN k : P(i)
<1>2. \E i \in DOMAIN k : P(i)
  <2>1. T \subseteq Nat /\ T # {}
    BY <1>1
  <2>2. PICK x \in T : \A y \in T : x <= y
    <3> HIDE DEF T
    <3> QED BY <2>1, LeastNat
  <2>3. ASSUME NEW j \in 1 .. x - 1 PROVE k[j] < e
    <3>1. x \in 1 .. Len(k)
      BY <1>1
    <3>2. j \in DOMAIN k /\ ~ (x <= j)
      BY <1>1, <3>1
    <3>3. ~ (k[j] >= e)
      BY <2>2, <3>2
    <3>4. k[j] \in Int
      BY <1>a, <3>2
    <3> QED BY <3>3, <3>4
  <2> QED BY <2>2, <2>3
<1>3. q \in DOMAIN k /\ P(q)
  BY <1>2
<1>4. search_previous_forward(k, e) = IF k[q] = e THEN q ELSE IF q = 1 THEN Abort ELSE q - 1
  <2>1. ~ \A i \in DOMAIN k : k[i] < e
    <3>1. PICK i \in DOMAIN k : k[i] >= e
      OBVIOUS
    <3>2. k[i] \in Int
      BY <1>a
    <3> QED BY <3>1, <3>2
  <2> QED BY <2>1 DEF search_previous_forward
<1> HIDE DEF q
<1> QED BY <1>3, <1>4

\* Then it returns it, or the one before it, which there is if the first timer
\* expires before e.
LEMMA ForwardFacts ==
    ASSUME NEW k \in Seq(Int), NEW e \in Int, \E i \in DOMAIN k : k[i] >= e, ~ (k[1] >= e)
    PROVE  \E p \in DOMAIN k :
              /\ search_previous_forward(k, e) = p
              /\ \/ k[p] = e /\ \A j \in 1 .. p - 1 : k[j] < e
                 \/ p + 1 \in DOMAIN k /\ k[p + 1] >= e /\ \A j \in 1 .. p : k[j] < e
<1>1. Len(k) \in Nat /\ DOMAIN k = 1 .. Len(k)
  BY LenProperties
<1>2. PICK q \in DOMAIN k :
         /\ k[q] >= e /\ \A j \in 1 .. q - 1 : k[j] < e
         /\ search_previous_forward(k, e) = IF k[q] = e THEN q ELSE IF q = 1 THEN Abort ELSE q - 1
  BY ForwardFirst
<1>3. q # 1 /\ q - 1 \in DOMAIN k /\ (q - 1) + 1 = q
  BY <1>1, <1>2
<1> QED BY <1>2, <1>3

\* It returns a position of the list, or aborts.
LEMMA ForwardType ==
    ASSUME NEW k \in Seq(Int), NEW e \in Int
    PROVE  search_previous_forward(k, e) \in DOMAIN k \union {Abort}
<1>1. Len(k) \in Nat /\ DOMAIN k = 1 .. Len(k) /\ \A i \in DOMAIN k : k[i] \in Int
  BY LenProperties, ElementOfSeq
<1>2. CASE \A i \in DOMAIN k : k[i] < e
  BY <1>2 DEF search_previous_forward
<1>3. CASE ~ \A i \in DOMAIN k : k[i] < e
  <2>1. \E i \in DOMAIN k : k[i] >= e
    <3>1. PICK i \in DOMAIN k : ~ (k[i] < e)
      BY <1>3
    <3>2. k[i] \in Int
      BY <1>1
    <3> QED BY <3>1, <3>2
  <2>2. PICK q \in DOMAIN k :
           search_previous_forward(k, e) = IF k[q] = e THEN q ELSE IF q = 1 THEN Abort ELSE q - 1
    BY <2>1, ForwardFirst
  <2>3. q # 1 => q - 1 \in DOMAIN k
    BY <1>1
  <2> QED BY <2>2, <2>3
<1> QED BY <1>2, <1>3

\* search_previous_backward stops at the last timer that expires no later.
LEMMA BackwardFacts ==
    ASSUME NEW k \in Seq(Int), NEW e \in Int, \E i \in DOMAIN k : k[i] <= e
    PROVE  /\ search_previous_backward(k, e) \in DOMAIN k
           /\ k[search_previous_backward(k, e)] <= e
           /\ \A j \in search_previous_backward(k, e) + 1 .. Len(k) : k[j] > e
<1>1. Len(k) \in Nat /\ DOMAIN k = 1 .. Len(k)
  BY LenProperties
<1>2. \A i \in DOMAIN k : k[i] \in Int
  BY <1>1, ElementOfSeq
<1> DEFINE T == {i \in DOMAIN k : k[i] <= e}
           P(i) == k[i] <= e /\ \A j \in i + 1 .. Len(k) : k[j] > e
           q == CHOOSE i \in DOMAIN k : P(i)
<1>3. \E i \in DOMAIN k : P(i)
  <2>1. T \subseteq 1 .. Len(k) /\ T # {}
    BY <1>1
  <2>2. PICK x \in T : \A y \in T : y <= x
    <3> HIDE DEF T
    <3> QED BY <1>1, <2>1, GreatestNat
  <2>3. ASSUME NEW j \in x + 1 .. Len(k) PROVE k[j] > e
    <3>1. j \in DOMAIN k /\ ~ (j <= x)
      BY <1>1, <2>2
    <3>2. ~ (k[j] <= e)
      BY <2>2, <3>1
    <3> QED BY <1>2, <3>1, <3>2
  <2> QED BY <2>2, <2>3
<1>4. q \in DOMAIN k /\ P(q)
  BY <1>3
<1>5. search_previous_backward(k, e) = q
  <2>1. ~ \A i \in DOMAIN k : k[i] > e
    BY <1>2
  <2> QED BY <2>1 DEF search_previous_backward
<1> QED BY <1>4, <1>5

\* Otherwise it aborts.
LEMMA BackwardType ==
    ASSUME NEW k \in Seq(Int), NEW e \in Int
    PROVE  search_previous_backward(k, e) \in DOMAIN k \union {Abort}
<1>1. \A i \in DOMAIN k : k[i] \in Int
  BY LenProperties, ElementOfSeq
<1>2. CASE \A i \in DOMAIN k : k[i] > e
  BY <1>2 DEF search_previous_backward
<1>3. CASE ~ \A i \in DOMAIN k : k[i] > e
  <2>1. \E i \in DOMAIN k : k[i] <= e
    BY <1>1, <1>3
  <2> QED BY <2>1, BackwardFacts
<1> QED BY <1>2, <1>3

\* What a search sees, of times that may change meanwhile: whatever it is, the
\* search returns a position or aborts.
LEMMA PreviousType ==
    ASSUME NEW l \in Seq(Timers), NEW t \in Timers, NEW seen \in [1 .. Looks(l) -> [Timers -> Int]]
    PROVE  Previous(l, t, seen) \in 0 .. Len(l) \union {Abort}
<1>1. Len(l) \in Nat /\ DOMAIN l = 1 .. Len(l) /\ \A i \in 1 .. Len(l) : l[i] \in Timers
  BY LenProperties, ElementOfSeq
<1>2. /\ \A n \in 1 .. Len(l) + 5 : seen[n] \in [Timers -> Int]
      /\ \A u \in Timers : Expire[u] \in Int
  BY <1>1, ExpireAssumption DEF Looks
<1> DEFINE kf == [i \in 1 .. Len(l) |-> seen[5 + i][l[i]] + Expire[l[i]]]
           kb == [i \in 1 .. Len(l) |-> seen[6 + Len(l) - i][l[i]] + Expire[l[i]]]
           e  == Expire[t] + seen[5][t]
<1>3. kf \in Seq(Int) /\ DOMAIN kf = 1 .. Len(l)
  <2>1. ASSUME NEW i \in 1 .. Len(l) PROVE seen[5 + i][l[i]] + Expire[l[i]] \in Int
    <3>1. 5 + i \in 1 .. Len(l) + 5
      BY <1>1
    <3>2. seen[5 + i] \in [Timers -> Int] /\ l[i] \in Timers
      BY <1>1, <1>2, <3>1
    <3> QED BY <1>2, <3>2
  <2>2. kf \in [1 .. Len(l) -> Int]
    BY <2>1
  <2> QED BY <1>1, <2>2
<1>4. kb \in Seq(Int) /\ DOMAIN kb = 1 .. Len(l)
  <2>1. ASSUME NEW i \in 1 .. Len(l) PROVE seen[6 + Len(l) - i][l[i]] + Expire[l[i]] \in Int
    <3>1. 6 + Len(l) - i \in 1 .. Len(l) + 5
      BY <1>1
    <3>2. seen[6 + Len(l) - i] \in [Timers -> Int] /\ l[i] \in Timers
      BY <1>1, <1>2, <3>1
    <3> QED BY <1>2, <3>2
  <2>2. kb \in [1 .. Len(l) -> Int]
    BY <2>1
  <2> QED BY <1>1, <2>2
<1>5. e \in Int
  BY <1>1, <1>2
<1>6. /\ search_previous_forward(kf, e) \in 1 .. Len(l) \union {Abort}
      /\ search_previous_backward(kb, e) \in 1 .. Len(l) \union {Abort}
  <2> HIDE DEF kf, kb, e
  <2> QED BY <1>3, <1>4, <1>5, ForwardType, BackwardType
<1>7. Previous(l, t, seen) \in {0, Len(l), search_previous_forward(kf, e), search_previous_backward(kb, e)}
  BY DEF Previous, search_previous_timer
<1> HIDE DEF kf, kb, e
<1> QED BY <1>1, <1>6, <1>7

\* Where a timer is inserted, when no start_time changes during the search: never
\* outside the list, and if the list is sorted between the timers that expire no
\* later and those that expire no earlier.
LEMMA PreviousFacts ==
    ASSUME start \in [Timers -> Nat \union {-1}], NEW l \in Seq(Timers), NEW t \in Timers,
           now \in Nat, t \notin {l[i] : i \in DOMAIN l}
    PROVE  /\ Previous(l, t, Still(l, t)) \in 0 .. Len(l)
           /\ Increasing(l, Keys) =>
                 /\ \A i \in 1 .. Previous(l, t, Still(l, t)) : Key(l[i]) <= now + Expire[t]
                 /\ \A i \in Previous(l, t, Still(l, t)) + 1 .. Len(l) : now + Expire[t] <= Key(l[i])
<1> DEFINE f == Started(t)
           k == [i \in 1 .. Len(l) |-> Key(l[i])]
<1>1. Len(l) \in Nat /\ DOMAIN l = 1 .. Len(l) /\ (l = <<>> <=> Len(l) = 0)
  BY LenProperties, EmptySeq
<1>2. \A i \in 1 .. Len(l) : Key(l[i]) \in Int /\ Keys[l[i]] = Key(l[i]) /\ l[i] \in Timers /\ l[i] # t
  BY <1>1, ElementOfSeq, KeyType
<1>a. f \in [Timers -> Int] /\ f[t] = now /\ \A i \in 1 .. Len(l) : f[l[i]] + Expire[l[i]] = Key(l[i])
  BY <1>2 DEF Started, Key
<1>b. \A n \in 1 .. Len(l) + 5 : Still(l, t)[n] = f
  BY DEF Still, Looks
<1>c. /\ k \in Seq(Int) /\ DOMAIN k = 1 .. Len(l) /\ Len(k) = Len(l)
      /\ \A i \in 1 .. Len(l) : k[i] = Key(l[i])
  BY <1>1, <1>2
<1>3. CASE l = <<>>
  BY <1>1, <1>3 DEF Previous
<1>4. CASE l # <<>>
  <2> DEFINE n == Len(l)
             e == Expire[t] + now
             p == Previous(l, t, Still(l, t))
             last == Key(l[n]) - now
             first == Key(l[1]) - now
  <2>1. n \in Nat /\ n >= 1
    BY <1>1, <1>4
  <2>2. Expire[t] \in Nat /\ e \in Int /\ Key(l[n]) \in Int /\ Key(l[1]) \in Int
    BY <1>2, <2>1, KeyType
  <2>3. Increasing(l, Keys) => \A i, j \in 1 .. n : i < j => Key(l[i]) <= Key(l[j])
    BY <1>1, <1>2, SMTT(60) DEF Increasing
  <2>s. p = IF Expire[t] >= last THEN n
            ELSE IF Expire[t] <= first THEN 0
            ELSE IF last - Expire[t] > Expire[t] - first THEN search_previous_forward(k, e)
                 ELSE search_previous_backward(k, e)
    <3>1. /\ 1 \in 1 .. n + 5 /\ 2 \in 1 .. n + 5 /\ 3 \in 1 .. n + 5
          /\ 4 \in 1 .. n + 5 /\ 5 \in 1 .. n + 5
      BY <2>1
    <3>2. time_remaining(f, l[n], f[t]) = last /\ time_remaining(f, l[1], f[t]) = first
      <4>1. l[n] \in Timers /\ l[1] \in Timers
        BY <1>2, <2>1
      <4>2. f[l[n]] + Expire[l[n]] = Key(l[n]) /\ f[l[1]] + Expire[l[1]] = Key(l[1])
        BY <1>a, <2>1
      <4>3. f[t] = now /\ now \in Int /\ f \in [Timers -> Int]
        BY <1>a
      <4> HIDE DEF f
      <4>4. /\ time_remaining(f, l[n], now) = (f[l[n]] + Expire[l[n]]) - now
            /\ time_remaining(f, l[1], now) = (f[l[1]] + Expire[l[1]]) - now
        BY <4>1, <4>3, RemainingFact
      <4> QED BY <4>2, <4>3, <4>4
    <3>3. [i \in 1 .. n |-> Still(l, t)[5 + i][l[i]] + Expire[l[i]]] = k
      <4>1. ASSUME NEW i \in 1 .. n PROVE Still(l, t)[5 + i][l[i]] + Expire[l[i]] = Key(l[i])
        <5>1. 5 + i \in 1 .. Len(l) + 5
          BY <2>1
        <5> HIDE DEF f
        <5> QED BY <1>a, <1>b, <5>1
      <4> QED BY <4>1
    <3>4. [i \in 1 .. n |-> Still(l, t)[6 + n - i][l[i]] + Expire[l[i]]] = k
      <4>1. ASSUME NEW i \in 1 .. n PROVE Still(l, t)[6 + n - i][l[i]] + Expire[l[i]] = Key(l[i])
        <5>1. 6 + n - i \in 1 .. Len(l) + 5
          BY <2>1
        <5> HIDE DEF f
        <5> QED BY <1>a, <1>b, <5>1
      <4> QED BY <4>1
    <3>5. /\ Still(l, t)[1] = f /\ Still(l, t)[2] = f /\ Still(l, t)[3] = f
          /\ Still(l, t)[4] = f /\ Still(l, t)[5] = f
      BY <1>b, <3>1
    <3>6. f[t] = now
      BY <1>a
    <3> HIDE DEF f, k
    <3> QED BY <1>4, <3>2, <3>3, <3>4, <3>5, <3>6 DEF Previous, search_previous_timer
  <2> HIDE DEF f, k
  <2>4. CASE Expire[t] >= last
    <3>1. p = n /\ Key(l[n]) <= e
      BY <2>s, <2>2, <2>4
    <3>2. ASSUME Increasing(l, Keys), NEW i \in 1 .. n PROVE Key(l[i]) <= e
      <4>1. i = n \/ i < n
        BY <2>1
      <4> QED BY <1>2, <2>1, <2>2, <2>3, <3>1, <3>2, <4>1
    <3> QED BY <2>1, <2>2, <3>1, <3>2
  <2>5. CASE ~ (Expire[t] >= last) /\ Expire[t] <= first
    <3>1. p = 0 /\ e <= Key(l[1])
      BY <2>s, <2>2, <2>5
    <3>2. ASSUME Increasing(l, Keys), NEW i \in 1 .. n PROVE e <= Key(l[i])
      <4>1. i \in 1 .. n /\ (i = 1 \/ 1 < i) /\ 1 \in 1 .. n
        BY <2>1, <3>1
      <4>2. Key(l[1]) <= Key(l[i])
        <5> HIDE DEF p, e, n
        <5> QED BY <2>2, <2>3, <3>2, <4>1
      <4>3. Key(l[i]) \in Int
        BY <1>2, <2>1, <4>1
      <4> HIDE DEF p, e, n
      <4> QED BY <2>2, <3>1, <4>2, <4>3
    <3> QED BY <2>1, <2>2, <3>1, <3>2
  <2>6. CASE ~ (Expire[t] >= last) /\ ~ (Expire[t] <= first)
    <3>1. Key(l[n]) > e /\ Key(l[1]) < e
      BY <2>2, <2>6
    <3>2. p = search_previous_forward(k, e) \/ p = search_previous_backward(k, e)
      BY <2>s, <2>6
    <3>3. CASE p = search_previous_forward(k, e)
      <4>1. (\E i \in DOMAIN k : k[i] >= e) /\ ~ (k[1] >= e)
        <5>1. n \in DOMAIN k /\ 1 \in DOMAIN k /\ k[n] = Key(l[n]) /\ k[1] = Key(l[1])
          BY <1>c, <2>1
        <5> QED BY <2>2, <3>1, <5>1
      <4>2. /\ p \in DOMAIN k
            /\ \/ k[p] = e /\ \A j \in 1 .. p - 1 : k[j] < e
               \/ p + 1 \in DOMAIN k /\ k[p + 1] >= e /\ \A j \in 1 .. p : k[j] < e
        <5> HIDE DEF e, p
        <5> QED BY <1>c, <2>2, <3>3, <4>1, ForwardFacts
      <4>a. p \in 1 .. n
        BY <1>c, <4>2
      <4> HIDE DEF p, e
      <4>b. \/ Key(l[p]) = e /\ \A j \in 1 .. p - 1 : Key(l[j]) < e
            \/ p + 1 \in 1 .. n /\ Key(l[p + 1]) >= e /\ \A j \in 1 .. p : Key(l[j]) < e
        BY <1>1, <1>c, <4>2, <4>a
      <4>3. ASSUME NEW i \in 1 .. p PROVE Key(l[i]) <= e
        <5>1. Key(l[i]) \in Int /\ (i = p \/ i \in 1 .. p - 1)
          BY <1>1, <1>2, <4>a
        <5> QED BY <2>2, <4>b, <5>1
      <4>4. ASSUME Increasing(l, Keys), NEW i \in p + 1 .. n PROVE e <= Key(l[i])
        <5>1. CASE Key(l[p]) = e
          BY <1>1, <1>2, <2>3, <4>a, <4>4, <5>1
        <5>2. CASE p + 1 \in 1 .. n /\ Key(l[p + 1]) >= e
          <6>1. i = p + 1 \/ p + 1 < i
            BY <1>1, <4>a
          <6> QED BY <1>1, <1>2, <2>2, <2>3, <4>a, <4>4, <5>2, <6>1
        <5> QED BY <4>b, <5>1, <5>2
      <4> QED BY <1>1, <2>2, <4>a, <4>3, <4>4 DEF p, e
    <3>4. CASE p = search_previous_backward(k, e)
      <4>1. \E i \in DOMAIN k : k[i] <= e
        <5>1. 1 \in DOMAIN k /\ k[1] = Key(l[1])
          BY <1>c, <2>1
        <5> QED BY <2>2, <3>1, <5>1
      <4>a. p \in DOMAIN k /\ k[p] <= e /\ \A j \in p + 1 .. Len(k) : k[j] > e
        <5> HIDE DEF e, p
        <5> QED BY <1>c, <2>2, <3>4, <4>1, BackwardFacts
      <4> HIDE DEF p, e
      <4>2. p \in 1 .. n /\ Key(l[p]) <= e /\ \A j \in p + 1 .. n : Key(l[j]) > e
        BY <1>1, <1>c, <4>a
      <4>3. \A i \in p + 1 .. n : e <= Key(l[i])
        BY <1>1, <1>2, <2>2, <4>2
      <4>4. ASSUME Increasing(l, Keys), NEW i \in 1 .. p PROVE Key(l[i]) <= e
        <5>1. i = p \/ i < p
          BY <1>1, <4>2
        <5> QED BY <1>1, <1>2, <2>2, <2>3, <4>2, <4>4, <5>1
      <4> QED BY <1>1, <2>2, <4>2, <4>3, <4>4 DEF p, e
    <3> QED BY <3>2, <3>3, <3>4
  <2> QED BY <2>2, <2>4, <2>5, <2>6
<1> QED BY <1>3, <1>4

-----------------------------------------------------------------------------
(* What the calls of the application do.                                   *)

\* timer_init_unlocked, on a list that does not hold the timer.
LEMMA InitUnlocked ==
    ASSUME TypeOK, NEW l \in Seq(Timers), NEW t \in Timers,
           Distinct(l), t \notin {l[i] : i \in DOMAIN l}, timer_init_unlocked(l, t, Still(l, t))
    PROVE  /\ list' \in Seq(Timers) /\ Distinct(list') /\ Listed' = {l[i] : i \in DOMAIN l} \union {t}
           /\ start' \in [Timers -> Nat \union {-1}] /\ start'[t] = now
           /\ \A u \in Timers \ {t} : start'[u] = start[u] /\ Key(u)' = Key(u)
           /\ Key(t)' = now + Expire[t]
           /\ next_wakeup' \in Nat /\ next_wakeup' <= next_wakeup /\ next_wakeup' <= Expire[t]
           /\ Increasing(l, Keys) => Increasing(list', Keys')
<1> DEFINE p == Previous(l, t, Still(l, t))
<1>1. start \in [Timers -> Nat \union {-1}] /\ now \in Nat /\ next_wakeup \in Nat /\ Expire[t] \in Nat
  BY ExpireAssumption DEF TypeOK
<1>2. /\ p \in 0 .. Len(l)
      /\ Increasing(l, Keys) =>
            /\ \A i \in 1 .. p : Key(l[i]) <= now + Expire[t]
            /\ \A i \in p + 1 .. Len(l) : now + Expire[t] <= Key(l[i])
  BY <1>1, PreviousFacts
<1>3. start' = [start EXCEPT ![t] = now] /\ list' = InsertAfter(l, p, t) /\ next_wakeup' = Min(next_wakeup, Expire[t])
  <2>1. Looks(l) \in 1 .. Looks(l)
    BY LenProperties DEF Looks
  <2> QED BY <2>1 DEF timer_init_unlocked, Still, Started
<1> HIDE DEF p
<1>4. Len(l) \in Nat /\ DOMAIN l = 1 .. Len(l) /\ \A i \in 1 .. Len(l) : l[i] \in Timers
  BY LenProperties, ElementOfSeq
<1>5. list' \in Seq(Timers) /\ Distinct(list') /\ Listed' = {l[i] : i \in DOMAIN l} \union {t}
  <2> DEFINE r == InsertAfter(l, p, t)
  <2>a. /\ r \in Seq(Timers) /\ DOMAIN r = 1 .. Len(l) + 1
        /\ \A x : (\E i \in 1 .. Len(l) + 1 : r[i] = x) <=> (x = t \/ \E i \in DOMAIN l : l[i] = x)
    <3>1. p \in 0 .. Len(l)
      BY <1>2
    <3>2. r \in Seq(Timers)
      BY <3>1, InsertFacts
    <3>3. DOMAIN r = 1 .. Len(l) + 1
      BY <3>1, InsertFacts
    <3>4. \A x : (\E i \in 1 .. Len(l) + 1 : r[i] = x) <=> (x = t \/ \E i \in DOMAIN l : l[i] = x)
      BY <3>1, InsertFacts, ZenonT(60)
    <3> QED BY <3>2, <3>3, <3>4
  <2>b. list' = r
    BY <1>3
  <2> HIDE DEF r
  <2>1. /\ list' \in Seq(Timers)
        /\ {list'[i] : i \in DOMAIN list'} = {l[i] : i \in DOMAIN l} \union {t}
    BY <2>a, <2>b
  <2>2. Distinct(list')
    BY <1>2, <1>3, InsertDistinct
  <2> QED BY <2>1, <2>2 DEF Listed
<1>6. start' \in [Timers -> Nat \union {-1}] /\ start'[t] = now /\ \A u \in Timers \ {t} : start'[u] = start[u]
  BY <1>1, <1>3
<1>7. (\A u \in Timers \ {t} : Key(u)' = Key(u)) /\ Key(t)' = now + Expire[t]
  BY <1>6 DEF Key
<1>8. next_wakeup' \in Nat /\ next_wakeup' <= next_wakeup /\ next_wakeup' <= Expire[t]
  BY <1>1, <1>3 DEF Min
<1>9. ASSUME Increasing(l, Keys) PROVE Increasing(list', Keys')
  <2> DEFINE K == Keys'
  <2>1. K[t] = now + Expire[t] /\ \A i \in 1 .. Len(l) : K[l[i]] = Key(l[i]) /\ Keys[l[i]] = Key(l[i])
    BY <1>4, <1>7 DEF Keys
  <2> HIDE DEF K
  <2>2. Increasing(l, K)
    BY <1>4, <1>9, <2>1 DEF Increasing
  <2>3. \A i \in 1 .. p : K[l[i]] <= K[t]
    BY <1>2, <1>4, <1>9, <2>1
  <2>4. \A i \in p + 1 .. Len(l) : K[t] <= K[l[i]]
    BY <1>2, <1>4, <1>9, <2>1
  <2>5. Increasing(InsertAfter(l, p, t), K)
    BY <1>2, <2>2, <2>3, <2>4, InsertIncreasing
  <2> QED BY <1>3, <2>5 DEF K
<1> QED BY <1>5, <1>6, <1>7, <1>8, <1>9

\* prelude_timer_init and prelude_timer_reset list the timer and change no other.
LEMMA Lists ==
    ASSUME TypeOK, NEW t \in Timers, prelude_timer_init(t) \/ prelude_timer_reset(t)
    PROVE  /\ list' \in Seq(Timers) /\ Distinct(list') /\ Listed' = Listed \union {t}
           /\ start' \in [Timers -> Nat \union {-1}] /\ start'[t] = now
           /\ \A u \in Timers \ {t} : start'[u] = start[u] /\ Key(u)' = Key(u)
           /\ Key(t)' = now + Expire[t]
           /\ next_wakeup' \in Nat /\ next_wakeup' <= next_wakeup /\ next_wakeup' <= Expire[t]
           /\ Increasing(list, Keys) => Increasing(list', Keys')
           /\ UNCHANGED <<concurrent, last_wakeup, now, critical, walk>>
           /\ concurrent \/ pc \in {"idle", "callback"}
<1>1. list \in Seq(Timers) /\ Distinct(list)
  BY DEF TypeOK, Distinct
<1>a. ASSUME NEW l \in Seq(Timers), t \notin {l[i] : i \in DOMAIN l}
      PROVE  Previous(l, t, Still(l, t)) # Abort
  <2>1. Previous(l, t, Still(l, t)) \in 0 .. Len(l)
    BY <1>a, PreviousFacts DEF TypeOK
  <2>2. Len(l) \in Nat
    BY LenProperties
  <2> QED BY <2>1, <2>2 DEF Abort
<1>2. CASE prelude_timer_init(t)
  <2>1. t \notin {list[i] : i \in DOMAIN list} /\ timer_init_unlocked(list, t, Still(list, t)) /\ pc' = pc
    BY <1>1, <1>2, <1>a DEF prelude_timer_init, Listed
  <2>2. UNCHANGED <<concurrent, last_wakeup, now, critical, walk>> /\ (concurrent \/ pc \in {"idle", "callback"})
    BY <1>2, <2>1 DEF prelude_timer_init, MayCall, walk
  <2> QED BY <1>1, <2>1, <2>2, InitUnlocked DEF Listed
<1>3. CASE prelude_timer_reset(t)
  <2> DEFINE l == Without(list, t)
  <2>1. /\ l \in Seq(Timers) /\ Distinct(l) /\ {l[i] : i \in DOMAIN l} = Listed \ {t}
        /\ Increasing(list, Keys) => Increasing(l, Keys)
    BY <1>1, WithoutFacts DEF Listed
  <2>3. t \notin {l[i] : i \in DOMAIN l}
    BY <2>1
  <2>2. timer_init_unlocked(l, t, Still(l, t)) /\ UNCHANGED <<concurrent, last_wakeup, now, critical, walk>>
        /\ (concurrent \/ pc \in {"idle", "callback"})
    <3>1. Previous(l, t, Still(l, t)) # Abort
      BY <1>a, <2>1, <2>3
    <3> QED BY <1>3, <3>1 DEF prelude_timer_reset, MayCall, walk
  <2> HIDE DEF l
  <2>4. Listed' = {l[i] : i \in DOMAIN l} \union {t} /\ (Increasing(l, Keys) => Increasing(list', Keys'))
    BY <2>1, <2>2, <2>3, InitUnlocked
  <2>5. /\ list' \in Seq(Timers) /\ Distinct(list')
        /\ start' \in [Timers -> Nat \union {-1}] /\ start'[t] = now
        /\ \A u \in Timers \ {t} : start'[u] = start[u] /\ Key(u)' = Key(u)
        /\ Key(t)' = now + Expire[t]
        /\ next_wakeup' \in Nat /\ next_wakeup' <= next_wakeup /\ next_wakeup' <= Expire[t]
    BY <2>1, <2>2, <2>3, InitUnlocked
  <2>6. Listed' = Listed \union {t}
    BY <2>1, <2>4
  <2> QED BY <2>1, <2>2, <2>4, <2>5, <2>6
<1> QED BY <1>2, <1>3

\* A mark that falls into a search ends the process, or leaves the timer listed
\* somewhere and the other one marked.
LEMMA Races ==
    ASSUME TypeOK, Marks, NEW t \in Timers, WakeUpDuringSearch(t)
    PROVE  /\ concurrent /\ pc = "expired" /\ timer \in Timers
           /\ UNCHANGED <<concurrent, last_wakeup, now, critical, at, timer>>
           /\ \/ pc' = "raced" /\ UNCHANGED <<list, start, next_wakeup>>
              \/ /\ pc' = "callback" /\ list' \in Seq(Timers) /\ Distinct(list')
                 /\ Listed' = Listed \union {t} /\ next_wakeup' \in Nat
                 /\ start' \in [Timers -> Nat \union {-1}]
                 /\ \A u \in Timers \ {timer} : start'[u] = IF u = t THEN now ELSE start[u]
<1> DEFINE l == Without(list, t)
<1>1. /\ list \in Seq(Timers) /\ Distinct(list) /\ start \in [Timers -> Nat \union {-1}]
      /\ now \in Nat /\ next_wakeup \in Nat /\ Expire[t] \in Nat
  BY ExpireAssumption DEF TypeOK, Distinct
<1>2. concurrent /\ pc = "expired" /\ UNCHANGED <<concurrent, last_wakeup, now, critical, at, timer>>
  BY DEF WakeUpDuringSearch
<1>3. timer \in Timers
  BY <1>2 DEF Marks
<1>4. PICK n \in 0 .. Looks(l) - 1 :
         IF Previous(l, t, MarkedAfter(n, l, t)) = Abort THEN aborts("raced")
         ELSE timer_init_unlocked(l, t, MarkedAfter(n, l, t)) /\ pc' = "callback"
  BY DEF WakeUpDuringSearch
<1>5. l \in Seq(Timers) /\ Distinct(l) /\ {l[i] : i \in DOMAIN l} = Listed \ {t}
  BY <1>1, WithoutFacts DEF Listed
<1> HIDE DEF l
<1> DEFINE seen == MarkedAfter(n, l, t)
           p    == Previous(l, t, seen)
<1>6. Len(l) \in Nat /\ Looks(l) \in 1 .. Looks(l) /\ n \in Int /\ ~ (Looks(l) <= n)
  BY <1>5, LenProperties DEF Looks
<1>7. /\ Started(t) \in [Timers -> Nat \union {-1}]
      /\ [Started(t) EXCEPT ![timer] = -1] \in [Timers -> Nat \union {-1}]
  BY <1>1, <1>3 DEF Started
<1>8. seen \in [1 .. Looks(l) -> [Timers -> Int]]
  <2>1. Started(t) \in [Timers -> Int] /\ [Started(t) EXCEPT ![timer] = -1] \in [Timers -> Int]
    BY <1>7
  <2> QED BY <2>1 DEF MarkedAfter
<1>9. seen[Looks(l)] = [Started(t) EXCEPT ![timer] = -1]
  BY <1>6 DEF MarkedAfter
<1>10. CASE p = Abort
  BY <1>2, <1>3, <1>4, <1>10 DEF aborts
<1>11. CASE p # Abort
  <2>1. pc' = "callback" /\ list' = InsertAfter(l, p, t) /\ next_wakeup' = Min(next_wakeup, Expire[t])
        /\ start' = [Started(t) EXCEPT ![timer] = -1]
    BY <1>4, <1>9, <1>11 DEF timer_init_unlocked
  <2>2. p \in 0 .. Len(l)
    <3> HIDE DEF seen
    <3> QED BY <1>5, <1>8, <1>11, PreviousType
  <2> HIDE DEF p
  <2>3. t \notin {l[i] : i \in DOMAIN l}
    BY <1>5
  <2> DEFINE r == InsertAfter(l, p, t)
  <2>4. /\ r \in Seq(Timers) /\ DOMAIN r = 1 .. Len(l) + 1
    BY <1>5, <2>2, InsertFacts
  <2>5. \A x : (\E i \in 1 .. Len(l) + 1 : r[i] = x) <=> (x = t \/ \E i \in DOMAIN l : l[i] = x)
    BY <1>5, <2>2, InsertFacts, ZenonT(60)
  <2>6. Distinct(r)
    BY <1>5, <2>2, <2>3, InsertDistinct
  <2> HIDE DEF r
  <2>7. {r[i] : i \in DOMAIN r} = {l[i] : i \in DOMAIN l} \union {t}
    BY <2>4, <2>5
  <2>8. Listed' = Listed \union {t}
    BY <1>5, <2>1, <2>7 DEF Listed, r
  <2>9. next_wakeup' \in Nat
    BY <1>1, <2>1 DEF Min
  <2>10. ASSUME NEW u \in Timers \ {timer} PROVE start'[u] = IF u = t THEN now ELSE start[u]
    <3>1. start'[u] = Started(t)[u]
      BY <1>7, <2>1
    <3>2. Started(t)[u] = IF u = t THEN now ELSE start[u]
      BY <1>1 DEF Started
    <3> QED BY <3>1, <3>2
  <2> QED BY <1>2, <1>3, <1>7, <2>1, <2>4, <2>6, <2>8, <2>9, <2>10 DEF r
<1> QED BY <1>10, <1>11

\* prelude_timer_destroy takes the timer out of the list and changes no other.
LEMMA Destroys ==
    ASSUME TypeOK, NEW t \in Timers, prelude_timer_destroy(t)
    PROVE  /\ list' \in Seq(Timers) /\ Distinct(list') /\ Listed' = Listed \ {t}
           /\ Increasing(list, Keys) => Increasing(list', Keys')
           /\ \A u \in Timers : Key(u)' = Key(u)
           /\ UNCHANGED <<concurrent, start, next_wakeup, last_wakeup, now, critical, walk>>
           /\ concurrent \/ pc \in {"idle", "callback"}
<1>1. list \in Seq(Timers) /\ Distinct(list)
  BY DEF TypeOK, Distinct
<1>2. /\ list' = Without(list, t)
      /\ UNCHANGED <<concurrent, start, next_wakeup, last_wakeup, now, critical, walk>>
      /\ concurrent \/ pc \in {"idle", "callback"}
  BY DEF prelude_timer_destroy, MayCall
<1> DEFINE l == Without(list, t)
<1>3. /\ l \in Seq(Timers) /\ Distinct(l) /\ {l[i] : i \in DOMAIN l} = Listed \ {t}
      /\ Increasing(list, Keys) => Increasing(l, Keys)
  BY <1>1, WithoutFacts DEF Listed
<1>4. Keys' = Keys /\ \A u \in Timers : Key(u)' = Key(u)
  BY <1>2 DEF Keys, Key
<1>5. list' = l
  BY <1>2
<1> HIDE DEF l
<1> QED BY <1>2, <1>3, <1>4, <1>5 DEF Listed

-----------------------------------------------------------------------------
(* Each part of the invariant is kept by every step.                       *)

\* Types, and that a timer is listed at most once.
LEMMA TypeStep == TypeOK /\ Marks /\ [Next]_vars => TypeOK'
<1> SUFFICES ASSUME TypeOK, Marks, [Next]_vars PROVE TypeOK'
  OBVIOUS
<1>1. CASE Tick
  BY <1>1 DEF TypeOK, Tick, walk
<1>2. ASSUME NEW t \in Timers, prelude_timer_init(t) \/ prelude_timer_reset(t) PROVE TypeOK'
  <2>1. /\ list' \in Seq(Timers) /\ Distinct(list') /\ start' \in [Timers -> Nat \union {-1}]
        /\ next_wakeup' \in Nat /\ UNCHANGED <<concurrent, last_wakeup, now, critical, walk>>
    BY <1>2, Lists
  <2> QED BY <2>1 DEF TypeOK, Distinct, walk
<1>3. ASSUME NEW t \in Timers, prelude_timer_destroy(t) PROVE TypeOK'
  <2>1. /\ list' \in Seq(Timers) /\ Distinct(list')
        /\ UNCHANGED <<concurrent, start, next_wakeup, last_wakeup, now, critical, walk>>
    BY <1>3, Destroys
  <2> QED BY <2>1 DEF TypeOK, Distinct, walk
<1>4. CASE prelude_timer_lock_critical_region
  BY <1>4 DEF TypeOK, prelude_timer_lock_critical_region, walk
<1>5. CASE prelude_timer_unlock_critical_region
  BY <1>5 DEF TypeOK, prelude_timer_unlock_critical_region, walk
<1>6. CASE prelude_timer_flush
  BY <1>6 DEF TypeOK, prelude_timer_flush
<1>7. CASE prelude_timer_wake_up
  BY <1>7 DEF TypeOK, prelude_timer_wake_up
<1>8. CASE get_next_timer
  <2>1. UNCHANGED <<concurrent, list, start, next_wakeup, last_wakeup, now, critical, at>> /\ pc' \in {"done", "check"}
    BY <1>8 DEF get_next_timer
  <2>2. timer' \in Timers \union {NoTimer}
    <3>1. list # <<>> => list[1] \in Timers
      BY HeadTailProperties DEF TypeOK
    <3> QED BY <1>8, <3>1 DEF get_next_timer, TypeOK
  <2> QED BY <2>1, <2>2 DEF TypeOK
<1>9. CASE IsExpired
  BY <1>9 DEF TypeOK, IsExpired, Gone
<1>10. CASE WakeUp
  <2>1. start' \in [Timers -> Nat \union {-1}]
    BY <1>10 DEF TypeOK, WakeUp
  <2> QED BY <1>10, <2>1 DEF TypeOK, WakeUp
<1>11. CASE NotYet
  <2>1. next_wakeup' \in Nat
    <3>1. timer \in Timers /\ start \in [Timers -> Nat \union {-1}] /\ at \in Int
      BY <1>11 DEF NotYet, Marks, TypeOK
    <3>2. start[timer] \in Int /\ Expire[timer] \in Int
      BY <3>1, KeyType
    <3>3. ~ (at - start[timer] >= Expire[timer]) /\ next_wakeup' = Expire[timer] - (at - start[timer])
      BY <1>11 DEF NotYet, Expired, TimeElapsed, time_remaining
    <3> QED BY <3>1, <3>2, <3>3
  <2> QED BY <1>11, <2>1 DEF TypeOK, NotYet
<1>12. CASE CallbackReturns
  BY <1>12 DEF TypeOK, CallbackReturns
<1>13. CASE Done
  BY <1>13 DEF TypeOK, Done
<1>15. ASSUME NEW t \in Timers, WakeUpDuringSearch(t) PROVE TypeOK'
  <2>1. /\ list' \in Seq(Timers) /\ Distinct(list') /\ start' \in [Timers -> Nat \union {-1}]
        /\ next_wakeup' \in Nat /\ UNCHANGED <<concurrent, last_wakeup, now, critical, at, timer>>
        /\ pc' \in {"raced", "callback"}
    BY <1>15, Races DEF TypeOK, Distinct
  <2> QED BY <2>1 DEF TypeOK, Distinct, Gone
<1>14. CASE UNCHANGED vars
  BY <1>14 DEF TypeOK, vars
<1> QED BY <1>1, <1>2, <1>3, <1>4, <1>5, <1>6, <1>7, <1>8, <1>9, <1>10, <1>11, <1>12, <1>13, <1>14, <1>15
        DEF Next, Application, Walk

\* The mark of a timer whose callback runs.
LEMMA MarksStep == Returning /\ TypeOK /\ Marks /\ [Next]_vars => Marks'
<1> SUFFICES ASSUME Returning, TypeOK, Marks, [Next]_vars PROVE Marks'
  OBVIOUS
<1>a. ASSUME UNCHANGED <<list, start>> PROVE Listed' = Listed
  BY <1>a DEF Listed
<1>b. Listed \subseteq Timers /\ now # -1
  BY DEF Listed, TypeOK
<1>1. CASE Tick
  BY <1>1, <1>a DEF Marks, Tick, walk
<1>2. ASSUME NEW t \in Timers, prelude_timer_init(t) \/ prelude_timer_reset(t) PROVE Marks'
  <2>1. /\ Listed' = Listed \union {t} /\ start'[t] = now /\ \A u \in Timers \ {t} : start'[u] = start[u]
        /\ UNCHANGED <<pc, timer>>
    BY <1>2, Lists DEF walk
  <2>2. ASSUME NEW u \in Timers, start'[u] = -1 PROVE start[u] = -1 /\ u # t
    BY <1>b, <2>1, <2>2
  <2> QED BY <1>b, <2>1, <2>2 DEF Marks
<1>3. ASSUME NEW t \in Timers, prelude_timer_destroy(t) PROVE Marks'
  <2>1. Listed' = Listed \ {t} /\ UNCHANGED <<start, pc, timer>>
    BY <1>3, Destroys DEF walk
  <2> QED BY <2>1 DEF Marks
<1>4. CASE prelude_timer_lock_critical_region
  BY <1>4, <1>a DEF Marks, prelude_timer_lock_critical_region, walk
<1>5. CASE prelude_timer_unlock_critical_region
  BY <1>5, <1>a DEF Marks, prelude_timer_unlock_critical_region, walk
<1>6. CASE prelude_timer_flush
  BY <1>6, <1>a DEF Marks, prelude_timer_flush
<1>7. CASE prelude_timer_wake_up
  BY <1>7, <1>a DEF Marks, prelude_timer_wake_up
<1>8. CASE get_next_timer
  <2>1. list # <<>> => list[1] \in Listed /\ list[1] \in Timers
    <3>1. list # <<>> => 1 \in DOMAIN list
      BY EmptySeq, LenProperties DEF TypeOK
    <3> QED BY <1>b, <3>1 DEF Listed
  <2>2. UNCHANGED <<list, start>> /\ pc = "walk" /\ (pc' = "done" \/ (pc' = "check" /\ list # <<>> /\ timer' = list[1]))
    BY <1>8 DEF get_next_timer
  <2> QED BY <1>a, <2>1, <2>2 DEF Marks
<1>9. CASE IsExpired
  BY <1>9, <1>a DEF Marks, IsExpired
<1>10. CASE WakeUp
  <2>1. timer \in Timers /\ UNCHANGED <<list, timer>> /\ Listed' = Listed /\ pc' = "callback" /\ pc = "expired"
    BY <1>10 DEF WakeUp, Marks, Listed
  <2>2. \A u \in Timers \ {timer} : start'[u] = start[u]
    BY <1>10 DEF WakeUp, TypeOK
  <2> QED BY <1>b, <2>1, <2>2 DEF Marks
<1>11. CASE NotYet
  BY <1>11, <1>a DEF Marks, NotYet
<1>12. CASE CallbackReturns
  BY <1>12, <1>a DEF Marks, CallbackReturns, Returning
<1>13. CASE Done
  BY <1>13, <1>a DEF Marks, Done
<1>15. ASSUME NEW t \in Timers, WakeUpDuringSearch(t) PROVE Marks'
  <2>1. pc = "expired" /\ timer \in Timers /\ timer' = timer
    BY <1>15, Races
  <2>2. CASE pc' = "raced" /\ UNCHANGED <<list, start>>
    BY <1>a, <2>1, <2>2 DEF Marks
  <2>3. CASE /\ pc' = "callback" /\ Listed' = Listed \union {t}
             /\ \A u \in Timers \ {timer} : start'[u] = IF u = t THEN now ELSE start[u]
    <3>1. ASSUME NEW u \in Listed', start'[u] = -1 PROVE u = timer
      BY <1>b, <2>1, <2>3, <3>1 DEF Marks
    <3> QED BY <2>1, <2>3, <3>1 DEF Marks
  <2> QED BY <1>15, <2>2, <2>3, Races
<1>14. CASE UNCHANGED vars
  BY <1>14, <1>a DEF Marks, vars
<1> QED BY <1>1, <1>2, <1>3, <1>4, <1>5, <1>6, <1>7, <1>8, <1>9, <1>10, <1>11, <1>12, <1>13, <1>14, <1>15
        DEF Next, Application, Walk

\* The timer in hand of a program of one thread.
LEMMA AtHeadStep == TypeOK /\ Marks /\ AtHead /\ [Next]_vars => AtHead'
<1> SUFFICES ASSUME TypeOK, Marks, AtHead, [Next]_vars PROVE AtHead'
  OBVIOUS
<1>1. CASE Tick
  BY <1>1 DEF AtHead, Tick, walk
<1>2. ASSUME NEW t \in Timers, prelude_timer_init(t) \/ prelude_timer_reset(t) PROVE AtHead'
  <2>1. UNCHANGED <<concurrent, pc>> /\ (concurrent \/ pc \in {"idle", "callback"})
    BY <1>2, Lists DEF walk
  <2> QED BY <2>1 DEF AtHead
<1>3. ASSUME NEW t \in Timers, prelude_timer_destroy(t) PROVE AtHead'
  <2>1. UNCHANGED <<concurrent, pc>> /\ (concurrent \/ pc \in {"idle", "callback"})
    BY <1>3, Destroys DEF walk
  <2> QED BY <2>1 DEF AtHead
<1>4. CASE prelude_timer_lock_critical_region
  BY <1>4 DEF AtHead, prelude_timer_lock_critical_region, walk
<1>5. CASE prelude_timer_unlock_critical_region
  BY <1>5 DEF AtHead, prelude_timer_unlock_critical_region, walk
<1>6. CASE prelude_timer_flush
  BY <1>6 DEF AtHead, prelude_timer_flush
<1>7. CASE prelude_timer_wake_up
  BY <1>7 DEF AtHead, prelude_timer_wake_up
<1>8. CASE get_next_timer
  BY <1>8 DEF AtHead, get_next_timer
<1>9. CASE IsExpired
  BY <1>9 DEF AtHead, IsExpired
<1>10. CASE WakeUp
  BY <1>10 DEF AtHead, WakeUp
<1>11. CASE NotYet
  BY <1>11 DEF AtHead, NotYet
<1>12. CASE CallbackReturns
  BY <1>12 DEF AtHead, CallbackReturns
<1>13. CASE Done
  BY <1>13 DEF AtHead, Done
<1>15. ASSUME NEW t \in Timers, WakeUpDuringSearch(t) PROVE AtHead'
  BY <1>15, Races DEF AtHead
<1>14. CASE UNCHANGED vars
  BY <1>14 DEF AtHead, vars
<1> QED BY <1>1, <1>2, <1>3, <1>4, <1>5, <1>6, <1>7, <1>8, <1>9, <1>10, <1>11, <1>12, <1>13, <1>14, <1>15
        DEF Next, Application, Walk

\* Time does not go back.
LEMMA PastStep == TypeOK /\ Marks /\ Past /\ [Next]_vars => Past'
<1> SUFFICES ASSUME TypeOK, Marks, Past, [Next]_vars PROVE Past'
  OBVIOUS
<1>a. now \in Nat /\ last_wakeup \in Nat /\ at \in Int
  BY DEF TypeOK
<1>1. CASE Tick
  BY <1>1, <1>a DEF Past, Tick, walk
<1>2. ASSUME NEW t \in Timers, prelude_timer_init(t) \/ prelude_timer_reset(t) PROVE Past'
  <2>1. UNCHANGED <<at, last_wakeup, now>>
    BY <1>2, Lists DEF walk
  <2> QED BY <2>1 DEF Past
<1>3. ASSUME NEW t \in Timers, prelude_timer_destroy(t) PROVE Past'
  <2>1. UNCHANGED <<at, last_wakeup, now>>
    BY <1>3, Destroys DEF walk
  <2> QED BY <2>1 DEF Past
<1>4. CASE prelude_timer_lock_critical_region
  BY <1>4, <1>a DEF Past, prelude_timer_lock_critical_region, walk
<1>5. CASE prelude_timer_unlock_critical_region
  BY <1>5, <1>a DEF Past, prelude_timer_unlock_critical_region, walk
<1>6. CASE prelude_timer_flush
  BY <1>6, <1>a DEF Past, prelude_timer_flush
<1>7. CASE prelude_timer_wake_up
  BY <1>7, <1>a DEF Past, prelude_timer_wake_up
<1>8. CASE get_next_timer
  BY <1>8, <1>a DEF Past, get_next_timer
<1>9. CASE IsExpired
  BY <1>9, <1>a DEF Past, IsExpired
<1>10. CASE WakeUp
  BY <1>10, <1>a DEF Past, WakeUp
<1>11. CASE NotYet
  BY <1>11, <1>a DEF Past, NotYet
<1>12. CASE CallbackReturns
  BY <1>12, <1>a DEF Past, CallbackReturns
<1>13. CASE Done
  BY <1>13, <1>a DEF Past, Done
<1>15. ASSUME NEW t \in Timers, WakeUpDuringSearch(t) PROVE Past'
  <2>1. UNCHANGED <<at, last_wakeup, now>>
    BY <1>15, Races
  <2> QED BY <2>1 DEF Past
<1>14. CASE UNCHANGED vars
  BY <1>14, <1>a DEF Past, vars
<1> QED BY <1>1, <1>2, <1>3, <1>4, <1>5, <1>6, <1>7, <1>8, <1>9, <1>10, <1>11, <1>12, <1>13, <1>14, <1>15
        DEF Next, Application, Walk

\* Sorted, in the terms of the lemmas.
LEMMA SortedKeys == TypeOK => (Sorted <=> (~ concurrent => Increasing(list, Keys)))
<1> SUFFICES ASSUME TypeOK PROVE Sorted <=> (~ concurrent => Increasing(list, Keys))
  OBVIOUS
<1>1. \A i \in DOMAIN list : Keys[list[i]] = Key(list[i])
  BY ElementOfSeq, LenProperties DEF TypeOK, Keys
<1> QED BY <1>1 DEF Sorted, Increasing

\* The list of a program of one thread stays sorted.
LEMMA SortedStep == TypeOK /\ TypeOK' /\ AtHead /\ Marks /\ Sorted /\ [Next]_vars => Sorted'
<1> SUFFICES ASSUME TypeOK, TypeOK', AtHead, Marks, Sorted, [Next]_vars PROVE Sorted'
  OBVIOUS
<1>a. ASSUME UNCHANGED <<list, start, concurrent>> PROVE Sorted'
  BY <1>a DEF Sorted, Key
<1>b. ASSUME concurrent' = concurrent, Increasing(list, Keys) => Increasing(list', Keys') PROVE Sorted'
  <2>1. Sorted' <=> (~ concurrent' => Increasing(list', Keys'))
    <3>1. \A i \in DOMAIN list' : Keys'[list'[i]] = Key(list[i])'
      BY ElementOfSeq, LenProperties DEF TypeOK, Keys, Key
    <3> QED BY <3>1 DEF Sorted, Increasing
  <2>2. ~ concurrent => Increasing(list, Keys)
    BY SortedKeys
  <2> QED BY <1>b, <2>1, <2>2
<1>1. CASE Tick
  BY <1>1, <1>a DEF Tick, walk
<1>2. ASSUME NEW t \in Timers, prelude_timer_init(t) \/ prelude_timer_reset(t) PROVE Sorted'
  BY <1>2, <1>b, Lists
<1>3. ASSUME NEW t \in Timers, prelude_timer_destroy(t) PROVE Sorted'
  BY <1>3, <1>b, Destroys
<1>4. CASE prelude_timer_lock_critical_region
  BY <1>4, <1>a DEF prelude_timer_lock_critical_region, walk
<1>5. CASE prelude_timer_unlock_critical_region
  BY <1>5, <1>a DEF prelude_timer_unlock_critical_region, walk
<1>6. CASE prelude_timer_flush
  BY <1>6, <1>a DEF prelude_timer_flush
<1>7. CASE prelude_timer_wake_up
  BY <1>7, <1>a DEF prelude_timer_wake_up
<1>8. CASE get_next_timer
  BY <1>8, <1>a DEF get_next_timer
<1>9. CASE IsExpired
  BY <1>9, <1>a DEF IsExpired
<1>10. CASE WakeUp
  <2> SUFFICES ASSUME ~ concurrent', NEW i \in DOMAIN list', NEW j \in DOMAIN list', i < j
               PROVE  Key(list[i])' <= Key(list[j])'
    BY DEF Sorted
  <2>1. /\ list' = list /\ concurrent' = concurrent /\ timer = list[1] /\ timer \in Timers
        /\ start' = [start EXCEPT ![timer] = -1]
    BY <1>10 DEF WakeUp, AtHead, Marks
  <2>2. /\ start \in [Timers -> Nat \union {-1}] /\ Len(list) \in Nat /\ DOMAIN list = 1 .. Len(list)
        /\ \A k \in DOMAIN list : list[k] \in Timers
    BY LenProperties, ElementOfSeq DEF TypeOK
  <2>3. list[j] # timer
    <3>1. 1 \in DOMAIN list /\ j # 1
      BY <2>1, <2>2
    <3> QED BY <2>1, <3>1 DEF TypeOK
  <2>4. Key(list[j])' = Key(list[j]) /\ Key(list[i])' <= Key(list[i]) /\ Key(list[i])' \in Int
    <3>1. list[i] \in Timers /\ list[j] \in Timers /\ Expire[list[i]] \in Int /\ start[list[i]] \in Nat \union {-1}
      BY <2>1, <2>2, KeyType
    <3>2. start'[list[j]] = start[list[j]] /\ start'[list[i]] \in {start[list[i]], -1}
      BY <2>1, <2>2, <2>3, <3>1
    <3>3. start'[list[i]] <= start[list[i]] /\ start'[list[i]] \in Int /\ start[list[i]] \in Int
      BY <3>1, <3>2
    <3>4. start'[list[i]] + Expire[list[i]] <= start[list[i]] + Expire[list[i]]
      BY <3>1, <3>3
    <3> QED BY <2>1, <3>1, <3>2, <3>3, <3>4 DEF Key
  <2>5. Key(list[i]) <= Key(list[j]) /\ Key(list[i]) \in Int /\ Key(list[j]) \in Int
    BY <2>1, <2>2, KeyType DEF Sorted
  <2> QED BY <2>4, <2>5
<1>11. CASE NotYet
  BY <1>11, <1>a DEF NotYet
<1>12. CASE CallbackReturns
  BY <1>12, <1>a DEF CallbackReturns
<1>13. CASE Done
  BY <1>13, <1>a DEF Done
<1>15. ASSUME NEW t \in Timers, WakeUpDuringSearch(t) PROVE Sorted'
  <2>1. concurrent'
    BY <1>15, Races
  <2> QED BY <2>1 DEF Sorted
<1>14. CASE UNCHANGED vars
  BY <1>14, <1>a DEF vars
<1> QED BY <1>1, <1>2, <1>3, <1>4, <1>5, <1>6, <1>7, <1>8, <1>9, <1>10, <1>11, <1>12, <1>13, <1>14, <1>15
        DEF Next, Application, Walk

\* A walk ends with the time that is left until the first timer expires.
LEMMA WalkedStep ==
    TypeOK /\ AtHead /\ Marks /\ Sorted /\ WalkedInTime /\ [Next]_vars => WalkedInTime'
<1> SUFFICES ASSUME TypeOK, AtHead, Marks, Sorted, WalkedInTime, [Next]_vars,
                    ~ concurrent', pc' = "done"
             PROVE  (list = <<>> \/ (at # -1 /\ \A t \in Listed : at + next_wakeup <= Key(t)))'
  BY DEF WalkedInTime
<1>a. ASSUME UNCHANGED <<list, start, at, next_wakeup, concurrent, pc>>
      PROVE  (list = <<>> \/ (at # -1 /\ \A t \in Listed : at + next_wakeup <= Key(t)))'
  BY <1>a DEF WalkedInTime, Listed, Key
<1>1. CASE Tick
  BY <1>1, <1>a DEF Tick, walk
<1>2. ASSUME NEW t \in Timers, prelude_timer_init(t) \/ prelude_timer_reset(t) PROVE FALSE
  BY <1>2, Lists DEF walk
<1>3. ASSUME NEW t \in Timers, prelude_timer_destroy(t) PROVE FALSE
  BY <1>3, Destroys DEF walk
<1>4. CASE prelude_timer_lock_critical_region
  BY <1>4, <1>a DEF prelude_timer_lock_critical_region, walk
<1>5. CASE prelude_timer_unlock_critical_region
  BY <1>5, <1>a DEF prelude_timer_unlock_critical_region, walk
<1>6. CASE prelude_timer_flush
  BY <1>6 DEF prelude_timer_flush
<1>7. CASE prelude_timer_wake_up
  BY <1>7 DEF prelude_timer_wake_up
<1>8. CASE get_next_timer
  BY <1>8 DEF get_next_timer
<1>9. CASE IsExpired
  BY <1>9 DEF IsExpired
<1>10. CASE WakeUp
  BY <1>10 DEF WakeUp
<1>11. CASE NotYet
  <2>1. /\ UNCHANGED <<list, start, concurrent, at>> /\ timer = list[1] /\ list # <<>> /\ timer \in Timers
        /\ next_wakeup' = Expire[timer] - (at - start[timer]) /\ at # -1
    BY <1>11 DEF NotYet, Expired, AtHead, Marks, time_remaining, TimeElapsed
  <2>2. /\ start[timer] \in Int /\ Expire[timer] \in Int /\ at \in Int
        /\ Len(list) \in Nat /\ DOMAIN list = 1 .. Len(list) /\ Len(list) # 0
        /\ \A i \in 1 .. Len(list) : list[i] \in Timers
    BY <2>1, KeyType, LenProperties, EmptySeq, ElementOfSeq, SMTT(60) DEF TypeOK
  <2>3. at' + next_wakeup' = Key(timer) /\ Key(timer) \in Int
    <3>1. \A a, b, c \in Int : a + (b - (a - c)) = c + b /\ c + b \in Int
      OBVIOUS
    <3> QED BY <2>1, <2>2, <3>1 DEF Key
  <2>4. ASSUME NEW i \in DOMAIN list PROVE Key(timer) <= Key(list[i])
    <3>1. 1 \in DOMAIN list /\ (i = 1 \/ 1 < i)
      BY <2>2
    <3> QED BY <2>1, <2>3, <3>1 DEF Sorted
  <2>5. ASSUME NEW t \in Listed' PROVE at' + next_wakeup' <= Key(t)'
    BY <2>1, <2>3, <2>4, <2>5 DEF Listed, Key
  <2> QED BY <2>1, <2>5
<1>12. CASE CallbackReturns
  BY <1>12 DEF CallbackReturns
<1>13. CASE Done
  BY <1>13 DEF Done
<1>15. ASSUME NEW t \in Timers, WakeUpDuringSearch(t) PROVE FALSE
  BY <1>15, Races
<1>14. CASE UNCHANGED vars
  BY <1>14, <1>a DEF vars
<1> QED BY <1>1, <1>2, <1>3, <1>4, <1>5, <1>6, <1>7, <1>8, <1>9, <1>10, <1>11, <1>12, <1>13, <1>14, <1>15
        DEF Next, Application, Walk

\* Between two walks a timer that is added lowers next_wakeup if it must.
LEMMA WakesStep ==
    TypeOK /\ Marks /\ Past /\ WalkedInTime /\ WakesInTime /\ [Next]_vars => WakesInTime'
<1> SUFFICES ASSUME TypeOK, Marks, Past, WalkedInTime, WakesInTime, [Next]_vars,
                    ~ concurrent', pc' = "idle"
             PROVE  (\A t \in Listed : last_wakeup + next_wakeup <= Key(t))'
  BY DEF WakesInTime
<1>a. ASSUME UNCHANGED <<list, start, last_wakeup, next_wakeup, concurrent, pc>>
      PROVE  (\A t \in Listed : last_wakeup + next_wakeup <= Key(t))'
  BY <1>a DEF WakesInTime, Listed, Key
<1>b. /\ last_wakeup \in Nat /\ next_wakeup \in Nat /\ now \in Nat /\ Listed \subseteq Timers
      /\ \A t \in Timers : Key(t) \in Int /\ Expire[t] \in Int
  BY KeyType DEF TypeOK, Listed
<1>1. CASE Tick
  BY <1>1, <1>a DEF Tick, walk
<1>2. ASSUME NEW t \in Timers, prelude_timer_init(t) \/ prelude_timer_reset(t)
      PROVE  (\A u \in Listed : last_wakeup + next_wakeup <= Key(u))'
  <2>1. /\ Listed' = Listed \union {t} /\ \A u \in Timers \ {t} : Key(u)' = Key(u)
        /\ Key(t)' = now + Expire[t]
        /\ next_wakeup' \in Nat /\ next_wakeup' <= next_wakeup /\ next_wakeup' <= Expire[t]
        /\ UNCHANGED <<concurrent, last_wakeup, pc>>
    BY <1>2, Lists DEF walk
  <2>2. last_wakeup' + next_wakeup' <= Key(t)'
    BY <1>b, <2>1 DEF Past
  <2>3. ASSUME NEW u \in Listed \ {t} PROVE last_wakeup' + next_wakeup' <= Key(u)'
    <3>1. last_wakeup + next_wakeup <= Key(u) /\ u \in Timers /\ Key(u)' = Key(u) /\ Key(u) \in Int
      BY <1>b, <2>1 DEF WakesInTime
    <3>2. ASSUME NEW a \in Nat, NEW b \in Nat, NEW c \in Nat, NEW k \in Int, c <= b, a + b <= k
          PROVE  a + c <= k
      BY <3>2
    <3> QED BY <1>b, <2>1, <3>1, <3>2
  <2> QED BY <2>1, <2>2, <2>3
<1>3. ASSUME NEW t \in Timers, prelude_timer_destroy(t)
      PROVE  (\A u \in Listed : last_wakeup + next_wakeup <= Key(u))'
  <2>1. /\ Listed' = Listed \ {t} /\ \A u \in Timers : Key(u)' = Key(u)
        /\ UNCHANGED <<concurrent, last_wakeup, next_wakeup, pc>>
    BY <1>3, Destroys DEF walk
  <2> QED BY <1>b, <2>1 DEF WakesInTime
<1>4. CASE prelude_timer_lock_critical_region
  BY <1>4, <1>a DEF prelude_timer_lock_critical_region, walk
<1>5. CASE prelude_timer_unlock_critical_region
  BY <1>5, <1>a DEF prelude_timer_unlock_critical_region, walk
<1>6. CASE prelude_timer_flush
  BY <1>6 DEF prelude_timer_flush
<1>7. CASE prelude_timer_wake_up
  BY <1>7 DEF prelude_timer_wake_up
<1>8. CASE get_next_timer
  BY <1>8 DEF get_next_timer
<1>9. CASE IsExpired
  BY <1>9 DEF IsExpired
<1>10. CASE WakeUp
  BY <1>10 DEF WakeUp
<1>11. CASE NotYet
  BY <1>11 DEF NotYet
<1>12. CASE CallbackReturns
  BY <1>12 DEF CallbackReturns
<1>13. CASE Done
  <2>1. /\ pc = "done" /\ UNCHANGED <<list, start, next_wakeup, concurrent>>
        /\ last_wakeup' = IF at = -1 THEN last_wakeup ELSE at
    BY <1>13 DEF Done
  <2>2. CASE list = <<>>
    BY <2>1, <2>2 DEF Listed
  <2>3. CASE at # -1 /\ \A t \in Listed : at + next_wakeup <= Key(t)
    BY <2>1, <2>3 DEF Listed, Key
  <2> QED BY <2>1, <2>2, <2>3 DEF WalkedInTime
<1>15. ASSUME NEW t \in Timers, WakeUpDuringSearch(t) PROVE FALSE
  BY <1>15, Races
<1>14. CASE UNCHANGED vars
  BY <1>14, <1>a DEF vars
<1> QED BY <1>1, <1>2, <1>3, <1>4, <1>5, <1>6, <1>7, <1>8, <1>9, <1>10, <1>11, <1>12, <1>13, <1>14, <1>15
        DEF Next, Application, Walk

\* No step aborts, but the one that a mark falls into.
LEMMA AbortsStep == TypeOK /\ Marks /\ NeverAborts /\ [Next]_vars => NeverAborts'
<1> SUFFICES ASSUME TypeOK, Marks, NeverAborts, [Next]_vars PROVE pc' # "aborted"
  BY DEF NeverAborts
<1>a. pc # "aborted"
  BY DEF NeverAborts
<1>1. CASE Tick
  BY <1>1, <1>a DEF Tick, walk
<1>2. ASSUME NEW t \in Timers, prelude_timer_init(t) \/ prelude_timer_reset(t) PROVE pc' # "aborted"
  BY <1>2, <1>a, Lists DEF walk
<1>3. ASSUME NEW t \in Timers, prelude_timer_destroy(t) PROVE pc' # "aborted"
  BY <1>3, <1>a, Destroys DEF walk
<1>4. CASE prelude_timer_lock_critical_region \/ prelude_timer_unlock_critical_region
  BY <1>4, <1>a DEF prelude_timer_lock_critical_region, prelude_timer_unlock_critical_region, walk
<1>5. CASE prelude_timer_flush \/ prelude_timer_wake_up
  BY <1>5 DEF prelude_timer_flush, prelude_timer_wake_up
<1>6. CASE get_next_timer
  BY <1>6 DEF get_next_timer
<1>7. CASE IsExpired
  BY <1>7 DEF IsExpired, Marks
<1>8. CASE WakeUp \/ NotYet \/ CallbackReturns \/ Done
  BY <1>8 DEF WakeUp, NotYet, CallbackReturns, Done
<1>9. ASSUME NEW t \in Timers, WakeUpDuringSearch(t) PROVE pc' # "aborted"
  BY <1>9, Races
<1>10. CASE UNCHANGED vars
  BY <1>10, <1>a DEF vars
<1> QED BY <1>1, <1>2, <1>3, <1>4, <1>5, <1>6, <1>7, <1>8, <1>9, <1>10 DEF Next, Application, Walk

\* The invariant holds at first.
LEMMA TimerInit == Init => TimerInv
<1> SUFFICES ASSUME Init PROVE TimerInv
  OBVIOUS
<1>1. list = <<>> /\ Listed = {} /\ pc = "idle" /\ Epoch \in Nat
  BY EpochAssumption DEF Init, Listed
<1>2. TypeOK
  <2>1. list \in Seq(Timers) /\ \A i, j \in DOMAIN list : list[i] = list[j] => i = j
    BY <1>1, EmptySeq
  <2>2. concurrent \in BOOLEAN /\ critical \in BOOLEAN
    BY ProgramsAssumption DEF Init
  <2>3. start \in [Timers -> Nat \union {-1}] /\ now \in Nat
    BY <1>1 DEF Init
  <2> QED BY <1>1, <2>1, <2>2, <2>3 DEF Init, TypeOK
<1>3. Marks /\ AtHead /\ WalkedInTime /\ WakesInTime /\ Sorted /\ NeverAborts
  BY <1>1 DEF Marks, AtHead, WalkedInTime, WakesInTime, Sorted, NeverAborts
<1>4. Past
  BY <1>1 DEF Init, Past
<1> QED BY <1>2, <1>3, <1>4 DEF TimerInv

\* The inductive invariant of the timers.
THEOREM TimerInvariant == Returning => (Spec => []TimerInv)
<1> SUFFICES ASSUME Returning PROVE Spec => []TimerInv
  OBVIOUS
<1>1. TimerInv /\ [Next]_vars => TimerInv'
  BY TypeStep, MarksStep, AtHeadStep, PastStep, SortedStep, WalkedStep, WakesStep, AbortsStep DEF TimerInv
<1> QED BY <1>1, TimerInit, PTL DEF Spec

\* Types, and that no list operation lists a timer twice.
THEOREM TimerTypes == Returning => (Spec => []TypeOK)
<1>1. TimerInv => TypeOK
  BY DEF TimerInv
<1> QED BY <1>1, TimerInvariant, PTL

\* A search never calls abort(), however several threads reset and wake up
\* timers, unless one of them marks a timer while the search goes on, and no
\* timer is woken up again while it is marked.
THEOREM TimerNeverAborts == Returning => (Spec => []NeverAborts)
<1>1. TimerInv => NeverAborts
  BY DEF TimerInv
<1> QED BY <1>1, TimerInvariant, PTL

\* The list of a program of one thread is sorted by expiration time.
THEOREM TimerSorted == Returning => (Spec => []Sorted)
<1>1. TimerInv => Sorted
  BY DEF TimerInv
<1> QED BY <1>1, TimerInvariant, PTL

\* prelude_timer_wake_up returns in how many seconds it has to be called again,
\* and timers that are added later lower it.
THEOREM TimerWakesInTime == Returning => (Spec => []WakesInTime)
<1>1. TimerInv => WakesInTime
  BY DEF TimerInv
<1> QED BY <1>1, TimerInvariant, PTL

\* Callbacks start in the order in which their timers expire.
THEOREM TimerInOrder == Returning => (Spec => InOrder)
<1>1. TimerInv /\ [Next]_vars =>
        [WakeUp /\ ~ concurrent => timer \in Listed /\ \A t \in Listed : Key(timer) <= Key(t)]_vars
  <2> SUFFICES ASSUME TimerInv, WakeUp, ~ concurrent
               PROVE  timer \in Listed /\ \A t \in Listed : Key(timer) <= Key(t)
    OBVIOUS
  <2>1. timer = list[1] /\ list # <<>> /\ list \in Seq(Timers) /\ timer \in Timers /\ Key(timer) \in Int
    BY KeyType DEF TimerInv, AtHead, WakeUp, TypeOK, Marks
  <2>2. Len(list) \in Nat /\ Len(list) # 0 /\ DOMAIN list = 1 .. Len(list)
    BY <2>1, LenProperties, EmptySeq
  <2>3. ASSUME NEW i \in DOMAIN list PROVE Key(timer) <= Key(list[i])
    <3>1. 1 \in DOMAIN list /\ (i = 1 \/ 1 < i)
      BY <2>2
    <3> QED BY <2>1, <3>1 DEF TimerInv, Sorted
  <2> QED BY <2>1, <2>2, <2>3 DEF Listed
<1> QED BY <1>1, TimerInvariant, PTL DEF Spec, InOrder
=============================================================================
