----------------------------- MODULE PathProofs -----------------------------
(***************************************************************************)
(* Proofs about Path, for any threads, names, hash function and number of  *)
(* paths: reference counts are exact, paths are found under their names.   *)
(*                                                                         *)
(* They hold for the programs that Sound describes: one that modifies      *)
(* paths does so in the one thread that uses them, and takes no further    *)
(* references.  Without it the code modifies paths that are shared, and    *)
(* ModifiesOwn, with the reference counts, is lost.                        *)
(***************************************************************************)
EXTENDS Path, FiniteSetTheorems, SequenceTheorems, TLAPS

Sound == \A p \in Programs : p.modifies => ~ p.refs /\ \E t \in Threads : p.threads = {t}

-----------------------------------------------------------------------------
(* The inductive invariant.                                                *)

Lists == {Hash(n) : n \in Seq(Indexes)}

Types ==
    /\ program \in Programs /\ destroyed \in BOOLEAN
    /\ state \in [Paths -> {"none", "allocated", "freed"}]
    /\ name \in [Paths -> Seq(Indexes)] /\ \A p \in Paths : Len(name[p]) <= MAX_DEPTH
    /\ refcount \in [Paths -> Int]
    /\ table \in Seq([path : Paths, list : Lists])
    /\ handles \in [Threads -> [Paths -> 0 .. MaxHandles]]
    /\ pc \in [Threads -> {"idle", "add", "ref", "modify"}]
    /\ obj \in [Threads -> Paths \union {None}]
    /\ arg \in [Threads -> Seq(Indexes)] /\ \A t \in Threads : Len(arg[t]) <= MAX_DEPTH

\* The pointers that threads hold to a path; the paths of the table; the calls
\* that have a new path in hand.
Held(p) == {h \in Threads \X (1 .. MaxHandles) : h[2] <= handles[h[1]][p]}
InTable == {table[i].path : i \in 1 .. Len(table)}
Inside(p) == {t \in Threads : pc[t] = "add" /\ obj[t] = p}

\* A path is listed at most once, in the list of its name.
Listing ==
    /\ \A i, j \in 1 .. Len(table) : table[i].path = table[j].path => i = j
    /\ \A i \in 1 .. Len(table) : table[i].list = Hash(name[table[i].path])

\* What is known of the path that a call has in hand: a new path is known to no
\* other call, one that was looked up stays in the table, one that is about to
\* be modified has left it.
WhereOf(t) ==
    /\ pc[t] = "idle" <=> obj[t] = None
    /\ pc[t] # "idle" => t \in program.threads
    /\ pc[t] \in {"add", "ref"} => Room(t) /\ ~ destroyed /\ name[obj[t]] = arg[t]
    /\ pc[t] = "add" =>
          /\ state[obj[t]] = "allocated" /\ obj[t] \notin InTable /\ Held(obj[t]) = {}
          /\ \A u \in Threads : obj[u] = obj[t] => u = t
    /\ pc[t] = "ref" => obj[t] \in InTable
    /\ pc[t] = "modify" =>
          /\ program.modifies /\ state[obj[t]] = "allocated" /\ obj[t] \notin InTable
          /\ refcount[obj[t]] = 1 /\ Holds(t, obj[t])

Where == \A t \in Threads : WhereOf(t)

\* Who has a reference: the table, the threads, the call that made the path.
OfTable(p) == IF p \in InTable THEN 1 ELSE 0
OfCall(p) == IF Inside(p) # {} THEN 1 ELSE 0
OfThreads(p) == Cardinality(Held(p))

ExactOf(p) ==
    IF state[p] = "allocated" THEN refcount[p] = OfTable(p) + OfThreads(p) + OfCall(p)
    ELSE p \notin InTable /\ Held(p) = {} /\ \A t \in Threads : obj[t] # p

Exact == \A p \in Paths : ExactOf(p)

\* In a program that modifies paths, a path that has left the table has one
\* reference, and the table has each name once.
Modifying ==
    program.modifies =>
        /\ ~ destroyed => \A p \in Paths : state[p] = "allocated" /\ p \notin InTable => refcount[p] = 1
        /\ \A i, j \in 1 .. Len(table) : name[table[i].path] = name[table[j].path] => i = j
        /\ \A t \in Threads : pc[t] = "add" => \A i \in 1 .. Len(table) : name[table[i].path] # name[obj[t]]

PathInv == Types /\ Listing /\ Where /\ Exact /\ Modifying

-----------------------------------------------------------------------------
(* Facts about sets of pointers.                                           *)

\* Each path has finitely many pointers.
LEMMA HeldFinite ==
    ASSUME NEW p
    PROVE  /\ IsFiniteSet(Held(p)) /\ OfThreads(p) \in Nat /\ (OfThreads(p) = 0 <=> Held(p) = {})
           /\ IsFiniteSet(Threads \X (1 .. MaxHandles))
<1>1. IsFiniteSet(1 .. MaxHandles)
  BY FS_Interval, BoundsAssumption
<1>2. IsFiniteSet(Threads \X (1 .. MaxHandles))
  BY <1>1, FS_Product, ThreadsAssumption
<1>3. Held(p) \subseteq Threads \X (1 .. MaxHandles)
  BY DEF Held
<1>4. IsFiniteSet(Held(p))
  BY <1>2, <1>3, FS_Subset
<1> QED BY <1>2, <1>4, FS_CardinalityType, FS_EmptySet DEF OfThreads

\* A thread that has room for another pointer holds fewer than MaxHandles of each.
LEMMA RoomFact ==
    ASSUME Types, NEW t \in Threads, NEW p \in Paths, Room(t)
    PROVE  handles[t][p] < MaxHandles
<1> DEFINE S == {h \in Paths \X (1 .. MaxHandles) : h[2] <= handles[t][h[1]]}
           Q == {p} \X (1 .. MaxHandles)
<1>1. handles[t] \in [Paths -> 0 .. MaxHandles] /\ handles[t][p] \in 0 .. MaxHandles /\ MaxHandles \in Nat
  BY BoundsAssumption DEF Types
<1>2. Cardinality(S) < MaxHandles
  BY DEF Room, HandleCount
<1>3. /\ IsFiniteSet(1 .. MaxHandles) /\ Cardinality(1 .. MaxHandles) = MaxHandles
      /\ IsFiniteSet(Paths)
  <2>1. IsFiniteSet(1 .. MaxHandles) /\ Cardinality(1 .. MaxHandles) = IF 1 > MaxHandles THEN 0 ELSE MaxHandles - 1 + 1
    BY <1>1, FS_Interval
  <2>2. IsFiniteSet(Paths)
    BY FS_Interval, BoundsAssumption DEF Paths
  <2> QED BY <1>1, <2>1, <2>2
<1>4. IsFiniteSet({p}) /\ Cardinality({p}) = 1
  BY FS_Singleton
<1>5. Cardinality(Q) = 1 * MaxHandles /\ IsFiniteSet(Paths \X (1 .. MaxHandles))
  <2>1. Cardinality(Q) = Cardinality({p}) * Cardinality(1 .. MaxHandles)
    BY <1>3, <1>4, FS_Product, ZenonT(60)
  <2>2. IsFiniteSet(Paths \X (1 .. MaxHandles))
    BY <1>3, FS_Product, ZenonT(60)
  <2> QED BY <1>3, <1>4, <2>1, <2>2
<1>6. IsFiniteSet(S)
  <2>1. S \subseteq Paths \X (1 .. MaxHandles)
    OBVIOUS
  <2> QED BY <1>5, <2>1, FS_Subset
<1>7. SUFFICES ASSUME handles[t][p] = MaxHandles PROVE FALSE
  BY <1>1
<1>8. Q \subseteq S
  BY <1>1, <1>7
<1> HIDE DEF Q, S
<1>9. Cardinality(Q) <= Cardinality(S) /\ Cardinality(S) \in Nat
  BY <1>6, <1>8, FS_Subset, FS_CardinalityType
<1> QED BY <1>1, <1>2, <1>5, <1>9

\* A thread gets one more pointer to a path.
LEMMA HeldMore ==
    ASSUME Types, NEW t \in Threads, NEW p \in Paths, handles[t][p] < MaxHandles,
           handles' = [handles EXCEPT ![t][p] = @ + 1]
    PROVE  /\ handles' \in [Threads -> [Paths -> 0 .. MaxHandles]]
           /\ \A u \in Threads \ {t} : handles'[u] = handles[u]
           /\ handles'[t][p] > 0 /\ \A q \in Paths : handles[t][q] > 0 => handles'[t][q] > 0
           /\ OfThreads(p)' = OfThreads(p) + 1 /\ Held(p)' # {}
           /\ \A q \in Paths \ {p} : Held(q)' = Held(q)
<1> DEFINE k == handles[t][p] + 1
<1>1. /\ handles \in [Threads -> [Paths -> 0 .. MaxHandles]] /\ MaxHandles \in Nat
      /\ handles[t][p] \in 0 .. MaxHandles /\ k \in 1 .. MaxHandles
  BY BoundsAssumption DEF Types
<1>2. /\ handles'[t][p] = k /\ \A q \in Paths \ {p} : handles'[t][q] = handles[t][q]
      /\ \A u \in Threads \ {t} : handles'[u] = handles[u]
  BY <1>1
<1>3. handles' \in [Threads -> [Paths -> 0 .. MaxHandles]]
  BY <1>1
<1>4. ASSUME NEW q \in Paths \ {p} PROVE Held(q)' = Held(q)
  BY <1>2 DEF Held
<1>5. Held(p)' = Held(p) \union {<<t, k>>} /\ <<t, k>> \notin Held(p)
  <2>1. <<t, k>> \notin Held(p) /\ <<t, k>> \in Held(p)'
    BY <1>1, <1>2 DEF Held
  <2>2. ASSUME NEW h \in Threads \X (1 .. MaxHandles), h # <<t, k>>
        PROVE  h[2] <= handles'[h[1]][p] <=> h[2] <= handles[h[1]][p]
    <3>1. CASE h[1] = t
      <4>1. h[2] \in 1 .. MaxHandles /\ h[2] # k /\ h = <<h[1], h[2]>>
        BY <2>2, <3>1
      <4> QED BY <1>1, <1>2, <3>1, <4>1
    <3>2. CASE h[1] # t
      BY <1>2, <3>2
    <3> QED BY <3>1, <3>2
  <2> QED BY <2>1, <2>2 DEF Held
<1>6. OfThreads(p)' = OfThreads(p) + 1
  BY <1>5, HeldFinite, FS_AddElement DEF OfThreads
<1>7. handles'[t][p] > 0 /\ \A q \in Paths : handles[t][q] > 0 => handles'[t][q] > 0
  BY <1>1, <1>2
<1> QED BY <1>2, <1>3, <1>4, <1>5, <1>6, <1>7

\* A thread gives one of its pointers back.
LEMMA HeldLess ==
    ASSUME Types, NEW t \in Threads, NEW p \in Paths, Holds(t, p),
           handles' = [handles EXCEPT ![t][p] = @ - 1]
    PROVE  /\ handles' \in [Threads -> [Paths -> 0 .. MaxHandles]]
           /\ \A u \in Threads \ {t} : handles'[u] = handles[u]
           /\ OfThreads(p)' = OfThreads(p) - 1
           /\ \A q \in Paths \ {p} : Held(q)' = Held(q)
<1> DEFINE k == handles[t][p]
<1>1. /\ handles \in [Threads -> [Paths -> 0 .. MaxHandles]] /\ MaxHandles \in Nat
      /\ k \in 1 .. MaxHandles
  BY BoundsAssumption DEF Types, Holds
<1>2. /\ handles'[t][p] = k - 1 /\ \A q \in Paths \ {p} : handles'[t][q] = handles[t][q]
      /\ \A u \in Threads \ {t} : handles'[u] = handles[u]
  BY <1>1
<1>3. handles' \in [Threads -> [Paths -> 0 .. MaxHandles]]
  BY <1>1
<1>4. ASSUME NEW q \in Paths \ {p} PROVE Held(q)' = Held(q)
  BY <1>2 DEF Held
<1>5. Held(p)' = Held(p) \ {<<t, k>>} /\ <<t, k>> \in Held(p)
  <2>1. <<t, k>> \in Held(p) /\ <<t, k>> \notin Held(p)'
    BY <1>1, <1>2 DEF Held
  <2>2. ASSUME NEW h \in Threads \X (1 .. MaxHandles), h # <<t, k>>
        PROVE  h[2] <= handles'[h[1]][p] <=> h[2] <= handles[h[1]][p]
    <3>1. CASE h[1] = t
      <4>1. h[2] \in 1 .. MaxHandles /\ h[2] # k /\ h = <<h[1], h[2]>>
        BY <2>2, <3>1
      <4>2. h[2] <= k - 1 <=> h[2] <= k
        BY <1>1, <4>1
      <4>3. handles'[h[1]][p] = k - 1 /\ handles[h[1]][p] = k
        BY <1>2, <3>1
      <4> QED BY <4>2, <4>3
    <3>2. CASE h[1] # t
      BY <1>2, <3>2
    <3> QED BY <3>1, <3>2
  <2> QED BY <2>1, <2>2 DEF Held
<1>6. OfThreads(p)' = OfThreads(p) - 1
  <2>1. IsFiniteSet(Held(p))
    BY HeldFinite
  <2>2. Cardinality(Held(p) \ {<<t, k>>}) = Cardinality(Held(p)) - 1
    BY <1>5, <2>1, FS_RemoveElement
  <2> QED BY <1>5, <2>2 DEF OfThreads
<1> QED BY <1>2, <1>3, <1>4, <1>6

\* One pointer is one pointer of that thread.
LEMMA HeldOnce ==
    ASSUME Types, NEW t \in Threads, NEW p \in Paths, Holds(t, p)
    PROVE  Held(p) # {} /\ OfThreads(p) >= 1
<1>1. <<t, 1>> \in Held(p)
  <2>1. handles[t][p] \in 0 .. MaxHandles /\ MaxHandles \in Nat /\ handles[t][p] > 0
    BY BoundsAssumption DEF Types, Holds
  <2>2. 1 \in 1 .. MaxHandles /\ 1 <= handles[t][p]
    BY <2>1
  <2> QED BY <2>2 DEF Held
<1>2. OfThreads(p) \in Nat /\ OfThreads(p) # 0
  BY <1>1, HeldFinite
<1> QED BY <1>1, <1>2

-----------------------------------------------------------------------------
(* Facts about the table.                                                  *)

Entry == [path : Paths, list : Lists]

\* Lengths and elements of the table.
LEMMA TableFacts ==
    ASSUME Types
    PROVE  /\ table \in Seq(Entry) /\ Len(table) \in Nat
           /\ \A i \in 1 .. Len(table) : table[i] \in Entry /\ table[i].path \in Paths
           /\ InTable \subseteq Paths /\ None \notin Paths
<1>1. table \in Seq(Entry) /\ Len(table) \in Nat
  BY LenProperties DEF Types, Entry
<1>2. \A i \in 1 .. Len(table) : table[i] \in Entry
  BY <1>1, ElementOfSeq
<1>3. \A i \in 1 .. Len(table) : table[i].path \in Paths
  BY <1>2 DEF Entry
<1> QED BY <1>1, <1>2, <1>3 DEF InTable, Paths, None

Less == {p \in Nat \X Nat : p[1] < p[2]}

\* The order of the natural numbers is well-founded, ...
LEMMA LessWellFounded == IsWellFoundedOn(Less, Nat)
  BY NatLessThanWellFounded DEF OpToRel, Less

\* ... so that First is the least position of a set.
LEMMA FirstFact ==
    ASSUME NEW S, S \subseteq Nat, S # {}
    PROVE  First(S) \in S
<1>1. PICK x \in S : \A y \in S : ~ (<<y, x>> \in Less)
  BY ONLY WFMin, LessWellFounded, S \subseteq Nat, S # {}
<1>2. ASSUME NEW y \in S PROVE x <= y
  <2>1. ~ (y < x)
    BY <1>1 DEF Less
  <2> QED BY <2>1
<1> QED BY <1>2 DEF First

\* What a lookup finds is a path of the table with that name; if it finds none,
\* there is none.
LEMMA LookupFacts ==
    ASSUME Types, Listing, NEW n
    PROVE  /\ prelude_hash_get(n) # None => prelude_hash_get(n) \in InTable /\ name[prelude_hash_get(n)] = n
           /\ prelude_hash_get(n) = None => \A i \in 1 .. Len(table) : name[table[i].path] # n
<1>1. CASE Entries(n) = {}
  <2>1. prelude_hash_get(n) = None
    BY <1>1 DEF prelude_hash_get
  <2>2. \A i \in 1 .. Len(table) : name[table[i].path] # n
    BY <1>1 DEF Entries, Listing
  <2> QED BY <2>1, <2>2
<1>2. CASE Entries(n) # {}
  <2>1. Entries(n) \subseteq Nat
    BY TableFacts DEF Entries
  <2>2. First(Entries(n)) \in Entries(n)
    BY <1>2, <2>1, FirstFact
  <2>3. PICK i \in 1 .. Len(table) : prelude_hash_get(n) = table[i].path /\ name[table[i].path] = n
    BY <1>2, <2>2 DEF prelude_hash_get, Entries
  <2>4. table[i].path \in InTable /\ table[i].path # None
    BY TableFacts DEF InTable
  <2> QED BY <2>3, <2>4
<1> QED BY <1>1, <1>2

\* prelude_hash_add puts an entry in front.
LEMMA TableMore ==
    ASSUME Types, NEW e \in Entry, table' = <<e>> \o table
    PROVE  /\ table' \in Seq(Entry) /\ Len(table') = Len(table) + 1 /\ table'[1] = e
           /\ \A i \in 1 .. Len(table') : i # 1 => i - 1 \in 1 .. Len(table) /\ table'[i] = table[i - 1]
           /\ InTable' = InTable \union {e.path}
<1>1. table \in Seq(Entry) /\ Len(table) \in Nat /\ <<e>> \in Seq(Entry) /\ Len(<<e>>) = 1 /\ <<e>>[1] = e
  BY TableFacts
<1> DEFINE one == <<e>>
<1>2. /\ one \o table \in Seq(Entry) /\ Len(one \o table) = Len(one) + Len(table)
      /\ \A i \in 1 .. Len(one) + Len(table) :
            (one \o table)[i] = IF i <= Len(one) THEN one[i] ELSE table[i - Len(one)]
  BY <1>1, ConcatProperties
<1>3. /\ table' \in Seq(Entry) /\ Len(table') = Len(table) + 1
      /\ \A i \in 1 .. Len(table) + 1 : table'[i] = IF i <= 1 THEN one[i] ELSE table[i - 1]
  BY <1>1, <1>2
<1> HIDE DEF one
<1>4. table'[1] = e /\ \A i \in 1 .. Len(table') : i # 1 => i - 1 \in 1 .. Len(table) /\ table'[i] = table[i - 1]
  BY <1>1, <1>3 DEF one
<1>5. ASSUME NEW i \in 1 .. Len(table) PROVE i + 1 \in 1 .. Len(table') /\ table'[i + 1] = table[i]
  <2>1. i + 1 \in 1 .. Len(table) + 1 /\ ~ (i + 1 <= 1) /\ (i + 1) - 1 = i
    BY <1>1
  <2> QED BY <1>3, <2>1
<1>6. InTable' = InTable \union {e.path}
  <2>1. ASSUME NEW i \in 1 .. Len(table') PROVE table'[i].path \in InTable \union {e.path}
    BY <1>4 DEF InTable
  <2>2. ASSUME NEW i \in 1 .. Len(table) PROVE table[i].path \in InTable'
    BY <1>5 DEF InTable
  <2>3. e.path \in InTable'
    <3>1. 1 \in 1 .. Len(table')
      BY <1>1, <1>3
    <3> QED BY <1>4, <3>1 DEF InTable
  <2>4. InTable' \subseteq InTable \union {e.path}
    BY <2>1 DEF InTable
  <2>5. InTable \subseteq InTable'
    BY <2>2 DEF InTable
  <2> QED BY <2>3, <2>4, <2>5
<1> QED BY <1>3, <1>4, <1>6

\* The entry that is removed for a name that one entry has.
LEMMA TableLess ==
    ASSUME Types, Listing, NEW n, NEW k \in 1 .. Len(table), Entries(n) = {k}, table' = Unlinked(n)
    PROVE  /\ table' \in Seq(Entry) /\ Len(table') = Len(table) - 1
           /\ \A i \in 1 .. Len(table') :
                 /\ (IF i < k THEN i ELSE i + 1) \in (1 .. Len(table)) \ {k}
                 /\ table'[i] = table[IF i < k THEN i ELSE i + 1]
           /\ InTable' = InTable \ {table[k].path}
<1> DEFINE m == Len(table)
           a == SubSeq(table, 1, k - 1)
           b == SubSeq(table, k + 1, m)
<1>1. table \in Seq(Entry) /\ m \in Nat /\ k \in Nat /\ k >= 1 /\ k <= m
  BY TableFacts
<1>2. First(Entries(n)) = k
  <2>1. First(Entries(n)) \in Entries(n)
    BY FirstFact
  <2> QED BY <2>1
<1>3. table' = a \o b
  BY <1>2 DEF Unlinked
<1>4. /\ a \in Seq(Entry) /\ Len(a) = k - 1 /\ \A i \in 1 .. k - 1 : a[i] = table[i]
  <2>1. 1 \in 1 .. m + 1 /\ k - 1 \in 1 - 1 .. m
    BY <1>1
  <2>2. /\ a \in Seq(Entry) /\ Len(a) = IF 1 <= k - 1 THEN (k - 1) - 1 + 1 ELSE 0
        /\ \A i \in 1 .. (k - 1) - 1 + 1 : a[i] = table[1 + i - 1]
    BY <1>1, <2>1, SubSeqProperties
  <2> HIDE DEF a
  <2> QED BY <1>1, <2>2
<1>5. /\ b \in Seq(Entry) /\ Len(b) = m - k /\ \A i \in 1 .. m - k : b[i] = table[k + i]
  <2>1. k + 1 \in 1 .. m + 1 /\ m \in (k + 1) - 1 .. m
    BY <1>1
  <2>2. /\ b \in Seq(Entry) /\ Len(b) = IF k + 1 <= m THEN m - (k + 1) + 1 ELSE 0
        /\ \A i \in 1 .. m - (k + 1) + 1 : b[i] = table[(k + 1) + i - 1]
    BY <1>1, <2>1, SubSeqProperties
  <2> HIDE DEF b, m
  <2> QED BY <1>1, <2>2
<1> HIDE DEF a, b
<1>6. /\ a \o b \in Seq(Entry) /\ Len(a \o b) = Len(a) + Len(b)
      /\ \A i \in 1 .. Len(a) + Len(b) : (a \o b)[i] = IF i <= Len(a) THEN a[i] ELSE b[i - Len(a)]
  BY ONLY <1>4, <1>5, ConcatProperties, ZenonT(60)
<1>7. table' \in Seq(Entry) /\ Len(table') = m - 1
  BY <1>1, <1>3, <1>4, <1>5, <1>6
<1>8. ASSUME NEW i \in 1 .. Len(table')
      PROVE  /\ (IF i < k THEN i ELSE i + 1) \in (1 .. m) \ {k}
             /\ table'[i] = table[IF i < k THEN i ELSE i + 1]
  <2>1. CASE i < k
    <3>1. i \in 1 .. k - 1 /\ i <= Len(a) /\ i \in 1 .. Len(a) + Len(b) /\ i \in (1 .. m) \ {k}
      BY <1>1, <1>4, <1>5, <1>7, <2>1
    <3>2. table'[i] = a[i]
      BY <1>3, <1>6, <3>1
    <3> QED BY <1>4, <2>1, <3>1, <3>2
  <2>2. CASE ~ (i < k)
    <3>1. /\ i - (k - 1) \in 1 .. m - k /\ ~ (i <= Len(a)) /\ i \in 1 .. Len(a) + Len(b)
          /\ i + 1 \in (1 .. m) \ {k} /\ k + (i - (k - 1)) = i + 1
      BY <1>1, <1>4, <1>5, <1>7, <2>2
    <3>2. table'[i] = b[i - (k - 1)]
      BY <1>3, <1>4, <1>6, <3>1
    <3>3. b[i - (k - 1)] = table[k + (i - (k - 1))]
      BY <1>5, <3>1
    <3> QED BY <2>2, <3>1, <3>2, <3>3
  <2> QED BY <2>1, <2>2
<1>9. InTable' = InTable \ {table[k].path}
  <2>1. ASSUME NEW i \in 1 .. Len(table')
        PROVE  table'[i].path \in InTable /\ table'[i].path # table[k].path
    <3> DEFINE j == IF i < k THEN i ELSE i + 1
    <3>1. j \in (1 .. m) \ {k} /\ table'[i] = table[j]
      BY <1>8
    <3> HIDE DEF j
    <3> QED BY <3>1 DEF InTable, Listing
  <2>2. ASSUME NEW j \in (1 .. m) \ {k} PROVE table[j].path \in InTable'
    <3>1. CASE j < k
      <4>1. j \in 1 .. Len(table')
        BY <1>1, <1>7, <3>1
      <4> QED BY <1>8, <3>1, <4>1 DEF InTable
    <3>2. CASE j > k
      <4>1. j - 1 \in 1 .. Len(table') /\ ~ (j - 1 < k) /\ (j - 1) + 1 = j
        BY <1>1, <1>7, <3>2
      <4>2. table'[j - 1] = table[j]
        BY <1>8, <4>1
      <4> QED BY <4>1, <4>2 DEF InTable
    <3> QED BY <1>1, <3>1, <3>2
  <2>3. InTable' \subseteq InTable \ {table[k].path}
    BY <2>1 DEF InTable
  <2>4. InTable \ {table[k].path} \subseteq InTable'
    BY <2>2 DEF InTable
  <2> QED BY <2>3, <2>4
<1> QED BY <1>7, <1>8, <1>9

\* A table without an entry is a table.
LEMMA UnlinkedType ==
    ASSUME Types, NEW n, Entries(n) # {}
    PROVE  Unlinked(n) \in Seq(Entry)
<1> DEFINE k == First(Entries(n))
           m == Len(table)
<1>1. table \in Seq(Entry) /\ m \in Nat /\ \A i \in 1 .. m : table[i] \in Entry
  BY TableFacts
<1>2. k \in 1 .. m
  <2>a. Entries(n) \subseteq Nat
    BY <1>1 DEF Entries
  <2>1. k \in Entries(n)
    BY <2>a, FirstFact
  <2> QED BY <2>1 DEF Entries
<1>3. Unlinked(n) = SubSeq(table, 1, k - 1) \o SubSeq(table, k + 1, m)
  BY DEF Unlinked
<1> HIDE DEF k
<1>4. (\A i \in 1 .. k - 1 : table[i] \in Entry) /\ (\A i \in k + 1 .. m : table[i] \in Entry)
  BY <1>1, <1>2
<1>5. k - 1 \in Int /\ k + 1 \in Int /\ 1 \in Int /\ m \in Int
  BY <1>1, <1>2
<1>6. SubSeq(table, 1, k - 1) \in Seq(Entry) /\ SubSeq(table, k + 1, m) \in Seq(Entry)
  BY <1>4, <1>5, SubSeqProperties
<1> QED BY <1>3, <1>6, ConcatProperties

\* The positions of a path.
LEMMA CachedFinite ==
    ASSUME Types, NEW p
    PROVE  /\ IsFiniteSet(Cached(p)) /\ Cardinality(Cached(p)) \in Nat
           /\ Cached(p) # {} <=> p \in InTable
           /\ Listing => Cardinality(Cached(p)) = OfTable(p)
<1>1. IsFiniteSet(1 .. Len(table)) /\ Cached(p) \subseteq 1 .. Len(table)
  BY TableFacts, FS_Interval DEF Cached
<1>2. IsFiniteSet(Cached(p)) /\ Cardinality(Cached(p)) \in Nat
  BY <1>1, FS_Subset, FS_CardinalityType
<1>3. Cached(p) # {} <=> p \in InTable
  BY DEF Cached, InTable
<1>4. ASSUME Listing PROVE Cardinality(Cached(p)) = OfTable(p)
  <2>1. CASE p \in InTable
    <3>1. PICK i : i \in Cached(p)
      BY <1>3, <2>1
    <3>2. Cached(p) = {i}
      BY <1>4, <3>1 DEF Cached, Listing
    <3> QED BY <2>1, <3>2, FS_Singleton DEF OfTable
  <2>2. CASE p \notin InTable
    BY <1>3, <2>2, FS_EmptySet DEF OfTable
  <2> QED BY <2>1, <2>2
<1> QED BY <1>2, <1>3, <1>4

-----------------------------------------------------------------------------
(* Each part of the invariant is kept by every step.                       *)

\* Names that are asked for, and what modifications make of a name, are names.
LEMMA NameFacts ==
    /\ \A n \in Names : n \in Seq(Indexes) /\ Len(n) <= MAX_DEPTH
    /\ <<>> \in Seq(Indexes) /\ Len(<<>>) <= MAX_DEPTH
    /\ \A n \in Seq(Indexes) : Len(n) <= MAX_DEPTH =>
          \A r \in Modified(n) : r \in Seq(Indexes) /\ Len(r) <= MAX_DEPTH
<1>1. ASSUME NEW n \in Names PROVE n \in Seq(Indexes) /\ Len(n) <= MAX_DEPTH
  <2>1. PICK k \in 0 .. MAX_DEPTH : n \in [1 .. k -> Indexes]
    BY DEF Names
  <2>2. k \in Nat /\ k <= MAX_DEPTH /\ n \in Seq(Indexes)
    BY <2>1, BoundsAssumption
  <2>3. Len(n) = k
    BY <2>1, <2>2, LenProperties
  <2> QED BY <2>2, <2>3
<1>2. <<>> \in Seq(Indexes) /\ Len(<<>>) <= MAX_DEPTH
  BY EmptySeq, BoundsAssumption
<1>3. ASSUME NEW n \in Seq(Indexes), Len(n) <= MAX_DEPTH, NEW r \in Modified(n)
      PROVE  r \in Seq(Indexes) /\ Len(r) <= MAX_DEPTH
  <2>1. Len(n) \in Nat /\ n \in [1 .. Len(n) -> Indexes] /\ MAX_DEPTH \in Nat
    BY LenProperties, BoundsAssumption
  <2>2. ASSUME NEW d \in 1 .. Len(n), NEW i \in Indexes, r = set_index(n, d, i)
        PROVE  r \in Seq(Indexes) /\ Len(r) <= MAX_DEPTH
    <3>1. r \in [1 .. Len(n) -> Indexes]
      BY <2>1, <2>2 DEF set_index
    <3>2. r \in Seq(Indexes)
      BY <2>1, <3>1
    <3>3. Len(r) = Len(n)
      BY <2>1, <3>1, <3>2, LenProperties
    <3> QED BY <1>3, <3>2, <3>3
  <2>3. ASSUME Len(n) < MAX_DEPTH, NEW i \in Indexes, r = make_child(n, i)
        PROVE  r \in Seq(Indexes) /\ Len(r) <= MAX_DEPTH
    <3>1. r \in Seq(Indexes) /\ Len(r) = Len(n) + 1
      BY <2>3, AppendProperties DEF make_child
    <3> QED BY <2>1, <2>3, <3>1
  <2>4. ASSUME Len(n) > 0, r = make_parent(n)
        PROVE  r \in Seq(Indexes) /\ Len(r) <= MAX_DEPTH
    <3>1. \A i \in 1 .. Len(n) - 1 : n[i] \in Indexes
      BY <2>1
    <3>2. r \in Seq(Indexes) /\ Len(r) = IF 1 <= Len(n) - 1 THEN (Len(n) - 1) - 1 + 1 ELSE 0
      BY <2>1, <2>4, <3>1, SubSeqProperties DEF make_parent
    <3>3. ASSUME NEW l \in Nat, l > 0, l <= MAX_DEPTH
          PROVE  (IF 1 <= l - 1 THEN (l - 1) - 1 + 1 ELSE 0) <= MAX_DEPTH
      BY <2>1, <3>3
    <3> QED BY <1>3, <2>1, <2>4, <3>2, <3>3
  <2> QED BY <2>2, <2>3, <2>4 DEF Modified
<1> QED BY <1>1, <1>2, <1>3

\* Types, and the depth of every name.
LEMMA TypesStep == Types /\ Listing /\ Where /\ [Next]_vars => Types'
<1> SUFFICES ASSUME Types, Listing, Where, [Next]_vars PROVE Types'
  OBVIOUS
<1>a. InTable \subseteq Paths
  BY TableFacts
<1>1. ASSUME NEW t \in Threads, prelude_hash_add(t) PROVE Types'
  <2>1. obj[t] \in Paths /\ name[obj[t]] \in Seq(Indexes)
    BY <1>1 DEF prelude_hash_add, Where, WhereOf, Types
  <2>2. [path |-> obj[t], list |-> Hash(name[obj[t]])] \in Entry
    BY <2>1 DEF Entry, Lists
  <2>3. table' \in Seq(Entry)
    BY <1>1, <2>2, TableMore DEF prelude_hash_add
  <2>4. UNCHANGED <<program, state, name, refcount, destroyed, handles, arg, obj>>
        /\ pc' \in [Threads -> {"idle", "add", "ref", "modify"}]
    BY <1>1 DEF prelude_hash_add, Goto, Types
  <2> QED BY <2>3, <2>4 DEF Types, Entry
<1>2. ASSUME NEW t \in Threads, idmef_path_new_returns(t) PROVE Types'
  <2>1. obj[t] \in Paths /\ Room(t)
    BY <1>2 DEF idmef_path_new_returns, Where, WhereOf, Types
  <2>2. handles' \in [Threads -> [Paths -> 0 .. MaxHandles]]
    BY <1>2, <2>1, RoomFact, HeldMore DEF idmef_path_new_returns
  <2>a. refcount' \in [Paths -> Int]
    BY <1>2, <2>1 DEF idmef_path_new_returns, Types
  <2>b. obj' \in [Threads -> Paths \union {None}]
    BY <1>2 DEF idmef_path_new_returns, Types
  <2>3. refcount' \in [Paths -> Int] /\ obj' \in [Threads -> Paths \union {None}]
    BY <2>a, <2>b
  <2>4. arg' \in [Threads -> Seq(Indexes)] /\ \A u \in Threads : Len(arg'[u]) <= MAX_DEPTH
    BY <1>2, NameFacts DEF idmef_path_new_returns, Types
  <2>5. pc' \in [Threads -> {"idle", "add", "ref", "modify"}] /\ UNCHANGED <<program, state, name, table, destroyed>>
    BY <1>2 DEF idmef_path_new_returns, Goto, Types
  <2> QED BY <2>2, <2>3, <2>4, <2>5 DEF Types
<1>3. ASSUME NEW t \in Threads, build_name(t) PROVE Types'
  <2>1. name' \in [Paths -> Seq(Indexes)] /\ \A p \in Paths : Len(name'[p]) <= MAX_DEPTH
    BY <1>3 DEF build_name, Types
  <2>2. obj' \in [Threads -> Paths \union {None}] /\ pc' \in [Threads -> {"idle", "add", "ref", "modify"}]
    BY <1>3 DEF build_name, Goto, Types
  <2>3. arg' \in [Threads -> Seq(Indexes)] /\ \A u \in Threads : Len(arg'[u]) <= MAX_DEPTH
    BY <1>3, NameFacts DEF build_name, Types
  <2> QED BY <1>3, <2>1, <2>2, <2>3 DEF build_name, Types
<1>4. ASSUME NEW t \in Threads, NEW n \in Names, idmef_path_create(t, n) PROVE Types'
  <2>1. n \in Seq(Indexes) /\ Len(n) <= MAX_DEPTH
    BY NameFacts
  <2>2. arg' \in [Threads -> Seq(Indexes)] /\ \A u \in Threads : Len(arg'[u]) <= MAX_DEPTH
    BY <1>4, <2>1 DEF idmef_path_create, Types
  <2>3. UNCHANGED <<program, table, destroyed, handles>>
    BY <1>4 DEF idmef_path_create
  <2>4. CASE prelude_hash_get(n) # None
    <3>1. prelude_hash_get(n) \in Paths
      BY <1>a, <2>4, LookupFacts
    <3>2. obj' = [obj EXCEPT ![t] = prelude_hash_get(n)] /\ Goto(t, "ref") /\ UNCHANGED <<state, name, refcount>>
      BY <1>4, <2>4 DEF idmef_path_create
    <3>3. obj' \in [Threads -> Paths \union {None}]
      BY <3>1, <3>2 DEF Types
    <3>4. pc' \in [Threads -> {"idle", "add", "ref", "modify"}]
      BY <3>2 DEF Types, Goto
    <3> QED BY <2>2, <2>3, <3>2, <3>3, <3>4 DEF Types
  <2>5. CASE prelude_hash_get(n) = None
    <3>1. PICK p \in Paths :
            /\ state' = [state EXCEPT ![p] = "allocated"] /\ name' = [name EXCEPT ![p] = n]
            /\ refcount' = [refcount EXCEPT ![p] = 1]
            /\ obj' = [obj EXCEPT ![t] = p] /\ Goto(t, "add")
      BY <1>4, <2>5 DEF idmef_path_create
    <3>2. state' \in [Paths -> {"none", "allocated", "freed"}] /\ refcount' \in [Paths -> Int]
      BY <3>1 DEF Types
    <3>3. name' \in [Paths -> Seq(Indexes)] /\ \A q \in Paths : Len(name'[q]) <= MAX_DEPTH
      BY <2>1, <3>1 DEF Types
    <3>4. obj' \in [Threads -> Paths \union {None}] /\ pc' \in [Threads -> {"idle", "add", "ref", "modify"}]
      BY <3>1 DEF Types, Goto
    <3> QED BY <2>2, <2>3, <3>2, <3>3, <3>4 DEF Types
  <2> QED BY <2>4, <2>5
<1>5. ASSUME NEW t \in Threads, NEW p \in Paths, idmef_path_ref(t, p) PROVE Types'
  <2>1. handles' \in [Threads -> [Paths -> 0 .. MaxHandles]]
    BY <1>5, RoomFact, HeldMore DEF idmef_path_ref
  <2>2. refcount' \in [Paths -> Int] /\ UNCHANGED <<program, state, name, table, destroyed, pc, arg, obj>>
    BY <1>5 DEF idmef_path_ref, Types, thread
  <2> QED BY <2>1, <2>2 DEF Types
<1>6. ASSUME NEW t \in Threads, NEW p \in Paths, idmef_path_clone(t, p) PROVE Types'
  <2>1. PICK q \in Paths :
          /\ state' = [state EXCEPT ![q] = "allocated"] /\ name' = [name EXCEPT ![q] = name[p]]
          /\ refcount' = [refcount EXCEPT ![q] = 1]
          /\ handles' = [handles EXCEPT ![t][q] = @ + 1]
    BY <1>6 DEF idmef_path_clone
  <2>2. handles' \in [Threads -> [Paths -> 0 .. MaxHandles]]
    BY <1>6, <2>1, RoomFact, HeldMore DEF idmef_path_clone
  <2>3. state' \in [Paths -> {"none", "allocated", "freed"}] /\ refcount' \in [Paths -> Int]
    BY <2>1 DEF Types
  <2>4. name' \in [Paths -> Seq(Indexes)] /\ \A r \in Paths : Len(name'[r]) <= MAX_DEPTH
    BY <2>1 DEF Types
  <2>5. UNCHANGED <<program, table, destroyed, pc, arg, obj>>
    BY <1>6 DEF idmef_path_clone, thread
  <2> QED BY <2>2, <2>3, <2>4, <2>5 DEF Types
<1>7. ASSUME NEW t \in Threads, NEW p \in Paths, idmef_path_destroy(t, p) PROVE Types'
  <2>1. handles' \in [Threads -> [Paths -> 0 .. MaxHandles]]
    BY <1>7, HeldLess DEF idmef_path_destroy
  <2>2. refcount' \in [Paths -> Int] /\ state' \in [Paths -> {"none", "allocated", "freed"}]
    BY <1>7 DEF idmef_path_destroy, Types
  <2>3. UNCHANGED <<program, name, table, destroyed, pc, arg, obj>>
    BY <1>7 DEF idmef_path_destroy, thread
  <2> QED BY <2>1, <2>2, <2>3 DEF Types
<1>8. ASSUME NEW t \in Threads, NEW p \in Paths, NEW n \in Modified(name[p]), invalidate(t, p, n) PROVE Types'
  <2>1. n \in Seq(Indexes) /\ Len(n) <= MAX_DEPTH
    BY NameFacts DEF Types
  <2>2. arg' \in [Threads -> Seq(Indexes)] /\ \A u \in Threads : Len(arg'[u]) <= MAX_DEPTH
    BY <1>8, <2>1 DEF invalidate, Types
  <2>3. obj' \in [Threads -> Paths \union {None}] /\ pc' \in [Threads -> {"idle", "add", "ref", "modify"}]
    BY <1>8 DEF invalidate, Types, Goto
  <2>4. refcount' \in [Paths -> Int]
    BY <1>8 DEF invalidate, Types
  <2>5. table' \in Seq(Entry)
    BY <1>8, UnlinkedType, TableFacts DEF invalidate
  <2> QED BY <1>8, <2>2, <2>3, <2>4, <2>5 DEF Types, invalidate, Entry
<1>9. CASE _idmef_path_cache_destroy
  <2>1. table' \in Seq([path : Paths, list : Lists])
    BY <1>9, EmptySeq DEF _idmef_path_cache_destroy
  <2>2. refcount' \in [Paths -> Int]
    <3>1. \A p \in Paths : Cardinality(Cached(p)) \in Nat
      BY CachedFinite
    <3> QED BY <1>9, <3>1 DEF _idmef_path_cache_destroy, Types
  <2>3. state' \in [Paths -> {"none", "allocated", "freed"}]
    BY <1>9 DEF _idmef_path_cache_destroy, Types
  <2> QED BY <1>9, <2>1, <2>2, <2>3 DEF Types, _idmef_path_cache_destroy, thread
<1>10. CASE UNCHANGED vars
  BY <1>10 DEF Types, vars
<1> QED BY <1>1, <1>2, <1>3, <1>4, <1>5, <1>6, <1>7, <1>8, <1>9, <1>10 DEF Next, ThreadStep

\* In a program that modifies paths only one thread is inside the library.
LEMMA Single ==
    ASSUME Sound, Types, program.modifies, NEW t \in program.threads, NEW u \in program.threads
    PROVE  t = u
  BY DEF Sound, Types

\* A new path is known to nobody.
LEMMA FreshFacts ==
    ASSUME Exact, NEW q \in Paths, Fresh(q)
    PROVE  /\ state[q] = "none" /\ q \notin InTable /\ Held(q) = {}
           /\ \A t \in Threads : obj[t] # q
  BY DEF Exact, ExactOf, Fresh

\* A path that a thread holds is not freed.
LEMMA HeldAllocated ==
    ASSUME Types, Exact, NEW t \in Threads, NEW p \in Paths, Holds(t, p)
    PROVE  state[p] = "allocated" /\ Held(p) # {} /\ OfThreads(p) >= 1
  BY HeldOnce DEF Exact, ExactOf

\* What invalidate removes is the entry of the path itself; a path with one
\* reference is not in the table.
LEMMA InvalidateFacts ==
    ASSUME Sound, PathInv, NEW t \in Threads, NEW p \in Paths, NEW n, invalidate(t, p, n)
    PROVE  /\ refcount'[p] = 1 /\ p \notin InTable' /\ state[p] = "allocated"
           /\ \A q \in Paths \ {p} : refcount'[q] = refcount[q]
           /\ \/ refcount' = refcount /\ table' = table /\ p \notin InTable
              \/ /\ refcount[p] = 2 /\ ~ destroyed /\ p \in InTable
                 /\ table' \in Seq(Entry) /\ InTable' = InTable \ {p}
                 /\ \E k \in 1 .. Len(table) :
                       /\ table[k].path = p /\ Len(table') = Len(table) - 1
                       /\ \A i \in 1 .. Len(table') :
                            /\ (IF i < k THEN i ELSE i + 1) \in (1 .. Len(table)) \ {k}
                            /\ table'[i] = table[IF i < k THEN i ELSE i + 1]
<1>1. /\ Types /\ Listing /\ Exact /\ Modifying /\ program.modifies /\ Holds(t, p)
      /\ refcount \in [Paths -> Int]
  BY DEF PathInv, invalidate, Types
<1>2. state[p] = "allocated" /\ OfThreads(p) >= 1 /\ OfThreads(p) \in Nat
  BY <1>1, HeldAllocated, HeldFinite
<1>3. refcount[p] = OfTable(p) + OfThreads(p) + OfCall(p)
  BY <1>1, <1>2 DEF Exact, ExactOf
<1>4. CASE refcount[p] = 1 /\ UNCHANGED <<table, refcount>>
  <2>1. OfTable(p) = 0
    BY <1>2, <1>3, <1>4 DEF OfTable, OfCall
  <2>2. p \notin InTable /\ InTable' = InTable
    BY <1>4, <2>1 DEF OfTable, InTable
  <2> QED BY <1>2, <1>4, <2>2
<1>5. CASE /\ refcount[p] = 2 /\ Entries(name[p]) # {} /\ ~ destroyed
           /\ table' = Unlinked(name[p]) /\ refcount' = [refcount EXCEPT ![p] = @ - 1]
  <2>1. p \in InTable
    BY <1>1, <1>2, <1>5 DEF Modifying
  <2>2. PICK k \in 1 .. Len(table) : table[k].path = p
    BY <2>1 DEF InTable
  <2>3. Entries(name[p]) = {k}
    <3>1. k \in Entries(name[p])
      BY <1>1, <2>2 DEF Entries, Listing
    <3>2. \A i \in Entries(name[p]) : i = k
      BY <1>1, <2>2 DEF Entries, Modifying
    <3> QED BY <3>1, <3>2
  <2>4. /\ table' \in Seq(Entry) /\ Len(table') = Len(table) - 1
        /\ \A i \in 1 .. Len(table') :
              /\ (IF i < k THEN i ELSE i + 1) \in (1 .. Len(table)) \ {k}
              /\ table'[i] = table[IF i < k THEN i ELSE i + 1]
        /\ InTable' = InTable \ {table[k].path}
    BY <1>1, <1>5, <2>3, TableLess
  <2>5. refcount'[p] = 1 /\ \A q \in Paths \ {p} : refcount'[q] = refcount[q]
    BY <1>1, <1>5
  <2> QED BY <1>2, <1>5, <2>1, <2>2, <2>4, <2>5
<1> QED BY <1>4, <1>5 DEF invalidate

\* Each path stays listed once, in the list of its name.
LEMMA ListingStep == Sound /\ PathInv /\ [Next]_vars => Listing'
<1> SUFFICES ASSUME Sound, PathInv, [Next]_vars PROVE Listing'
  OBVIOUS
<1>a. Types /\ Listing /\ Where /\ Exact /\ Modifying
  BY DEF PathInv
<1>b. ASSUME table' = table, \A q \in InTable : name'[q] = name[q] PROVE Listing'
  <2>1. \A i \in 1 .. Len(table) : name'[table[i].path] = name[table[i].path]
    BY <1>b DEF InTable
  <2> QED BY <1>a, <1>b, <2>1 DEF Listing
<1>1. ASSUME NEW t \in Threads, prelude_hash_add(t) PROVE Listing'
  <2> DEFINE e == [path |-> obj[t], list |-> Hash(name[obj[t]])]
  <2>1. obj[t] \in Paths /\ obj[t] \notin InTable /\ name[obj[t]] \in Seq(Indexes)
    BY <1>1, <1>a DEF prelude_hash_add, Where, WhereOf, Types
  <2>2. e \in Entry /\ e.path = obj[t] /\ e.list = Hash(name[obj[t]]) /\ table' = <<e>> \o table /\ name' = name
    BY <1>1, <2>1 DEF Entry, Lists, prelude_hash_add
  <2> HIDE DEF e
  <2>3. /\ table'[1] = e
        /\ \A i \in 1 .. Len(table') : i # 1 => i - 1 \in 1 .. Len(table) /\ table'[i] = table[i - 1]
    BY <1>a, <2>2, TableMore
  <2>4. ASSUME NEW i \in 1 .. Len(table'), NEW j \in 1 .. Len(table'), table'[i].path = table'[j].path
        PROVE  i = j
    <3>1. ASSUME NEW l \in 1 .. Len(table), table[l].path = obj[t] PROVE FALSE
      BY <2>1, <3>1 DEF InTable
    <3>2. CASE i = 1
      BY <2>2, <2>3, <2>4, <3>1, <3>2
    <3>3. CASE j = 1
      BY <2>2, <2>3, <2>4, <3>1, <3>3
    <3>4. CASE i # 1 /\ j # 1
      <4>1. /\ i - 1 \in 1 .. Len(table) /\ j - 1 \in 1 .. Len(table)
            /\ table'[i] = table[i - 1] /\ table'[j] = table[j - 1]
        BY <2>3, <3>4
      <4>2. table[i - 1].path = table[j - 1].path
        BY <2>4, <4>1
      <4>3. i - 1 = j - 1
        BY <1>a, <4>1, <4>2 DEF Listing
      <4> QED BY <4>3
    <3> QED BY <3>2, <3>3, <3>4
  <2>5. ASSUME NEW i \in 1 .. Len(table') PROVE table'[i].list = Hash(name[table'[i].path])
    BY <1>a, <2>2, <2>3 DEF Listing
  <2> QED BY <2>2, <2>4, <2>5 DEF Listing
<1>2. ASSUME NEW t \in Threads, idmef_path_new_returns(t) PROVE Listing'
  BY <1>2, <1>b DEF idmef_path_new_returns
<1>3. ASSUME NEW t \in Threads, build_name(t) PROVE Listing'
  <2>1. obj[t] \notin InTable /\ name' = [name EXCEPT ![obj[t]] = arg[t]] /\ table' = table
    BY <1>3, <1>a DEF build_name, Where, WhereOf
  <2>2. \A q \in InTable : name'[q] = name[q]
    BY <1>a, <2>1, TableFacts DEF Types
  <2> QED BY <1>b, <2>1, <2>2
<1>4. ASSUME NEW t \in Threads, NEW n \in Names, idmef_path_create(t, n) PROVE Listing'
  <2>1. table' = table
    BY <1>4 DEF idmef_path_create
  <2>2. CASE prelude_hash_get(n) # None
    BY <1>4, <1>b, <2>1, <2>2 DEF idmef_path_create
  <2>3. CASE prelude_hash_get(n) = None
    <3>1. PICK p \in Paths : Fresh(p) /\ name' = [name EXCEPT ![p] = n]
      BY <1>4, <2>3 DEF idmef_path_create
    <3>2. \A q \in InTable : name'[q] = name[q]
      BY <1>a, <3>1, TableFacts, FreshFacts DEF Types
    <3> QED BY <1>b, <2>1, <3>2
  <2> QED BY <2>2, <2>3
<1>5. ASSUME NEW t \in Threads, NEW p \in Paths, idmef_path_ref(t, p) PROVE Listing'
  BY <1>5, <1>b DEF idmef_path_ref
<1>6. ASSUME NEW t \in Threads, NEW p \in Paths, idmef_path_clone(t, p) PROVE Listing'
  <2>1. PICK q \in Paths : Fresh(q) /\ name' = [name EXCEPT ![q] = name[p]] /\ table' = table
    BY <1>6 DEF idmef_path_clone
  <2>2. \A r \in InTable : name'[r] = name[r]
    BY <1>a, <2>1, TableFacts, FreshFacts DEF Types
  <2> QED BY <1>b, <2>1, <2>2
<1>7. ASSUME NEW t \in Threads, NEW p \in Paths, idmef_path_destroy(t, p) PROVE Listing'
  BY <1>7, <1>b DEF idmef_path_destroy
<1>8. ASSUME NEW t \in Threads, NEW p \in Paths, NEW n \in Modified(name[p]), invalidate(t, p, n) PROVE Listing'
  <2>1. name' = name
    BY <1>8 DEF invalidate
  <2>2. CASE table' = table
    BY <1>b, <2>1, <2>2
  <2>3. CASE table' # table
    <3>1. PICK k \in 1 .. Len(table) :
            /\ Len(table') = Len(table) - 1
            /\ \A i \in 1 .. Len(table') :
                 /\ (IF i < k THEN i ELSE i + 1) \in (1 .. Len(table)) \ {k}
                 /\ table'[i] = table[IF i < k THEN i ELSE i + 1]
      BY <1>8, <2>3, InvalidateFacts
    <3>2. ASSUME NEW i \in 1 .. Len(table') PROVE table'[i].list = Hash(name[table'[i].path])
      BY <1>a, <3>1 DEF Listing
    <3>3. ASSUME NEW i \in 1 .. Len(table'), NEW j \in 1 .. Len(table'), table'[i].path = table'[j].path
          PROVE  i = j
      <4>1. (IF i < k THEN i ELSE i + 1) = (IF j < k THEN j ELSE j + 1)
        BY <1>a, <3>1, <3>3 DEF Listing
      <4> QED BY <4>1
    <3> QED BY <2>1, <3>2, <3>3 DEF Listing
  <2> QED BY <2>2, <2>3
<1>9. CASE _idmef_path_cache_destroy
  <2>1. Len(table') = 0
    BY <1>9 DEF _idmef_path_cache_destroy
  <2> QED BY <2>1 DEF Listing
<1>10. CASE UNCHANGED vars
  BY <1>10, <1>b DEF vars
<1> QED BY <1>1, <1>2, <1>3, <1>4, <1>5, <1>6, <1>7, <1>8, <1>9, <1>10 DEF Next, ThreadStep

-----------------------------------------------------------------------------
(* What calls have in hand.                                                *)

\* A thread that no step concerns keeps what it knows.
LEMMA WhereKept ==
    ASSUME NEW u \in Threads, WhereOf(u), program' = program,
           pc'[u] = pc[u], obj'[u] = obj[u], arg'[u] = arg[u], handles'[u] = handles[u],
           pc[u] # "modify",
           pc[u] \in {"add", "ref"} => destroyed' = destroyed /\ name'[obj[u]] = name[obj[u]],
           pc[u] = "add" =>
              /\ state'[obj[u]] = "allocated" /\ obj[u] \notin InTable' /\ Held(obj[u])' = {}
              /\ \A w \in Threads : obj'[w] = obj[u] => w = u,
           pc[u] = "ref" => obj[u] \in InTable'
    PROVE  WhereOf(u)'
<1>1. Room(u)' <=> Room(u)
  BY DEF Room, HandleCount
<1>2. CASE pc[u] = "add"
  BY <1>1, <1>2 DEF WhereOf
<1>3. CASE pc[u] # "add"
  BY <1>1, <1>3 DEF WhereOf
<1> QED BY <1>2, <1>3

\* A thread whose call has returned has nothing in hand.
LEMMA WhereIdle ==
    ASSUME NEW u \in Threads, pc'[u] = "idle", obj'[u] = None
    PROVE  WhereOf(u)'
  BY DEF WhereOf

\* Beside a thread that runs, no other is about to modify; beside one that
\* modifies, all are idle.
LEMMA Alone ==
    ASSUME Sound, Types, Where, NEW t \in program.threads, NEW u \in Threads, u # t
    PROVE  pc[u] # "modify" /\ (program.modifies => pc[u] = "idle")
<1>1. ASSUME program.modifies, pc[u] # "idle" PROVE FALSE
  <2>1. u \in program.threads
    BY <1>1 DEF Where, WhereOf
  <2> QED BY <1>1, <2>1, Single
<1>2. pc[u] = "modify" => program.modifies
  BY DEF Where, WhereOf
<1> QED BY <1>1, <1>2

\* The path that a call has in hand is one; a path in the table is allocated.
LEMMA InHand ==
    ASSUME PathInv, NEW t \in Threads
    PROVE  /\ pc[t] # "idle" => obj[t] \in Paths /\ obj[t] # None /\ t \in program.threads
           /\ \A p \in InTable : state[p] = "allocated"
<1>1. pc[t] # "idle" => obj[t] \in Paths /\ obj[t] # None /\ t \in program.threads
  BY DEF PathInv, Where, WhereOf, Types
<1>2. \A p \in InTable : state[p] = "allocated"
  BY TableFacts DEF PathInv, Exact, ExactOf
<1> QED BY <1>1, <1>2

\* Every action keeps what each thread knows of the path it has in hand.
LEMMA WhereStep == Sound /\ PathInv /\ [Next]_vars => Where'
<1> SUFFICES ASSUME Sound, PathInv, [Next]_vars, NEW u \in Threads PROVE WhereOf(u)'
  BY DEF Where
<1>a. Types /\ Listing /\ Where /\ Exact /\ Modifying /\ WhereOf(u)
  BY DEF PathInv, Where
<1>b. /\ pc \in [Threads -> {"idle", "add", "ref", "modify"}] /\ obj \in [Threads -> Paths \union {None}]
      /\ arg \in [Threads -> Seq(Indexes)] /\ None \notin Paths
  BY <1>a, TableFacts DEF Types
<1>c. ASSUME NEW t \in Threads, t \in program.threads, u # t PROVE pc[u] # "modify"
  BY <1>a, <1>c, Alone
<1>d. pc[u] # "idle" => obj[u] \in Paths
  BY InHand
<1>1. ASSUME NEW t \in Threads, prelude_hash_add(t) PROVE WhereOf(u)'
  <2> DEFINE e == [path |-> obj[t], list |-> Hash(name[obj[t]])]
  <2>1. /\ pc[t] = "add" /\ pc' = [pc EXCEPT ![t] = "ref"] /\ table' = <<e>> \o table
        /\ UNCHANGED <<program, state, name, refcount, destroyed, handles, arg, obj>>
    BY <1>1 DEF prelude_hash_add, Goto
  <2>2. obj[t] \in Paths /\ WhereOf(t) /\ t \in program.threads /\ name[obj[t]] \in Seq(Indexes)
    BY <1>a, <2>1, InHand DEF Where, Types
  <2>3. e \in Entry /\ e.path = obj[t]
    BY <2>2 DEF Entry, Lists
  <2> HIDE DEF e
  <2>4. InTable' = InTable \union {obj[t]}
    BY <1>a, <2>1, <2>3, TableMore
  <2>5. CASE u = t
    <3>1. pc'[t] = "ref" /\ Room(t)' = Room(t)
      BY <1>b, <2>1 DEF Room, HandleCount
    <3> QED BY <2>1, <2>2, <2>4, <2>5, <3>1 DEF WhereOf
  <2>6. CASE u # t
    <3>1. pc'[u] = pc[u] /\ pc[u] # "modify" /\ \A p : Held(p)' = Held(p)
      BY <1>b, <1>c, <2>1, <2>2, <2>6 DEF Held
    <3>2. pc[u] = "add" => obj[u] # obj[t]
      BY <2>6, <1>a DEF WhereOf
    <3>3. pc[u] = "add" =>
              /\ state'[obj[u]] = "allocated" /\ obj[u] \notin InTable' /\ Held(obj[u])' = {}
              /\ \A w \in Threads : obj'[w] = obj[u] => w = u
      BY <1>a, <2>1, <2>4, <3>1, <3>2 DEF WhereOf
    <3>4. pc[u] = "ref" => obj[u] \in InTable'
      BY <1>a, <2>4 DEF WhereOf
    <3> QED BY <1>a, <2>1, <3>1, <3>3, <3>4, WhereKept
  <2> QED BY <2>5, <2>6
<1>2. ASSUME NEW t \in Threads, idmef_path_new_returns(t) PROVE WhereOf(u)'
  <2>1. /\ pc[t] = "ref" /\ pc' = [pc EXCEPT ![t] = "idle"] /\ obj' = [obj EXCEPT ![t] = None]
        /\ arg' = [arg EXCEPT ![t] = <<>>] /\ handles' = [handles EXCEPT ![t][obj[t]] = @ + 1]
        /\ UNCHANGED <<program, state, name, table, destroyed>>
    BY <1>2 DEF idmef_path_new_returns, Goto
  <2>2. obj[t] \in Paths /\ t \in program.threads /\ Room(t)
    BY <1>a, <2>1, InHand DEF Where, WhereOf
  <2>3. \A v \in Threads \ {t} : handles'[v] = handles[v]
    BY <1>a, <2>1, <2>2, RoomFact, HeldMore
  <2>4. \A q \in Paths \ {obj[t]} : Held(q)' = Held(q)
    BY <1>a, <2>1, <2>2, RoomFact, HeldMore
  <2>5. CASE u = t
    BY <1>b, <2>1, <2>5, WhereIdle
  <2>6. CASE u # t
    <3>1. /\ pc'[u] = pc[u] /\ pc[u] # "modify" /\ handles'[u] = handles[u]
          /\ obj'[u] = obj[u] /\ arg'[u] = arg[u] /\ InTable' = InTable
      BY <1>b, <1>c, <2>1, <2>2, <2>3, <2>6 DEF InTable
    <3>2. pc[u] = "add" => obj[u] # obj[t] /\ obj[u] \in Paths
      BY <1>a, <1>d, <2>6 DEF WhereOf
    <3>3. \A w \in Threads : obj'[w] = obj[w] \/ obj'[w] = None
      BY <1>b, <2>1
    <3>4. pc[u] = "add" =>
              /\ state'[obj[u]] = "allocated" /\ obj[u] \notin InTable' /\ Held(obj[u])' = {}
              /\ \A w \in Threads : obj'[w] = obj[u] => w = u
      BY <1>a, <1>b, <2>1, <2>4, <3>1, <3>2, <3>3 DEF WhereOf
    <3>5. pc[u] = "ref" => obj[u] \in InTable'
      BY <1>a, <3>1 DEF WhereOf
    <3> QED BY <1>a, <2>1, <3>1, <3>4, <3>5, WhereKept
  <2> QED BY <2>5, <2>6
<1>3. ASSUME NEW t \in Threads, build_name(t) PROVE WhereOf(u)'
  <2>1. /\ pc[t] = "modify" /\ pc' = [pc EXCEPT ![t] = "idle"] /\ obj' = [obj EXCEPT ![t] = None]
    BY <1>3 DEF build_name, Goto
  <2>2. t \in program.threads /\ program.modifies
    BY <1>a, <2>1 DEF Where, WhereOf
  <2>3. CASE u = t
    BY <1>b, <2>1, <2>3, WhereIdle
  <2>4. CASE u # t
    <3>1. pc[u] = "idle" /\ obj[u] = None
      BY <1>a, <2>2, <2>4, Alone DEF WhereOf
    <3> QED BY <1>b, <2>1, <2>4, <3>1, WhereIdle
  <2> QED BY <2>3, <2>4
<1>4. ASSUME NEW t \in Threads, NEW n \in Names, idmef_path_create(t, n) PROVE WhereOf(u)'
  <2>1. /\ pc[t] = "idle" /\ t \in program.threads /\ ~ destroyed /\ Room(t) /\ arg' = [arg EXCEPT ![t] = n]
        /\ UNCHANGED <<program, table, destroyed, handles>>
    BY <1>4 DEF idmef_path_create, Idle
  <2>2. InTable' = InTable /\ Room(t)' /\ (\A p : Held(p)' = Held(p)) /\ arg'[t] = n
    BY <1>b, <2>1 DEF InTable, Room, HandleCount, Held
  <2>3. CASE prelude_hash_get(n) # None
    <3>1. /\ obj' = [obj EXCEPT ![t] = prelude_hash_get(n)] /\ pc' = [pc EXCEPT ![t] = "ref"]
          /\ UNCHANGED <<state, name, refcount>>
      BY <1>4, <2>3 DEF idmef_path_create, Goto
    <3>2. prelude_hash_get(n) \in InTable /\ name[prelude_hash_get(n)] = n
      BY <1>a, <2>3, LookupFacts
    <3>3. CASE u = t
      <4>1. pc'[t] = "ref" /\ obj'[t] = prelude_hash_get(n)
        BY <1>b, <3>1
      <4> QED BY <2>1, <2>2, <2>3, <3>1, <3>2, <3>3, <4>1 DEF WhereOf
    <3>4. CASE u # t
      <4>1. pc'[u] = pc[u] /\ obj'[u] = obj[u] /\ arg'[u] = arg[u] /\ pc[u] # "modify"
        BY <1>b, <1>c, <2>1, <3>1, <3>4
      <4>2. \A w \in Threads : obj'[w] = obj[w] \/ obj'[w] \in InTable
        BY <1>b, <3>1, <3>2
      <4>3. pc[u] = "add" =>
                /\ state'[obj[u]] = "allocated" /\ obj[u] \notin InTable' /\ Held(obj[u])' = {}
                /\ \A w \in Threads : obj'[w] = obj[u] => w = u
        BY <1>a, <2>2, <3>1, <4>1, <4>2 DEF WhereOf
      <4>4. pc[u] = "ref" => obj[u] \in InTable'
        BY <1>a, <2>2 DEF WhereOf
      <4> QED BY <1>a, <2>1, <3>1, <4>1, <4>3, <4>4, WhereKept
    <3> QED BY <3>3, <3>4
  <2>4. CASE prelude_hash_get(n) = None
    <3>1. PICK p \in Paths :
            /\ Fresh(p)
            /\ state' = [state EXCEPT ![p] = "allocated"] /\ name' = [name EXCEPT ![p] = n]
            /\ obj' = [obj EXCEPT ![t] = p] /\ pc' = [pc EXCEPT ![t] = "add"]
      BY <1>4, <2>4 DEF idmef_path_create, Goto
    <3>2. p \notin InTable /\ Held(p) = {} /\ \A w \in Threads : obj[w] # p
      BY <1>a, <3>1, FreshFacts
    <3>3. /\ state'[p] = "allocated" /\ name'[p] = n
          /\ \A q \in Paths \ {p} : state'[q] = state[q] /\ name'[q] = name[q]
      BY <1>a, <3>1 DEF Types
    <3>4. \A w \in Threads : obj'[w] = IF w = t THEN p ELSE obj[w]
      BY <1>b, <3>1
    <3>5. CASE u = t
      <4>1. pc'[t] = "add" /\ obj'[t] = p /\ p # None
        BY <1>b, <3>1
      <4>2. Held(obj[t])' = Held(p)'
        BY <4>1 DEF Held
      <4>3. \A w \in Threads : obj'[w] = obj'[t] => w = t
        BY <3>2, <3>4, <4>1
      <4> QED BY <2>1, <2>2, <3>2, <3>3, <3>5, <4>1, <4>2, <4>3 DEF WhereOf
    <3>6. CASE u # t
      <4>1. pc'[u] = pc[u] /\ obj'[u] = obj[u] /\ arg'[u] = arg[u] /\ pc[u] # "modify"
        BY <1>b, <1>c, <2>1, <3>1, <3>6
      <4>2. pc[u] # "idle" => obj[u] \in Paths \ {p}
        BY <1>d, <3>2
      <4>3. pc[u] = "add" =>
                /\ state'[obj[u]] = "allocated" /\ obj[u] \notin InTable' /\ Held(obj[u])' = {}
                /\ \A w \in Threads : obj'[w] = obj[u] => w = u
        BY <1>a, <2>2, <3>3, <3>4, <4>1, <4>2 DEF WhereOf
      <4>4. pc[u] = "ref" => obj[u] \in InTable'
        BY <1>a, <2>2 DEF WhereOf
      <4> QED BY <1>a, <2>1, <3>3, <4>1, <4>2, <4>3, <4>4, WhereKept
    <3> QED BY <3>5, <3>6
  <2> QED BY <2>3, <2>4
<1>e. ASSUME NEW t \in Threads, Idle(t), UNCHANGED <<program, table, destroyed, pc, arg, obj>>,
             \A v \in Threads \ {t} : handles'[v] = handles[v],
             pc[u] # "idle" => name'[obj[u]] = name[obj[u]],
             pc[u] = "add" => state'[obj[u]] = state[obj[u]] /\ Held(obj[u])' = Held(obj[u])
      PROVE  WhereOf(u)'
  <2>1. CASE u = t
    BY <1>a, <1>e, <2>1, WhereIdle DEF Idle, WhereOf
  <2>2. CASE u # t
    <3>1. InTable' = InTable /\ pc[u] # "modify" /\ handles'[u] = handles[u]
      BY <1>c, <1>e, <2>2 DEF InTable, Idle
    <3>2. pc[u] = "add" =>
              /\ state'[obj[u]] = "allocated" /\ obj[u] \notin InTable' /\ Held(obj[u])' = {}
              /\ \A w \in Threads : obj'[w] = obj[u] => w = u
      BY <1>a, <1>e, <3>1 DEF WhereOf
    <3>3. pc[u] = "ref" => obj[u] \in InTable'
      BY <1>a, <3>1 DEF WhereOf
    <3> QED BY <1>a, <1>e, <3>1, <3>2, <3>3, WhereKept
  <2> QED BY <2>1, <2>2
<1>5. ASSUME NEW t \in Threads, NEW p \in Paths, idmef_path_ref(t, p) PROVE WhereOf(u)'
  <2>1. /\ Idle(t) /\ Holds(t, p) /\ Room(t) /\ UNCHANGED <<program, state, name, table, destroyed, pc, arg, obj>>
        /\ handles' = [handles EXCEPT ![t][p] = @ + 1]
    BY <1>5 DEF idmef_path_ref, thread
  <2>2. /\ \A v \in Threads \ {t} : handles'[v] = handles[v]
        /\ \A q \in Paths \ {p} : Held(q)' = Held(q)
    BY <1>a, <2>1, RoomFact, HeldMore
  <2>3. pc[u] = "add" => obj[u] \in Paths \ {p}
    BY <1>a, <1>d, <2>1, HeldOnce DEF WhereOf
  <2> QED BY <1>e, <2>1, <2>2, <2>3
<1>6. ASSUME NEW t \in Threads, NEW p \in Paths, idmef_path_clone(t, p) PROVE WhereOf(u)'
  <2>1. PICK q \in Paths :
          /\ Fresh(q) /\ Idle(t) /\ Room(t) /\ UNCHANGED <<program, table, destroyed, pc, arg, obj>>
          /\ state' = [state EXCEPT ![q] = "allocated"] /\ name' = [name EXCEPT ![q] = name[p]]
          /\ handles' = [handles EXCEPT ![t][q] = @ + 1]
    BY <1>6 DEF idmef_path_clone, thread
  <2>2. /\ \A v \in Threads \ {t} : handles'[v] = handles[v]
        /\ \A r \in Paths \ {q} : Held(r)' = Held(r)
    BY <1>a, <2>1, RoomFact, HeldMore
  <2>3. pc[u] # "idle" => obj[u] \in Paths \ {q}
    BY <1>a, <1>d, <2>1, FreshFacts
  <2>4. \A r \in Paths \ {q} : state'[r] = state[r] /\ name'[r] = name[r]
    BY <1>a, <2>1 DEF Types
  <2> QED BY <1>e, <2>1, <2>2, <2>3, <2>4
<1>7. ASSUME NEW t \in Threads, NEW p \in Paths, idmef_path_destroy(t, p) PROVE WhereOf(u)'
  <2>1. /\ Idle(t) /\ Holds(t, p) /\ UNCHANGED <<program, name, table, destroyed, pc, arg, obj>>
        /\ state' = [state EXCEPT ![p] = IF refcount[p] = 1 THEN "freed" ELSE @]
        /\ handles' = [handles EXCEPT ![t][p] = @ - 1]
    BY <1>7 DEF idmef_path_destroy, thread
  <2>2. /\ \A v \in Threads \ {t} : handles'[v] = handles[v]
        /\ \A r \in Paths \ {p} : Held(r)' = Held(r)
    BY <1>a, <2>1, HeldLess
  <2>3. pc[u] = "add" => obj[u] \in Paths \ {p}
    BY <1>a, <1>d, <2>1, HeldOnce DEF WhereOf
  <2>4. \A r \in Paths \ {p} : state'[r] = state[r]
    BY <1>a, <2>1 DEF Types
  <2> QED BY <1>e, <2>1, <2>2, <2>3, <2>4
<1>8. ASSUME NEW t \in Threads, NEW p \in Paths, NEW n \in Modified(name[p]), invalidate(t, p, n) PROVE WhereOf(u)'
  <2>1. /\ t \in program.threads /\ program.modifies /\ Holds(t, p) /\ pc' = [pc EXCEPT ![t] = "modify"]
        /\ obj' = [obj EXCEPT ![t] = p] /\ UNCHANGED <<program, state, name, destroyed, handles>>
    BY <1>8 DEF invalidate, Idle, Goto
  <2>2. refcount'[p] = 1 /\ p \notin InTable' /\ state[p] = "allocated"
    BY <1>8, InvalidateFacts
  <2>3. CASE u = t
    <3>1. pc'[t] = "modify" /\ obj'[t] = p /\ p # None /\ Holds(t, p)'
      BY <1>b, <2>1 DEF Holds
    <3> QED BY <2>1, <2>2, <2>3, <3>1 DEF WhereOf, Holds
  <2>4. CASE u # t
    <3>1. pc[u] = "idle" /\ obj[u] = None
      BY <1>a, <2>1, <2>4, Alone DEF WhereOf
    <3> QED BY <1>b, <2>1, <2>4, <3>1, WhereIdle
  <2> QED BY <2>3, <2>4
<1>9. CASE _idmef_path_cache_destroy
  <2>1. pc' = pc /\ obj' = obj /\ pc[u] = "idle"
    BY <1>9 DEF _idmef_path_cache_destroy, thread
  <2> QED BY <1>a, <2>1, WhereIdle DEF WhereOf
<1>10. CASE UNCHANGED vars
  <2>1. /\ UNCHANGED <<program, state, name, refcount, table, destroyed, handles, pc, arg, obj>>
    BY <1>10 DEF vars
  <2> QED BY <1>a, <2>1 DEF WhereOf, Room, HandleCount, InTable, Held, Holds
<1> QED BY <1>1, <1>2, <1>3, <1>4, <1>5, <1>6, <1>7, <1>8, <1>9, <1>10 DEF Next, ThreadStep

-----------------------------------------------------------------------------
(* Reference counts.                                                       *)

\* A path that no step concerns keeps its count.
LEMMA ExactKept ==
    ASSUME NEW q \in Paths, ExactOf(q), state'[q] = state[q], refcount'[q] = refcount[q],
           q \in InTable' <=> q \in InTable, Held(q)' = Held(q), Inside(q)' = Inside(q),
           state[q] # "allocated" => \A u \in Threads : obj'[u] = q => obj[u] = q
    PROVE  ExactOf(q)'
<1>1. OfTable(q)' = OfTable(q) /\ OfThreads(q)' = OfThreads(q) /\ OfCall(q)' = OfCall(q)
  BY DEF OfTable, OfThreads, OfCall
<1> QED BY <1>1 DEF ExactOf

\* The references of the table and of calls are one or none.
LEMMA Counts ==
    ASSUME NEW p
    PROVE  OfTable(p) \in {0, 1} /\ OfCall(p) \in {0, 1} /\ OfThreads(p) \in Nat
  BY HeldFinite DEF OfTable, OfCall

\* Every action keeps every reference count exact.
LEMMA ExactStep == Sound /\ PathInv /\ [Next]_vars => Exact'
<1> SUFFICES ASSUME Sound, PathInv, [Next]_vars, NEW r \in Paths PROVE ExactOf(r)'
  BY DEF Exact
<1>a. Types /\ Listing /\ Where /\ Exact /\ Modifying /\ ExactOf(r)
  BY DEF PathInv, Exact
<1>b. /\ pc \in [Threads -> {"idle", "add", "ref", "modify"}] /\ obj \in [Threads -> Paths \union {None}]
      /\ refcount \in [Paths -> Int] /\ None \notin Paths
      /\ state \in [Paths -> {"none", "allocated", "freed"}] /\ r # None
  BY <1>a, TableFacts DEF Types
<1>c. ASSUME NEW t \in Threads PROVE WhereOf(t)
  BY <1>a DEF Where
<1>d. OfTable(r) \in {0, 1} /\ OfCall(r) \in {0, 1} /\ OfThreads(r) \in Nat /\ refcount[r] \in Int
  BY <1>b, Counts
<1>1. ASSUME NEW t \in Threads, prelude_hash_add(t) PROVE ExactOf(r)'
  <2> DEFINE e == [path |-> obj[t], list |-> Hash(name[obj[t]])]
  <2>1. /\ pc[t] = "add" /\ pc' = [pc EXCEPT ![t] = "ref"] /\ table' = <<e>> \o table
        /\ UNCHANGED <<program, state, name, refcount, destroyed, handles, arg, obj>>
    BY <1>1 DEF prelude_hash_add, Goto
  <2>2. obj[t] \in Paths /\ name[obj[t]] \in Seq(Indexes)
    BY <1>a, <2>1, InHand DEF Types
  <2>3. e \in Entry /\ e.path = obj[t]
    BY <2>2 DEF Entry, Lists
  <2> HIDE DEF e
  <2>4. InTable' = InTable \union {obj[t]}
    BY <1>a, <2>1, <2>3, TableMore
  <2>5. Held(r)' = Held(r)
    BY <2>1 DEF Held
  <2>6. CASE r = obj[t]
    <3>1. state[r] = "allocated" /\ r \notin InTable /\ \A u \in Threads : obj[u] = r => u = t
      BY <1>c, <2>1, <2>6 DEF WhereOf
    <3>2. OfTable(r) = 0 /\ OfTable(r)' = 1
      BY <2>4, <2>6, <3>1 DEF OfTable
    <3>3. OfCall(r) = 1
      BY <2>1, <2>6 DEF OfCall, Inside
    <3>4. OfCall(r)' = 0
      BY <1>b, <2>1, <3>1 DEF OfCall, Inside
    <3>5. OfThreads(r)' = OfThreads(r)
      BY <2>5 DEF OfThreads
    <3>6. refcount[r] = OfTable(r) + OfThreads(r) + OfCall(r)
      BY <1>a, <3>1 DEF ExactOf
    <3>7. refcount'[r] = OfTable(r)' + OfThreads(r)' + OfCall(r)'
      BY <1>d, <2>1, <3>2, <3>3, <3>4, <3>5, <3>6
    <3> QED BY <2>1, <3>1, <3>7 DEF ExactOf
  <2>7. CASE r # obj[t]
    <3>1. Inside(r)' = Inside(r)
      BY <1>b, <2>1, <2>7 DEF Inside
    <3> QED BY <1>a, <2>1, <2>4, <2>5, <2>7, <3>1, ExactKept
  <2> QED BY <2>6, <2>7
<1>2. ASSUME NEW t \in Threads, idmef_path_new_returns(t) PROVE ExactOf(r)'
  <2>1. /\ pc[t] = "ref" /\ pc' = [pc EXCEPT ![t] = "idle"] /\ obj' = [obj EXCEPT ![t] = None]
        /\ handles' = [handles EXCEPT ![t][obj[t]] = @ + 1] /\ refcount' = [refcount EXCEPT ![obj[t]] = @ + 1]
        /\ UNCHANGED <<program, state, name, table, destroyed>>
    BY <1>2 DEF idmef_path_new_returns, Goto
  <2>2. obj[t] \in Paths /\ Room(t) /\ obj[t] \in InTable
    BY <1>c, <2>1, InHand DEF WhereOf
  <2>3. InTable' = InTable /\ Inside(r)' = Inside(r) /\ \A u \in Threads : obj'[u] = r => obj[u] = r
    BY <1>b, <2>1 DEF InTable, Inside
  <2>4. CASE r = obj[t]
    <3>1. OfThreads(r)' = OfThreads(r) + 1
      BY <1>a, <2>1, <2>2, <2>4, RoomFact, HeldMore
    <3>2. OfTable(r)' = OfTable(r) /\ OfCall(r)' = OfCall(r)
      BY <2>3 DEF OfTable, OfCall
    <3>3. state[r] = "allocated" /\ refcount[r] = OfTable(r) + OfThreads(r) + OfCall(r)
      BY <1>a, <2>2, <2>4 DEF ExactOf
    <3>4. refcount'[r] = refcount[r] + 1
      BY <1>b, <2>1, <2>4
    <3>5. refcount'[r] = OfTable(r)' + OfThreads(r)' + OfCall(r)'
      BY <1>d, <3>1, <3>2, <3>3, <3>4
    <3> QED BY <2>1, <3>3, <3>5 DEF ExactOf
  <2>5. CASE r # obj[t]
    <3>1. Held(r)' = Held(r)
      BY <1>a, <2>1, <2>2, <2>5, RoomFact, HeldMore
    <3>2. refcount'[r] = refcount[r]
      BY <1>b, <2>1, <2>5
    <3> QED BY <1>a, <2>1, <2>3, <3>1, <3>2, ExactKept
  <2> QED BY <2>4, <2>5
<1>3. ASSUME NEW t \in Threads, build_name(t) PROVE ExactOf(r)'
  <2>1. /\ pc[t] = "modify" /\ pc' = [pc EXCEPT ![t] = "idle"] /\ obj' = [obj EXCEPT ![t] = None]
        /\ UNCHANGED <<program, state, refcount, table, destroyed, handles>>
    BY <1>3 DEF build_name, Goto
  <2>2. /\ InTable' = InTable /\ Inside(r)' = Inside(r) /\ Held(r)' = Held(r)
        /\ \A u \in Threads : obj'[u] = r => obj[u] = r
    BY <1>b, <2>1 DEF InTable, Inside, Held
  <2> QED BY <1>a, <2>1, <2>2, ExactKept
<1>4. ASSUME NEW t \in Threads, NEW n \in Names, idmef_path_create(t, n) PROVE ExactOf(r)'
  <2>1. pc[t] = "idle" /\ UNCHANGED <<program, table, destroyed, handles>>
    BY <1>4 DEF idmef_path_create, Idle
  <2>2. InTable' = InTable /\ Held(r)' = Held(r)
    BY <2>1 DEF InTable, Held
  <2>3. CASE prelude_hash_get(n) # None
    <3>1. /\ obj' = [obj EXCEPT ![t] = prelude_hash_get(n)] /\ pc' = [pc EXCEPT ![t] = "ref"]
          /\ UNCHANGED <<state, name, refcount>>
      BY <1>4, <2>3 DEF idmef_path_create, Goto
    <3>2. prelude_hash_get(n) \in InTable
      BY <1>a, <2>3, LookupFacts
    <3>3. state[r] # "allocated" => prelude_hash_get(n) # r
      BY <3>2, InHand
    <3>4. obj[t] = None
      BY <1>c, <2>1 DEF WhereOf
    <3>5. Inside(r)' = Inside(r)
      BY <1>b, <2>1, <3>1, <3>4 DEF Inside
    <3>6. state[r] # "allocated" => \A u \in Threads : obj'[u] = r => obj[u] = r
      BY <1>b, <3>1, <3>3
    <3> QED BY <1>a, <2>2, <3>1, <3>5, <3>6, ExactKept
  <2>4. CASE prelude_hash_get(n) = None
    <3>1. PICK p \in Paths :
            /\ Fresh(p) /\ state' = [state EXCEPT ![p] = "allocated"]
            /\ refcount' = [refcount EXCEPT ![p] = 1]
            /\ obj' = [obj EXCEPT ![t] = p] /\ pc' = [pc EXCEPT ![t] = "add"]
      BY <1>4, <2>4 DEF idmef_path_create, Goto
    <3>2. p \notin InTable /\ Held(p) = {} /\ \A w \in Threads : obj[w] # p
      BY <1>a, <3>1, FreshFacts
    <3>3. CASE r = p
      <4>1. state'[r] = "allocated" /\ refcount'[r] = 1 /\ pc'[t] = "add" /\ obj'[t] = r
        BY <1>b, <3>1, <3>3
      <4>2. OfTable(r)' = 0 /\ OfCall(r)' = 1
        BY <2>2, <3>2, <3>3, <4>1 DEF OfTable, OfCall, Inside
      <4>3. OfThreads(r)' = OfThreads(r) /\ OfThreads(r) = 0
        BY <2>2, <3>2, <3>3, HeldFinite DEF OfThreads
      <4> QED BY <4>1, <4>2, <4>3 DEF ExactOf
    <3>4. CASE r # p
      <4>1. state'[r] = state[r] /\ refcount'[r] = refcount[r]
        BY <1>b, <3>1, <3>4
      <4>2. Inside(r)' = Inside(r) /\ \A u \in Threads : obj'[u] = r => obj[u] = r
        BY <1>b, <2>1, <3>1, <3>4 DEF Inside
      <4> QED BY <1>a, <2>2, <4>1, <4>2, ExactKept
    <3> QED BY <3>3, <3>4
  <2> QED BY <2>3, <2>4
<1>5. ASSUME NEW t \in Threads, NEW p \in Paths, idmef_path_ref(t, p) PROVE ExactOf(r)'
  <2>1. /\ Holds(t, p) /\ Room(t) /\ UNCHANGED <<program, state, name, table, destroyed, pc, arg, obj>>
        /\ handles' = [handles EXCEPT ![t][p] = @ + 1] /\ refcount' = [refcount EXCEPT ![p] = @ + 1]
    BY <1>5 DEF idmef_path_ref, thread
  <2>2. InTable' = InTable /\ Inside(r)' = Inside(r)
    BY <2>1 DEF InTable, Inside
  <2>3. CASE r = p
    <3>1. OfThreads(r)' = OfThreads(r) + 1
      BY <1>a, <2>1, <2>3, RoomFact, HeldMore
    <3>2. OfTable(r)' = OfTable(r) /\ OfCall(r)' = OfCall(r)
      BY <2>2 DEF OfTable, OfCall
    <3>3. state[r] = "allocated"
      BY <1>a, <2>1, <2>3, HeldAllocated
    <3>4. refcount[r] = OfTable(r) + OfThreads(r) + OfCall(r)
      BY <1>a, <3>3 DEF ExactOf
    <3>5. refcount'[r] = refcount[r] + 1
      BY <1>b, <2>1, <2>3
    <3>6. refcount'[r] = OfTable(r)' + OfThreads(r)' + OfCall(r)'
      BY <1>d, <3>1, <3>2, <3>4, <3>5
    <3> QED BY <2>1, <3>3, <3>6 DEF ExactOf
  <2>4. CASE r # p
    <3>1. Held(r)' = Held(r)
      BY <1>a, <2>1, <2>4, RoomFact, HeldMore
    <3>2. refcount'[r] = refcount[r]
      BY <1>b, <2>1, <2>4
    <3> QED BY <1>a, <2>1, <2>2, <3>1, <3>2, ExactKept
  <2> QED BY <2>3, <2>4
<1>6. ASSUME NEW t \in Threads, NEW p \in Paths, idmef_path_clone(t, p) PROVE ExactOf(r)'
  <2>1. PICK q \in Paths :
          /\ Fresh(q) /\ Room(t) /\ UNCHANGED <<program, table, destroyed, pc, arg, obj>>
          /\ state' = [state EXCEPT ![q] = "allocated"] /\ refcount' = [refcount EXCEPT ![q] = 1]
          /\ handles' = [handles EXCEPT ![t][q] = @ + 1]
    BY <1>6 DEF idmef_path_clone, thread
  <2>2. q \notin InTable /\ Held(q) = {} /\ \A w \in Threads : obj[w] # q
    BY <1>a, <2>1, FreshFacts
  <2>3. InTable' = InTable /\ Inside(r)' = Inside(r)
    BY <2>1 DEF InTable, Inside
  <2>4. CASE r = q
    <3>1. OfThreads(r)' = OfThreads(r) + 1
      BY <1>a, <2>1, <2>4, RoomFact, HeldMore
    <3>2. OfThreads(r) = 0
      BY <2>2, <2>4, HeldFinite
    <3>3. OfTable(r)' = 0 /\ OfCall(r)' = 0
      BY <2>2, <2>3, <2>4 DEF OfTable, OfCall, Inside
    <3>4. state'[r] = "allocated" /\ refcount'[r] = 1
      BY <1>b, <2>1, <2>4
    <3> QED BY <3>1, <3>2, <3>3, <3>4 DEF ExactOf
  <2>5. CASE r # q
    <3>1. Held(r)' = Held(r)
      BY <1>a, <2>1, <2>5, RoomFact, HeldMore
    <3>2. refcount'[r] = refcount[r] /\ state'[r] = state[r]
      BY <1>b, <2>1, <2>5
    <3> QED BY <1>a, <2>1, <2>3, <3>1, <3>2, ExactKept
  <2> QED BY <2>4, <2>5
<1>7. ASSUME NEW t \in Threads, NEW p \in Paths, idmef_path_destroy(t, p) PROVE ExactOf(r)'
  <2>1. /\ Idle(t) /\ Holds(t, p) /\ UNCHANGED <<program, name, table, destroyed, pc, arg, obj>>
        /\ state' = [state EXCEPT ![p] = IF refcount[p] = 1 THEN "freed" ELSE @]
        /\ handles' = [handles EXCEPT ![t][p] = @ - 1] /\ refcount' = [refcount EXCEPT ![p] = @ - 1]
    BY <1>7 DEF idmef_path_destroy, thread
  <2>2. InTable' = InTable /\ Inside(r)' = Inside(r)
    BY <2>1 DEF InTable, Inside
  <2>3. CASE r = p
    <3>1. OfThreads(r)' = OfThreads(r) - 1 /\ OfThreads(r) >= 1
      BY <1>a, <2>1, <2>3, HeldLess, HeldAllocated
    <3>2. OfTable(r)' = OfTable(r) /\ OfCall(r)' = OfCall(r)
      BY <2>2 DEF OfTable, OfCall
    <3>3. state[r] = "allocated"
      BY <1>a, <2>1, <2>3, HeldAllocated
    <3>4. refcount[r] = OfTable(r) + OfThreads(r) + OfCall(r)
      BY <1>a, <3>3 DEF ExactOf
    <3>5. refcount'[r] = refcount[r] - 1
      BY <1>b, <2>1, <2>3
    <3>6. CASE refcount[r] = 1
      <4>1. OfTable(r) = 0 /\ OfCall(r) = 0 /\ OfThreads(r)' = 0
        BY <1>d, <3>1, <3>4, <3>6
      <4>2. state'[r] = "freed"
        BY <1>b, <2>1, <2>3, <3>6
      <4>3. r \notin InTable' /\ r \notin InTable /\ Inside(r) = {}
        BY <2>2, <4>1 DEF OfTable, OfCall
      <4>4. Held(r)' = {}
        <5>1. IsFiniteSet(Held(r)')
          <6>1. Held(r)' \subseteq Threads \X (1 .. MaxHandles)
            BY DEF Held
          <6> QED BY <6>1, HeldFinite, FS_Subset
        <5> QED BY <4>1, <5>1, FS_EmptySet DEF OfThreads
      <4>5. ASSUME NEW u \in Threads, obj[u] = r PROVE FALSE
        <5>1. pc[u] # "idle" /\ u \in program.threads
          BY <1>b, <1>c, <4>5 DEF WhereOf
        <5>2. u # t /\ t \in program.threads
          BY <2>1, <5>1 DEF Idle
        <5>3. pc[u] # "modify"
          BY <1>a, <5>2, Alone
        <5>4. pc[u] # "add"
          BY <4>3, <4>5 DEF Inside
        <5>5. pc[u] # "ref"
          BY <1>c, <4>3, <4>5 DEF WhereOf
        <5> QED BY <1>b, <5>1, <5>3, <5>4, <5>5
      <4> QED BY <2>1, <4>2, <4>3, <4>4, <4>5 DEF ExactOf
    <3>7. CASE refcount[r] # 1
      <4>1. state'[r] = "allocated"
        BY <1>b, <2>1, <2>3, <3>3, <3>7
      <4>2. refcount'[r] = OfTable(r)' + OfThreads(r)' + OfCall(r)'
        BY <1>d, <3>1, <3>2, <3>4, <3>5
      <4> QED BY <4>1, <4>2 DEF ExactOf
    <3> QED BY <3>6, <3>7
  <2>4. CASE r # p
    <3>1. Held(r)' = Held(r)
      BY <1>a, <2>1, <2>4, HeldLess
    <3>2. refcount'[r] = refcount[r] /\ state'[r] = state[r]
      BY <1>b, <2>1, <2>4
    <3> QED BY <1>a, <2>1, <2>2, <3>1, <3>2, ExactKept
  <2> QED BY <2>3, <2>4
<1>8. ASSUME NEW t \in Threads, NEW p \in Paths, NEW n \in Modified(name[p]), invalidate(t, p, n) PROVE ExactOf(r)'
  <2>1. /\ pc[t] = "idle" /\ pc' = [pc EXCEPT ![t] = "modify"]
        /\ obj' = [obj EXCEPT ![t] = p] /\ UNCHANGED <<program, state, name, destroyed, handles>>
    BY <1>8 DEF invalidate, Idle, Goto
  <2>2. Held(r)' = Held(r)
    BY <2>1 DEF Held
  <2>3. obj[t] = None
    BY <1>c, <2>1 DEF WhereOf
  <2>4. Inside(r)' = Inside(r)
    BY <1>b, <2>1, <2>3 DEF Inside
  <2>5. state[p] = "allocated" /\ refcount'[p] = 1
    BY <1>8, InvalidateFacts
  <2>6. state[r] # "allocated" => \A u \in Threads : obj'[u] = r => obj[u] = r
    BY <1>b, <2>1, <2>5
  <2>7. CASE r = p /\ refcount' # refcount
    <3>1. refcount[r] = 2 /\ r \in InTable /\ r \notin InTable'
      BY <1>8, <2>7, InvalidateFacts
    <3>2. OfTable(r) = 1 /\ OfTable(r)' = 0
      BY <3>1 DEF OfTable
    <3>3. OfThreads(r)' = OfThreads(r) /\ OfCall(r)' = OfCall(r)
      BY <2>2, <2>4 DEF OfThreads, OfCall
    <3>4. refcount[r] = OfTable(r) + OfThreads(r) + OfCall(r)
      BY <1>a, <2>5, <2>7 DEF ExactOf
    <3>5. refcount'[r] = OfTable(r)' + OfThreads(r)' + OfCall(r)'
      BY <1>d, <2>5, <2>7, <3>1, <3>2, <3>3, <3>4
    <3> QED BY <2>1, <2>5, <2>7, <3>5 DEF ExactOf
  <2>8. CASE ~ (r = p /\ refcount' # refcount)
    <3>1. refcount'[r] = refcount[r]
      BY <1>8, <2>8, InvalidateFacts
    <3>2. r \in InTable' <=> r \in InTable
      <4>1. CASE table' = table
        BY <4>1 DEF InTable
      <4>2. CASE table' # table
        <5>1. InTable' = InTable \ {p} /\ refcount[p] = 2 /\ refcount'[p] = 1
          BY <1>8, <4>2, InvalidateFacts
        <5>2. refcount' # refcount
          BY <5>1
        <5> QED BY <2>8, <5>1, <5>2
      <4> QED BY <4>1, <4>2
    <3> QED BY <1>a, <2>1, <2>2, <2>4, <2>6, <3>1, <3>2, ExactKept
  <2> QED BY <2>7, <2>8
<1>9. CASE _idmef_path_cache_destroy
  <2>1. /\ \A t \in Threads : pc[t] = "idle"
        /\ table' = <<>> /\ UNCHANGED <<program, name, handles, pc, arg, obj>>
        /\ refcount'[r] = refcount[r] - Cardinality(Cached(r))
        /\ state'[r] = IF Cached(r) # {} /\ refcount'[r] = 0 THEN "freed" ELSE state[r]
    BY <1>9 DEF _idmef_path_cache_destroy, thread
  <2>2. InTable' = {} /\ Held(r)' = Held(r) /\ Inside(r) = {} /\ Inside(r)' = {}
    BY <2>1 DEF InTable, Held, Inside
  <2>3. OfTable(r)' = 0 /\ OfCall(r)' = 0 /\ OfCall(r) = 0 /\ OfThreads(r)' = OfThreads(r)
    BY <2>2 DEF OfTable, OfCall, OfThreads
  <2>4. \A u \in Threads : obj[u] = None
    BY <1>c, <2>1 DEF WhereOf
  <2>5. Cached(r) # {} <=> r \in InTable
    BY <1>a, CachedFinite
  <2>6. Cardinality(Cached(r)) = OfTable(r)
    BY <1>a, CachedFinite
  <2>7. CASE state[r] = "allocated"
    <3>1. refcount[r] = OfTable(r) + OfThreads(r) + OfCall(r)
      BY <1>a, <2>7 DEF ExactOf
    <3>2. refcount'[r] = OfThreads(r)
      BY <1>d, <2>1, <2>3, <2>6, <3>1
    <3>3. CASE state'[r] = "allocated"
      BY <1>d, <2>3, <3>2, <3>3 DEF ExactOf
    <3>4. CASE state'[r] # "allocated"
      <4>1. refcount'[r] = 0
        BY <2>1, <2>7, <3>4
      <4>2. Held(r)' = {}
        BY <2>2, <3>2, <4>1, HeldFinite
      <4> QED BY <1>b, <2>1, <2>2, <2>4, <3>4, <4>2 DEF ExactOf
    <3> QED BY <3>3, <3>4
  <2>8. CASE state[r] # "allocated"
    <3>1. r \notin InTable /\ Held(r) = {}
      BY <1>a, <2>8 DEF ExactOf
    <3>2. state'[r] # "allocated"
      BY <2>1, <2>5, <2>8, <3>1
    <3> QED BY <1>b, <2>1, <2>2, <2>4, <3>1, <3>2 DEF ExactOf
  <2> QED BY <2>7, <2>8
<1>10. CASE UNCHANGED vars
  <2>1. /\ UNCHANGED <<program, state, name, refcount, table, destroyed, handles, pc, arg, obj>>
    BY <1>10 DEF vars
  <2>2. InTable' = InTable /\ Held(r)' = Held(r) /\ Inside(r)' = Inside(r)
    BY <2>1 DEF InTable, Held, Inside
  <2> QED BY <1>a, <2>1, <2>2, ExactKept
<1> QED BY <1>1, <1>2, <1>3, <1>4, <1>5, <1>6, <1>7, <1>8, <1>9, <1>10 DEF Next, ThreadStep

-----------------------------------------------------------------------------
(* Programs that modify paths.                                             *)

\* The names of the table, and the one path that is about to be added.
LEMMA ModifyingStep == Sound /\ PathInv /\ [Next]_vars => Modifying'
<1> SUFFICES ASSUME Sound, PathInv, [Next]_vars PROVE Modifying'
  OBVIOUS
<1>0. program' = program
  BY ZenonT(60) DEF Next, ThreadStep, prelude_hash_add, idmef_path_new_returns, build_name, idmef_path_create, invalidate,
         idmef_path_ref, idmef_path_clone, idmef_path_destroy, _idmef_path_cache_destroy, vars
<1> SUFFICES ASSUME program.modifies PROVE Modifying'
  BY <1>0 DEF Modifying
<1> DEFINE
      Own == ~ destroyed => \A p \in Paths : state[p] = "allocated" /\ p \notin InTable => refcount[p] = 1
      Once == \A i, j \in 1 .. Len(table) : name[table[i].path] = name[table[j].path] => i = j
      New == \A t \in Threads : pc[t] = "add" => \A i \in 1 .. Len(table) : name[table[i].path] # name[obj[t]]
<1>a. Types /\ Listing /\ Where /\ Exact /\ Own /\ Once /\ New
  BY DEF PathInv, Modifying
<1>b. /\ pc \in [Threads -> {"idle", "add", "ref", "modify"}] /\ obj \in [Threads -> Paths \union {None}]
      /\ refcount \in [Paths -> Int] /\ None \notin Paths /\ InTable \subseteq Paths
      /\ state \in [Paths -> {"none", "allocated", "freed"}] /\ name \in [Paths -> Seq(Indexes)]
  BY <1>a, TableFacts DEF Types
<1>c. ASSUME NEW t \in Threads, t \in program.threads, NEW u \in Threads, u # t PROVE pc[u] = "idle"
  BY <1>a, <1>c, Alone
<1>d. ASSUME Own', Once', New' PROVE Modifying'
  BY <1>d DEF Modifying
<1>e. ASSUME table' = table, \A q \in InTable : name'[q] = name[q] PROVE Once' /\ InTable' = InTable
  <2>1. \A i \in 1 .. Len(table) : name'[table[i].path] = name[table[i].path]
    BY <1>e DEF InTable
  <2> QED BY <1>a, <1>e, <2>1 DEF InTable
<1>f. ASSUME NEW t \in Threads, t \in program.threads, pc'[t] # "add", \A u \in Threads \ {t} : pc'[u] = pc[u]
      PROVE  New'
  BY <1>c, <1>f
<1>1. ASSUME NEW t \in Threads, prelude_hash_add(t) PROVE Modifying'
  <2> DEFINE e == [path |-> obj[t], list |-> Hash(name[obj[t]])]
  <2>1. /\ pc[t] = "add" /\ pc' = [pc EXCEPT ![t] = "ref"] /\ table' = <<e>> \o table
        /\ UNCHANGED <<program, state, name, refcount, destroyed, handles, arg, obj>>
    BY <1>1 DEF prelude_hash_add, Goto
  <2>2. obj[t] \in Paths /\ name[obj[t]] \in Seq(Indexes) /\ t \in program.threads
    BY <1>b, <2>1, InHand
  <2>3. e \in Entry /\ e.path = obj[t]
    BY <2>2 DEF Entry, Lists
  <2> HIDE DEF e, Own, Once, New
  <2>4. /\ InTable' = InTable \union {obj[t]} /\ table'[1] = e
        /\ \A i \in 1 .. Len(table') : i # 1 => i - 1 \in 1 .. Len(table) /\ table'[i] = table[i - 1]
    BY <1>a, <2>1, <2>3, TableMore
  <2>5. Own'
    BY <1>a, <2>1, <2>4 DEF Own
  <2>6. Once'
    <3>1. ASSUME NEW l \in 1 .. Len(table), name[table[l].path] = name[obj[t]] PROVE FALSE
      BY <1>a, <2>1, <3>1 DEF New
    <3>2. ASSUME NEW i \in 1 .. Len(table'), NEW j \in 1 .. Len(table'),
                 name[table'[i].path] = name[table'[j].path]
          PROVE  i = j
      <4>1. CASE i = 1
        BY <2>3, <2>4, <3>1, <3>2, <4>1
      <4>2. CASE j = 1
        BY <2>3, <2>4, <3>1, <3>2, <4>2
      <4>3. CASE i # 1 /\ j # 1
        <5>1. /\ i - 1 \in 1 .. Len(table) /\ j - 1 \in 1 .. Len(table)
              /\ table'[i] = table[i - 1] /\ table'[j] = table[j - 1]
          BY <2>4, <4>3
        <5>2. name[table[i - 1].path] = name[table[j - 1].path]
          BY <3>2, <5>1
        <5>3. i - 1 = j - 1
          BY <1>a, <5>1, <5>2 DEF Once
        <5> QED BY <5>3
      <4> QED BY <4>1, <4>2, <4>3
    <3> QED BY <2>1, <3>2 DEF Once
  <2>7. New'
    BY <1>b, <1>f, <2>1, <2>2
  <2> QED BY <1>d, <2>5, <2>6, <2>7
<1>2. ASSUME NEW t \in Threads, idmef_path_new_returns(t) PROVE Modifying'
  <2>1. /\ pc[t] = "ref" /\ pc' = [pc EXCEPT ![t] = "idle"] /\ refcount' = [refcount EXCEPT ![obj[t]] = @ + 1]
        /\ UNCHANGED <<program, state, name, table, destroyed>>
    BY <1>2 DEF idmef_path_new_returns, Goto
  <2>2. obj[t] \in InTable /\ t \in program.threads
    BY <1>a, <2>1 DEF Where, WhereOf
  <2>3. Once' /\ InTable' = InTable
    BY <1>e, <2>1
  <2>4. \A p \in Paths : p \notin InTable => refcount'[p] = refcount[p]
    BY <1>b, <2>1, <2>2
  <2>5. Own'
    BY <1>a, <2>1, <2>3, <2>4
  <2>6. New'
    BY <1>b, <1>f, <2>1, <2>2
  <2> QED BY <1>d, <2>3, <2>5, <2>6
<1>3. ASSUME NEW t \in Threads, build_name(t) PROVE Modifying'
  <2>1. /\ pc[t] = "modify" /\ pc' = [pc EXCEPT ![t] = "idle"] /\ name' = [name EXCEPT ![obj[t]] = arg[t]]
        /\ UNCHANGED <<program, state, refcount, table, destroyed>>
    BY <1>3 DEF build_name, Goto
  <2>2. obj[t] \notin InTable /\ t \in program.threads
    BY <1>a, <2>1 DEF Where, WhereOf
  <2>3. \A q \in InTable : name'[q] = name[q]
    BY <1>b, <2>1, <2>2
  <2>4. Once' /\ InTable' = InTable
    BY <1>e, <2>1, <2>3
  <2>5. Own'
    BY <1>a, <2>1, <2>4
  <2>6. New'
    BY <1>b, <1>f, <2>1, <2>2
  <2> QED BY <1>d, <2>4, <2>5, <2>6
<1>4. ASSUME NEW t \in Threads, NEW n \in Names, idmef_path_create(t, n) PROVE Modifying'
  <2>1. t \in program.threads /\ UNCHANGED <<program, table, destroyed, handles>>
    BY <1>4 DEF idmef_path_create, Idle
  <2>2. CASE prelude_hash_get(n) # None
    <3>1. pc' = [pc EXCEPT ![t] = "ref"] /\ UNCHANGED <<state, name, refcount>>
      BY <1>4, <2>2 DEF idmef_path_create, Goto
    <3>2. Once' /\ InTable' = InTable
      BY <1>e, <2>1, <3>1
    <3>3. Own'
      BY <1>a, <2>1, <3>1, <3>2
    <3>4. New'
      BY <1>b, <1>f, <2>1, <3>1
    <3> QED BY <1>d, <3>2, <3>3, <3>4
  <2>3. CASE prelude_hash_get(n) = None
    <3>1. PICK p \in Paths :
            /\ Fresh(p) /\ state' = [state EXCEPT ![p] = "allocated"] /\ name' = [name EXCEPT ![p] = n]
            /\ refcount' = [refcount EXCEPT ![p] = 1]
            /\ obj' = [obj EXCEPT ![t] = p] /\ pc' = [pc EXCEPT ![t] = "add"]
      BY <1>4, <2>3 DEF idmef_path_create, Goto
    <3>2. p \notin InTable
      BY <1>a, <3>1, FreshFacts
    <3>3. \A q \in InTable : name'[q] = name[q]
      BY <1>b, <3>1, <3>2
    <3>4. Once' /\ InTable' = InTable
      BY <1>e, <2>1, <3>3
    <3>5. refcount'[p] = 1 /\ \A q \in Paths \ {p} : state'[q] = state[q] /\ refcount'[q] = refcount[q]
      BY <1>b, <3>1
    <3>6. Own'
      BY <1>a, <2>1, <3>4, <3>5
    <3>7. New'
      <4>1. \A i \in 1 .. Len(table) : name[table[i].path] # n
        BY <1>a, <2>3, LookupFacts
      <4>2. \A i \in 1 .. Len(table) : name'[table[i].path] = name[table[i].path]
        BY <3>3 DEF InTable
      <4>3. ASSUME NEW u \in Threads, pc'[u] = "add" PROVE u = t
        BY <1>b, <1>c, <2>1, <3>1, <4>3
      <4>4. obj'[t] = p /\ name'[p] = n
        BY <1>b, <3>1
      <4> QED BY <2>1, <4>1, <4>2, <4>3, <4>4
    <3> QED BY <1>d, <3>4, <3>6, <3>7
  <2> QED BY <2>2, <2>3
<1>5. ASSUME NEW t \in Threads, NEW p \in Paths, idmef_path_ref(t, p) PROVE Modifying'
  BY <1>5, <1>a DEF idmef_path_ref, Sound, Types
<1>6. ASSUME NEW t \in Threads, NEW p \in Paths, idmef_path_clone(t, p) PROVE Modifying'
  <2>1. PICK q \in Paths :
          /\ Fresh(q) /\ Idle(t) /\ UNCHANGED <<program, table, destroyed, pc, arg, obj>>
          /\ state' = [state EXCEPT ![q] = "allocated"] /\ refcount' = [refcount EXCEPT ![q] = 1]
          /\ name' = [name EXCEPT ![q] = name[p]]
    BY <1>6 DEF idmef_path_clone, thread
  <2>2. q \notin InTable
    BY <1>a, <2>1, FreshFacts
  <2>3. \A r \in InTable : name'[r] = name[r]
    BY <1>b, <2>1, <2>2
  <2>4. Once' /\ InTable' = InTable
    BY <1>e, <2>1, <2>3
  <2>5. refcount'[q] = 1 /\ \A r \in Paths \ {q} : state'[r] = state[r] /\ refcount'[r] = refcount[r]
    BY <1>b, <2>1
  <2>6. Own'
    BY <1>a, <2>1, <2>4, <2>5
  <2>7. New'
    BY <1>f, <2>1 DEF Idle
  <2> QED BY <1>d, <2>4, <2>6, <2>7
<1>7. ASSUME NEW t \in Threads, NEW p \in Paths, idmef_path_destroy(t, p) PROVE Modifying'
  <2>1. /\ Idle(t) /\ UNCHANGED <<program, name, table, destroyed, pc, arg, obj>>
        /\ state' = [state EXCEPT ![p] = IF refcount[p] = 1 THEN "freed" ELSE @]
        /\ refcount' = [refcount EXCEPT ![p] = @ - 1]
    BY <1>7 DEF idmef_path_destroy, thread
  <2>2. Once' /\ InTable' = InTable
    BY <1>e, <2>1
  <2>3. \A q \in Paths \ {p} : state'[q] = state[q] /\ refcount'[q] = refcount[q]
    BY <1>b, <2>1
  <2>4. state'[p] = IF refcount[p] = 1 THEN "freed" ELSE state[p]
    BY <1>b, <2>1
  <2>5. Own'
    BY <1>a, <2>1, <2>2, <2>3, <2>4
  <2>6. New'
    BY <1>f, <2>1 DEF Idle
  <2> QED BY <1>d, <2>2, <2>5, <2>6
<1>8. ASSUME NEW t \in Threads, NEW p \in Paths, NEW n \in Modified(name[p]), invalidate(t, p, n) PROVE Modifying'
  <2>1. /\ Idle(t) /\ pc' = [pc EXCEPT ![t] = "modify"] /\ UNCHANGED <<program, state, name, destroyed, handles>>
    BY <1>8 DEF invalidate, Goto
  <2>2. New'
    BY <1>b, <1>f, <2>1 DEF Idle
  <2>3. refcount'[p] = 1 /\ \A q \in Paths \ {p} : refcount'[q] = refcount[q]
    BY <1>8, InvalidateFacts
  <2>4. CASE table' = table
    <3>1. Once' /\ InTable' = InTable
      BY <1>e, <2>1, <2>4
    <3>2. Own'
      BY <1>a, <2>1, <2>3, <3>1
    <3> QED BY <1>d, <2>2, <3>1, <3>2
  <2>5. CASE table' # table
    <3>1. InTable' = InTable \ {p}
      BY <1>8, <2>5, InvalidateFacts
    <3>2. PICK k \in 1 .. Len(table) :
            /\ Len(table') = Len(table) - 1
            /\ \A i \in 1 .. Len(table') :
                 /\ (IF i < k THEN i ELSE i + 1) \in (1 .. Len(table)) \ {k}
                 /\ table'[i] = table[IF i < k THEN i ELSE i + 1]
      BY <1>8, <2>5, InvalidateFacts
    <3>3. Own'
      BY <1>a, <2>1, <2>3, <3>1
    <3>4. Once'
      <4>1. ASSUME NEW i \in 1 .. Len(table'), NEW j \in 1 .. Len(table'),
                   name[table'[i].path] = name[table'[j].path]
            PROVE  i = j
        <5>1. PICK a : a = IF i < k THEN i ELSE i + 1
          OBVIOUS
        <5>2. PICK b : b = IF j < k THEN j ELSE j + 1
          OBVIOUS
        <5>3. a \in 1 .. Len(table) /\ table'[i] = table[a]
          BY ONLY <3>2, <4>1, <5>1
        <5>4. b \in 1 .. Len(table) /\ table'[j] = table[b]
          BY ONLY <3>2, <4>1, <5>2
        <5>5. name[table[a].path] = name[table[b].path]
          BY ONLY <4>1, <5>3, <5>4
        <5>6. a = b
          BY ONLY <1>a, <5>3, <5>4, <5>5
        <5>7. i \in Int /\ j \in Int /\ k \in Int
          BY ONLY <3>2, <4>1
        <5> QED BY ONLY <5>1, <5>2, <5>6, <5>7
      <4> QED BY <2>1, <4>1
    <3> QED BY <1>d, <2>2, <3>3, <3>4
  <2> QED BY <2>4, <2>5
<1>9. CASE _idmef_path_cache_destroy
  <2>1. destroyed' = TRUE /\ Len(table') = 0 /\ UNCHANGED <<name, pc, obj>>
    BY <1>9 DEF _idmef_path_cache_destroy, thread
  <2> QED BY <1>d, <2>1
<1>10. CASE UNCHANGED vars
  BY <1>10, <1>a DEF vars, Modifying, InTable
<1> QED BY <1>1, <1>2, <1>3, <1>4, <1>5, <1>6, <1>7, <1>8, <1>9, <1>10 DEF Next, ThreadStep

-----------------------------------------------------------------------------
(* The theorems.                                                           *)

\* Nothing is allocated at the start.
LEMMA PathInit == Init => PathInv
<1> SUFFICES ASSUME Init PROVE PathInv
  OBVIOUS
<1>1. Types
  <2>1. <<>> \in Seq(Indexes) /\ Len(<<>>) <= MAX_DEPTH
    BY NameFacts
  <2>2. table \in Seq([path : Paths, list : Lists])
    BY EmptySeq DEF Init
  <2>3. handles \in [Threads -> [Paths -> 0 .. MaxHandles]]
    BY BoundsAssumption DEF Init
  <2>4. name \in [Paths -> Seq(Indexes)] /\ \A p \in Paths : Len(name[p]) <= MAX_DEPTH
    BY <2>1 DEF Init
  <2>5. arg \in [Threads -> Seq(Indexes)] /\ \A t \in Threads : Len(arg[t]) <= MAX_DEPTH
    BY <2>1 DEF Init
  <2>6. program \in Programs /\ destroyed \in BOOLEAN
    BY DEF Init
  <2>7. state \in [Paths -> {"none", "allocated", "freed"}] /\ refcount \in [Paths -> Int]
    BY DEF Init
  <2>8. pc \in [Threads -> {"idle", "add", "ref", "modify"}] /\ obj \in [Threads -> Paths \union {None}]
    BY DEF Init
  <2> QED BY <2>2, <2>3, <2>4, <2>5, <2>6, <2>7, <2>8 DEF Types
<1>2. Len(table) = 0 /\ InTable = {}
  BY DEF Init, InTable
<1>3. Listing
  BY <1>2 DEF Listing
<1>4. Where
  BY DEF Init, Where, WhereOf
<1>5. \A p \in Paths : Held(p) = {}
  <2>1. \A p \in Paths, h \in Threads \X (1 .. MaxHandles) : ~ (h[2] <= handles[h[1]][p])
    BY BoundsAssumption DEF Init
  <2> QED BY <2>1 DEF Held
<1>6. Exact
  <2>1. \A t \in Threads : obj[t] = None
    BY DEF Init
  <2>2. None \notin Paths
    BY <1>1, TableFacts
  <2> QED BY <1>2, <1>5, <2>1, <2>2 DEF Init, Exact, ExactOf
<1>7. Modifying
  BY <1>2 DEF Init, Modifying
<1> QED BY <1>1, <1>3, <1>4, <1>6, <1>7 DEF PathInv

\* Types, listing, what calls have in hand, and counts hold together in every
\* behaviour of idmef-path.c.
THEOREM PathInvariant == Sound => (Spec => []PathInv)
<1> SUFFICES ASSUME Sound PROVE Spec => []PathInv
  OBVIOUS
<1>1. PathInv /\ [Next]_vars => PathInv'
  BY TypesStep, ListingStep, WhereStep, ExactStep, ModifyingStep DEF PathInv
<1> QED BY PathInit, <1>1, PTL DEF Spec

\* The three kinds of pointers, counted as the property counts them.
LEMMA PointersFact ==
    ASSUME PathInv, NEW p \in Paths
    PROVE  Pointers(p) = OfTable(p) + OfThreads(p)
  BY CachedFinite DEF PathInv, Pointers, OfThreads, Held

\* A path is freed with the last pointer to it (idmef_path_ref, idmef_path_destroy,
\* and the two sections of idmef_path_new): at every moment its reference count is
\* the number of pointers that threads, the cache and unfinished calls have.
THEOREM PathRefcountExact == Sound => (Spec => []RefcountExact)
<1>1. PathInv => RefcountExact
  <2> SUFFICES ASSUME PathInv, NEW p \in Paths
               PROVE  IF state[p] = "allocated" THEN refcount[p] = Pointers(p) + Cardinality(Inside(p))
                      ELSE Pointers(p) = 0 /\ \A t \in Threads : obj[t] # p
    BY DEF RefcountExact, Inside
  <2>1. ExactOf(p) /\ Where
    BY DEF PathInv, Exact
  <2>2. Pointers(p) = OfTable(p) + OfThreads(p)
    BY PointersFact
  <2>3. Cardinality(Inside(p)) = OfCall(p)
    <3>1. CASE Inside(p) = {}
      BY <3>1, FS_EmptySet DEF OfCall
    <3>2. CASE Inside(p) # {}
      <4>1. PICK t : t \in Inside(p)
        BY <3>2
      <4>2. \A u \in Inside(p) : u = t
        BY <2>1, <4>1 DEF Inside, Where, WhereOf
      <4>3. Inside(p) = {t}
        BY <4>1, <4>2
      <4>4. Cardinality({t}) = 1
        BY FS_Singleton
      <4> QED BY <3>2, <4>3, <4>4 DEF OfCall
    <3> QED BY <3>1, <3>2
  <2>4. OfTable(p) \in {0, 1} /\ OfCall(p) \in {0, 1} /\ OfThreads(p) \in Nat
    BY Counts
  <2>5. CASE state[p] = "allocated"
    <3>1. refcount[p] = OfTable(p) + OfThreads(p) + OfCall(p)
      BY <2>1, <2>5 DEF ExactOf
    <3>2. refcount[p] = Pointers(p) + Cardinality(Inside(p))
      BY <2>2, <2>3, <3>1
    <3> QED BY <2>5, <3>2
  <2>6. CASE state[p] # "allocated"
    <3>1. p \notin InTable /\ Held(p) = {} /\ \A t \in Threads : obj[t] # p
      BY <2>1, <2>6 DEF ExactOf
    <3>2. OfTable(p) = 0 /\ OfThreads(p) = 0
      BY <3>1, HeldFinite DEF OfTable
    <3> QED BY <2>2, <2>6, <3>1, <3>2
  <2> QED BY <2>5, <2>6
<1> QED BY PathInvariant, <1>1, PTL

\* Every path of the cache is in the list of its present name, and idmef_path_new
\* returns a path with the name it was asked for.
THEOREM PathFoundByName == Sound => (Spec => []FoundByName)
<1>1. PathInv => FoundByName
  BY DEF PathInv, Listing, Where, WhereOf, FoundByName
<1> QED BY PathInvariant, <1>1, PTL

=============================================================================
