------------------------------ MODULE PoolProofs ------------------------------
(***************************************************************************)
(* Proofs about ConnectionPool, for any connections, connection strings,   *)
(* messages and numbers of failures.                                       *)
(***************************************************************************)
EXTENDS ConnectionPool, SequenceTheorems, FiniteSetTheorems, TLAPS

-----------------------------------------------------------------------------
(* Types, and what the frames of the lock holder know of the pool: the     *)
(* connections and lists they name are in it, since the lists are only     *)
(* replaced while nobody has the mutex.  The same holds of the timers.     *)

Lists(S) == Seq(Seq(S) \ {<<>>})

Known ==
    [fn : {"broadcast"}, msg : Msg, whole : BOOLEAN, and : Seq(Pooled) \ {<<>>}]
    \union [fn : {"flush_cnx", "add"}, cnx : Pooled]
    \union [fn : {"flush_all"}, list : DOMAIN lists, cnx : Pooled \union {Nobody}]
    \union [fn : {"init", "poll"}, rest : Lists(Pooled)]
    \union [fn : {"added"}, list : DOMAIN lists]

Configured ==
    /\ lists \in Lists(Cnx) /\ connection_string \in Strings
    /\ connection_string_changed \in BOOLEAN /\ initialized \in BOOLEAN

Connections ==
    /\ dead \in Seq(Nat) /\ Len(dead) = Len(lists)
    /\ alive \subseteq Cnx /\ link \subseteq Cnx /\ fds \subseteq Cnx
    /\ armed \subseteq Pooled /\ expire \in [Cnx -> Nat]

Waiting ==
    /\ firing \in Pooled \union {Nobody, Freed}
    /\ poller \in {"out", "selected", "locked", "unlocked"} /\ ready \subseteq Cnx
    /\ up \subseteq Cnx /\ fails \in Nat

Stored ==
    /\ saved \in [Cnx -> Seq(Msg \union {Torn})] /\ global \in Seq(Msg)
    /\ sent \subseteq Msg /\ to \in [Msg -> SUBSET Cnx] /\ got \in [Cnx -> [Msg -> Nat]]

PoolInv == Configured /\ Connections /\ Waiting /\ Stored /\ stack \in Seq(Known)

-----------------------------------------------------------------------------
(* Lists of connections, and the loops that walk them.                     *)

\* The elements of a sequence.
LEMMA ToSetType ==
    ASSUME NEW S, NEW s \in Seq(S)
    PROVE  /\ ToSet(s) \subseteq S /\ s \in Seq(ToSet(s))
           /\ s # <<>> => ToSet(s) # {}
<1>1. Len(s) \in Nat /\ DOMAIN s = 1 .. Len(s) /\ \A i \in 1 .. Len(s) : s[i] \in S
  BY LenProperties, ElementOfSeq
<1>2. s \in [1 .. Len(s) -> ToSet(s)]
  BY <1>1, LenProperties DEF ToSet
<1>3. s # <<>> => Len(s) # 0
  BY EmptySeq, <1>1, SeqEqual
<1> QED BY <1>1, <1>2, <1>3 DEF ToSet

\* The elements of a sequence are its head and those of its tail.
LEMMA ToSetTail ==
    ASSUME NEW S, NEW h \in Seq(S), h # <<>>
    PROVE  ToSet(h) = {Head(h)} \union ToSet(Tail(h))
<1>1. Len(h) \in Nat /\ Len(h) >= 1
  BY LenProperties, EmptySeq
<1>2. /\ Tail(h) \in Seq(S) /\ Head(h) = h[1] /\ Len(Tail(h)) = Len(h) - 1
      /\ \A i \in 1 .. Len(Tail(h)) : Tail(h)[i] = h[i + 1]
  BY HeadTailProperties
<1>3. DOMAIN h = 1 .. Len(h) /\ DOMAIN Tail(h) = 1 .. Len(Tail(h))
  BY <1>2, LenProperties
<1>4. ASSUME NEW x \in ToSet(h) PROVE x = Head(h) \/ x \in ToSet(Tail(h))
  <2>1. PICK i \in 1 .. Len(h) : x = h[i]
    BY <1>3 DEF ToSet
  <2>2. CASE i = 1
    BY <1>2, <2>1, <2>2
  <2>3. CASE i # 1
    <3>1. i - 1 \in 1 .. Len(Tail(h)) /\ i - 1 + 1 = i
      BY <1>1, <1>2, <2>3
    <3>2. x = Tail(h)[i - 1]
      BY <1>2, <2>1, <3>1
    <3> QED BY <1>3, <3>1, <3>2 DEF ToSet
  <2> QED BY <2>2, <2>3
<1>5. Head(h) \in ToSet(h)
  BY <1>1, <1>2, <1>3 DEF ToSet
<1>6. ASSUME NEW x \in ToSet(Tail(h)) PROVE x \in ToSet(h)
  <2>1. PICK i \in 1 .. Len(Tail(h)) : x = Tail(h)[i]
    BY <1>3 DEF ToSet
  <2>2. x = h[i + 1] /\ i + 1 \in 1 .. Len(h)
    BY <1>1, <1>2, <2>1
  <2> QED BY <1>3, <2>2 DEF ToSet
<1> QED BY <1>4, <1>5, <1>6

\* The elements of two sequences put together.
LEMMA ToSetConcat ==
    ASSUME NEW S, NEW p \in Seq(S), NEW q \in Seq(S), NEW t \in Seq(S), p \o q = t
    PROVE  ToSet(t) = ToSet(p) \union ToSet(q)
<1>1. Len(p) \in Nat /\ Len(q) \in Nat /\ DOMAIN p = 1 .. Len(p) /\ DOMAIN q = 1 .. Len(q)
  BY LenProperties
<1>2. /\ t \in Seq(S) /\ Len(t) = Len(p) + Len(q)
      /\ \A i \in 1 .. Len(p) + Len(q) : t[i] = IF i <= Len(p) THEN p[i] ELSE q[i - Len(p)]
  BY ConcatProperties
<1>3. DOMAIN t = 1 .. Len(p) + Len(q)
  BY <1>2, LenProperties
<1>4. ASSUME NEW x \in ToSet(t) PROVE x \in ToSet(p) \/ x \in ToSet(q)
  <2>1. PICK i \in 1 .. Len(p) + Len(q) : x = t[i]
    BY <1>3 DEF ToSet
  <2>2. CASE i <= Len(p)
    <3>1. i \in 1 .. Len(p) /\ x = p[i]
      BY <1>1, <1>2, <2>1, <2>2
    <3> QED BY <1>1, <3>1 DEF ToSet
  <2>3. CASE ~ (i <= Len(p))
    <3>1. i - Len(p) \in 1 .. Len(q)
      BY <1>1, <2>3
    <3>2. x = q[i - Len(p)]
      BY <1>2, <2>1, <2>3
    <3> QED BY <1>1, <3>1, <3>2 DEF ToSet
  <2> QED BY <2>2, <2>3
<1>5. ASSUME NEW i \in 1 .. Len(p) PROVE p[i] \in ToSet(t)
  <2>1. i \in 1 .. Len(p) + Len(q) /\ i <= Len(p)
    BY <1>1
  <2>2. t[i] = p[i]
    BY <1>2, <2>1
  <2> QED BY <1>3, <2>1, <2>2 DEF ToSet
<1>6. ASSUME NEW i \in 1 .. Len(q) PROVE q[i] \in ToSet(t)
  <2> DEFINE j == i + Len(p)
  <2>1. j \in 1 .. Len(p) + Len(q) /\ ~ (j <= Len(p)) /\ j - Len(p) = i
    BY <1>1
  <2> HIDE DEF j
  <2>2. t[j] = q[i]
    BY <1>2, <2>1
  <2> QED BY <1>3, <2>1, <2>2 DEF ToSet
<1>7. ToSet(p) \subseteq ToSet(t) /\ ToSet(q) \subseteq ToSet(t)
  BY <1>1, <1>5, <1>6 DEF ToSet
<1> QED BY <1>4, <1>7

\* The elements of a sequence that was extended.
LEMMA ToSetAppend ==
    ASSUME NEW S, NEW s \in Seq(S), NEW x, NEW t \in Seq(S), Len(t) = Len(s) + 1,
           t[Len(t)] = x, \A i \in 1 .. Len(s) : t[i] = s[i]
    PROVE  ToSet(t) = ToSet(s) \union {x}
<1>1. Len(s) \in Nat /\ DOMAIN s = 1 .. Len(s) /\ DOMAIN t = 1 .. Len(t)
  BY LenProperties
<1>2. DOMAIN t = DOMAIN s \union {Len(t)}
  BY <1>1
<1> QED BY <1>1, <1>2 DEF ToSet

\* The connections of an OR list are those of its AND lists.
LEMMA MembersType ==
    ASSUME NEW S, NEW ls \in Lists(S)
    PROVE  Members(ls) \subseteq S /\ ls \in Lists(Members(ls))
<1>1. Len(ls) \in Nat /\ DOMAIN ls = 1 .. Len(ls) /\ \A l \in 1 .. Len(ls) : ls[l] \in Seq(S) \ {<<>>}
  BY LenProperties, ElementOfSeq DEF Lists
<1>2. ASSUME NEW l \in 1 .. Len(ls)
      PROVE  ToSet(ls[l]) \subseteq S /\ ls[l] \in Seq(Members(ls)) \ {<<>>}
  <2>1. ls[l] \in Seq(S) /\ ls[l] # <<>>
    BY <1>1
  <2>2. ToSet(ls[l]) \subseteq S /\ ls[l] \in Seq(ToSet(ls[l]))
    BY <2>1, ToSetType
  <2>3. ToSet(ls[l]) \subseteq Members(ls)
    BY <1>1 DEF Members
  <2>4. ls[l] \in Seq(Members(ls))
    <3> DEFINE A == ToSet(ls[l])  B == Members(ls)  t == ls[l]
    <3>1. t \in Seq(A) /\ A \subseteq B
      BY <2>2, <2>3
    <3> HIDE DEF A, B, t
    <3>2. t \in Seq(B)
      <4>1. Len(t) \in Nat /\ t \in [1 .. Len(t) -> A]
        BY <3>1, LenProperties
      <4>2. t \in [1 .. Len(t) -> B]
        BY <3>1, <4>1
      <4> QED BY <4>1, <4>2
    <3> QED BY <3>2 DEF B, t
  <2> QED BY <2>1, <2>2, <2>4
<1>3. Members(ls) \subseteq S
  BY <1>1, <1>2 DEF Members
<1>4. ls \in Lists(Members(ls))
  <2> DEFINE T == Seq(Members(ls)) \ {<<>>}
  <2>1. \A l \in 1 .. Len(ls) : ls[l] \in T
    BY <1>2
  <2> HIDE DEF T
  <2>2. ls \in [1 .. Len(ls) -> T]
    BY <1>1, <2>1, LenProperties DEF Lists
  <2>3. ls \in Seq(T)
    BY <1>1, <2>2
  <2> QED BY <2>3 DEF T, Lists
<1> QED BY <1>3, <1>4

\* The lists of the pool.
LEMMA PooledType ==
    ASSUME Configured, Connections
    PROVE  /\ Pooled \subseteq Cnx /\ lists \in Lists(Pooled)
           /\ Len(lists) \in Nat /\ DOMAIN lists = 1 .. Len(lists) /\ DOMAIN dead = DOMAIN lists
           /\ \A l \in DOMAIN lists : dead[l] \in Nat /\ lists[l] \in Seq(Pooled) \ {<<>>}
<1>1. Pooled \subseteq Cnx /\ lists \in Lists(Pooled)
  BY MembersType DEF Configured, Pooled
<1>2. Len(lists) \in Nat /\ DOMAIN lists = 1 .. Len(lists) /\ DOMAIN dead = DOMAIN lists
  BY LenProperties DEF Configured, Connections, Lists
<1>3. \A l \in DOMAIN lists : dead[l] \in Nat
  BY <1>2, ElementOfSeq DEF Connections
<1>4. \A l \in DOMAIN lists : lists[l] \in Seq(Pooled) \ {<<>>}
  BY <1>1, <1>2, ElementOfSeq DEF Lists
<1> QED BY <1>1, <1>2, <1>3, <1>4

\* Every connection of the pool has a list.
LEMMA ParentType ==
    ASSUME NEW c \in Pooled
    PROVE  parent(c) \in DOMAIN lists /\ c \in ToSet(lists[parent(c)])
<1>1. \E l \in DOMAIN lists : c \in ToSet(lists[l])
  BY DEF Pooled, Members
<1> QED BY <1>1 DEF parent

\* A counter is changed.
LEMMA Counted ==
    ASSUME Configured, Connections, NEW l, l \in DOMAIN lists, NEW n \in Nat
    PROVE  [dead EXCEPT ![l] = n] \in Seq(Nat) /\ Len([dead EXCEPT ![l] = n]) = Len(lists)
<1>1. l \in 1 .. Len(dead) /\ dead \in Seq(Nat) /\ Len(dead) = Len(lists) /\ Len(dead) \in Nat
  BY PooledType DEF Connections
<1> QED BY <1>1

\* One step of a loop over an OR list.
LEMMA Walk ==
    ASSUME NEW S, NEW rest \in Lists(S), rest # <<>>
    PROVE  /\ At(rest) \in S /\ After(rest) \in Lists(S)
           /\ Members(rest) = {At(rest)} \union Members(After(rest))
<1> DEFINE T == Seq(S) \ {<<>>}
           h == Head(rest)
           t == Tail(rest)
<1>1. rest \in Seq(T) /\ Len(rest) \in Nat /\ Len(rest) >= 1
  BY LenProperties, EmptySeq DEF Lists
<1>2. /\ h \in T /\ t \in Seq(T) /\ h = rest[1] /\ Len(t) = Len(rest) - 1
      /\ \A i \in 1 .. Len(t) : t[i] = rest[i + 1]
  BY <1>1, HeadTailProperties
<1>3. h \in Seq(S) /\ h # <<>> /\ Len(h) \in Nat /\ Len(h) >= 1
  BY <1>2, LenProperties, EmptySeq
<1>4. /\ Head(h) \in S /\ Tail(h) \in Seq(S) /\ Head(h) = h[1] /\ Len(Tail(h)) = Len(h) - 1
      /\ \A i \in 1 .. Len(Tail(h)) : Tail(h)[i] = h[i + 1]
  BY <1>3, HeadTailProperties
<1>5. ToSet(h) = {Head(h)} \union ToSet(Tail(h))
  BY <1>3, ToSetTail
<1>6. Members(rest) = ToSet(h) \union Members(t)
  <2>1. DOMAIN rest = 1 .. Len(rest) /\ DOMAIN t = 1 .. Len(t)
    BY <1>1, <1>2, LenProperties
  <2>2. ASSUME NEW x \in Members(rest) PROVE x \in ToSet(h) \/ x \in Members(t)
    <3>1. PICK i \in 1 .. Len(rest) : x \in ToSet(rest[i])
      BY <2>1 DEF Members
    <3>2. CASE i = 1
      BY <1>2, <3>1, <3>2
    <3>3. CASE i # 1
      <4>1. i - 1 \in 1 .. Len(t) /\ i - 1 + 1 = i
        BY <1>1, <1>2, <3>3
      <4>2. x \in ToSet(t[i - 1])
        BY <1>2, <3>1, <4>1
      <4> QED BY <2>1, <4>1, <4>2 DEF Members
    <3> QED BY <3>2, <3>3
  <2>3. ToSet(h) \subseteq Members(rest)
    BY <1>1, <1>2, <2>1 DEF Members
  <2>4. ASSUME NEW x \in Members(t) PROVE x \in Members(rest)
    <3>1. PICK i \in 1 .. Len(t) : x \in ToSet(t[i])
      BY <2>1 DEF Members
    <3>2. t[i] = rest[i + 1] /\ i + 1 \in 1 .. Len(rest)
      BY <1>1, <1>2
    <3> QED BY <2>1, <3>1, <3>2 DEF Members
  <2> QED BY <2>2, <2>3, <2>4
<1> HIDE DEF h, t
<1>7. CASE Len(h) = 1
  <2>1. After(rest) = t /\ At(rest) = Head(h)
    BY <1>7 DEF After, At, h, t
  <2>2. ToSet(Tail(h)) = {}
    <3> DEFINE a == Tail(h)
    <3>1. Len(a) = 0 /\ a \in Seq(S)
      BY <1>3, <1>4, <1>7
    <3> HIDE DEF a
    <3>2. DOMAIN a = 1 .. Len(a)
      BY <3>1, LenProperties
    <3>3. ASSUME NEW x \in ToSet(a) PROVE FALSE
      <4>1. PICK i \in 1 .. Len(a) : x = a[i]
        BY <3>2 DEF ToSet
      <4> QED BY <3>1, <4>1
    <3> QED BY <3>3 DEF a
  <2> QED BY <1>2, <1>4, <1>5, <1>6, <2>1, <2>2 DEF Lists
<1>8. CASE Len(h) # 1
  <2> DEFINE a == Tail(h)
             r == <<a>> \o t
  <2>1. After(rest) = r /\ At(rest) = Head(h)
    BY <1>8 DEF After, At, h, t
  <2>2. a \in T
    <3>1. Len(a) # 0 /\ a \in Seq(S)
      BY <1>3, <1>4, <1>8
    <3>2. Len(<<>>) = 0
      BY EmptySeq
    <3> QED BY <3>1, <3>2
  <2>3. t \in Seq(T)
    BY <1>2
  <2> HIDE DEF a, T
  <2>4. <<a>> \in Seq(T) /\ Len(<<a>>) = 1 /\ <<a>>[1] = a
    BY <2>2
  <2>5. /\ r \in Seq(T) /\ Len(r) = 1 + Len(t) /\ r[1] = a
        /\ \A i \in 1 .. Len(t) : r[i + 1] = t[i]
    BY <2>3, <2>4, ConcatProperties, LenProperties
  <2>6. Members(r) = ToSet(a) \union Members(t)
    <3>1. DOMAIN r = 1 .. Len(r) /\ DOMAIN t = 1 .. Len(t) /\ Len(t) \in Nat
      BY <2>3, <2>5, LenProperties
    <3> HIDE DEF r
    <3>2. ASSUME NEW x \in Members(r) PROVE x \in ToSet(a) \/ x \in Members(t)
      <4>1. PICK i \in 1 .. Len(r) : x \in ToSet(r[i])
        BY <3>1 DEF Members
      <4>2. CASE i = 1
        BY <2>5, <4>1, <4>2
      <4>3. CASE i # 1
        <5>1. i - 1 \in 1 .. Len(t) /\ i - 1 + 1 = i
          BY <2>5, <3>1, <4>3
        <5>2. x \in ToSet(t[i - 1])
          BY <2>5, <4>1, <5>1
        <5> QED BY <3>1, <5>1, <5>2 DEF Members
      <4> QED BY <4>2, <4>3
    <3>3. ToSet(a) \subseteq Members(r)
      <4>1. 1 \in DOMAIN r
        BY <2>5, <3>1
      <4> QED BY <2>5, <4>1 DEF Members
    <3>4. ASSUME NEW x \in Members(t) PROVE x \in Members(r)
      <4>1. PICK i \in 1 .. Len(t) : x \in ToSet(t[i])
        BY <3>1 DEF Members
      <4>2. r[i + 1] = t[i] /\ i + 1 \in 1 .. Len(r)
        BY <2>5, <3>1
      <4> QED BY <3>1, <4>1, <4>2 DEF Members
    <3> QED BY <3>2, <3>3, <3>4
  <2> HIDE DEF r
  <2>7. After(rest) \in Lists(S)
    BY <2>1, <2>5 DEF Lists, T
  <2>8. Members(rest) = {Head(h)} \union Members(r)
    BY <1>5, <1>6, <2>6 DEF a
  <2> QED BY <1>4, <2>1, <2>7, <2>8
<1> QED BY <1>7, <1>8


-----------------------------------------------------------------------------
(* The frames of the lock holder.                                          *)

\* The frame on top.
LEMMA TopType ==
    ASSUME stack \in Seq(Known), stack # <<>>
    PROVE  /\ Top \in Known /\ Tail(stack) \in Seq(Known)
           /\ Top.fn = "broadcast" => Top.msg \in Msg /\ Top.whole \in BOOLEAN /\ Top.and \in Seq(Pooled) \ {<<>>}
           /\ Top.fn \in {"flush_cnx", "add"} => Top.cnx \in Pooled
           /\ Top.fn = "flush_all" => Top.list \in DOMAIN lists /\ Top.cnx \in Pooled \union {Nobody}
           /\ Top.fn \in {"init", "poll"} => Top.rest \in Lists(Pooled)
           /\ Top.fn = "added" => Top.list \in DOMAIN lists
<1>1. Head(stack) \in Known /\ Tail(stack) \in Seq(Known)
  BY HeadTailProperties
<1> DEFINE f == Head(stack)
<1>2. f \in Known
  BY <1>1
<1> HIDE DEF f
<1>3. /\ f.fn = "broadcast" => f.msg \in Msg /\ f.whole \in BOOLEAN /\ f.and \in Seq(Pooled) \ {<<>>}
      /\ f.fn \in {"flush_cnx", "add"} => f.cnx \in Pooled
      /\ f.fn = "flush_all" => f.list \in DOMAIN lists /\ f.cnx \in Pooled \union {Nobody}
      /\ f.fn \in {"init", "poll"} => f.rest \in Lists(Pooled)
      /\ f.fn = "added" => f.list \in DOMAIN lists
  BY <1>2 DEF Known
<1> QED BY <1>1, <1>3 DEF Top, f

\* Frames that are pushed.
LEMMA BroadcastKnown ==
    ASSUME NEW m \in Msg, NEW w \in BOOLEAN, NEW and \in Seq(Pooled) \ {<<>>}
    PROVE  Broadcast(m, w, and) \in Known
  BY DEF Known, Broadcast

\* Frames that are pushed, of failover_flush.
LEMMA FlushKnown ==
    /\ \A c \in Pooled : FlushCnx(c) \in Known /\ Add(c) \in Known
    /\ \A l \in DOMAIN lists : Added(l) \in Known
    /\ \A l \in DOMAIN lists, c \in Pooled \union {Nobody} : FlushAll(l, c) \in Known
  BY DEF Known, FlushCnx, Add, FlushAll, Added

\* Frames that are pushed, of the loops over all connections.
LEMMA WalkKnown ==
    ASSUME NEW rest \in Lists(Pooled)
    PROVE  Connect(rest) \in Known /\ Handle(rest) \in Known
  BY DEF Known, Connect, Handle

\* A call, a loop that goes on, a return.
LEMMA StackType ==
    ASSUME NEW S, NEW s \in Seq(S)
    PROVE  /\ \A f \in S : <<f>> \o s \in Seq(S)
           /\ s # <<>> => Tail(s) \in Seq(S) /\ \A f \in S : <<f>> \o Tail(s) \in Seq(S)
           /\ s # <<>> => \A f, g \in S : <<f, g>> \o Tail(s) \in Seq(S)
<1>1. ASSUME NEW f \in S PROVE <<f>> \in Seq(S)
  OBVIOUS
<1>2. ASSUME NEW f \in S, NEW g \in S PROVE <<f, g>> \in Seq(S)
  OBVIOUS
<1>3. ASSUME s # <<>> PROVE Tail(s) \in Seq(S)
  BY <1>3, HeadTailProperties
<1>4. \A p, q \in Seq(S) : p \o q \in Seq(S)
  BY ConcatProperties
<1> QED BY <1>1, <1>2, <1>3, <1>4

\* The elements of a sequence put behind one or two others.
LEMMA ToSetPush ==
    ASSUME NEW S, NEW f \in S, NEW g \in S, NEW s \in Seq(S), NEW t
    PROVE  /\ t = <<f>> \o s => ToSet(t) = {f} \union ToSet(s)
           /\ t = <<f, g>> \o s => ToSet(t) = {f, g} \union ToSet(s)
<1> DEFINE p == <<f>>
           q == <<f, g>>
<1>1. p \in Seq(S) /\ q \in Seq(S)
  OBVIOUS
<1>2. ToSet(p) = {f} /\ ToSet(q) = {f, g}
  <2>1. DOMAIN p = {1} /\ DOMAIN q = {1, 2}
    OBVIOUS
  <2> QED BY <2>1 DEF ToSet
<1> HIDE DEF p, q
<1>3. ASSUME t = p \o s PROVE ToSet(t) = {f} \union ToSet(s)
  <2>1. t \in Seq(S)
    <3>1. p \o s \in Seq(S)
      BY ONLY <1>1, s \in Seq(S), ConcatProperties
    <3> QED BY ONLY <1>3, <3>1
  <2>2. ToSet(t) = ToSet(p) \union ToSet(s)
    BY ONLY <1>1, <1>3, <2>1, s \in Seq(S), ToSetConcat, ZenonT(60)
  <2> QED BY <1>2, <2>2
<1>4. ASSUME t = q \o s PROVE ToSet(t) = {f, g} \union ToSet(s)
  <2>1. t \in Seq(S)
    <3>1. q \o s \in Seq(S)
      BY ONLY <1>1, s \in Seq(S), ConcatProperties
    <3> QED BY ONLY <1>4, <3>1
  <2>2. ToSet(t) = ToSet(q) \union ToSet(s)
    BY ONLY <1>1, <1>4, <2>1, s \in Seq(S), ToSetConcat, ZenonT(60)
  <2> QED BY <1>2, <2>2
<1> QED BY <1>3, <1>4 DEF p, q

\* While the lists are unchanged, frames know what they knew.
LEMMA KnownSame ==
    ASSUME lists' = lists
    PROVE  Pooled' = Pooled /\ Known' = Known
<1>1. Pooled' = Pooled
  BY DEF Pooled
<1> QED BY <1>1 DEF Known


-----------------------------------------------------------------------------
(* What the operations on one connection do to the types.                  *)

\* init_cnx_timer lists the timer, and no other one that was not listed.
LEMMA TimerLinked ==
    ASSUME NEW c, init_cnx_timer(c)
    PROVE  /\ armed' \subseteq armed \union {c} /\ (RECONNECT => c \in armed')
           /\ RECONNECT /\ c \notin armed => armed' = armed \union {c}
  BY DEF init_cnx_timer, Linked

\* set_state_dead, for a connection of the pool.
LEMMA DeadType ==
    ASSUME Configured, Connections, NEW c \in Pooled, set_state_dead(c), lists' = lists
    PROVE  Connections'
<1> DEFINE n == dead[parent(c)] + 1
<1>1. parent(c) \in DOMAIN lists /\ c \in Cnx
  BY ParentType, PooledType
<1>2. n \in Nat
  BY <1>1, PooledType
<1>3. dead' = [dead EXCEPT ![parent(c)] = n]
  BY DEF set_state_dead
<1> HIDE DEF n
<1>4. dead' \in Seq(Nat) /\ Len(dead') = Len(lists)
  BY <1>1, <1>2, <1>3, Counted
<1>5. Pooled' = Pooled
  BY KnownSame
<1>6. alive' \subseteq Cnx /\ link' \subseteq Cnx /\ fds' \subseteq Cnx /\ armed' \subseteq Pooled
  BY <1>1, TimerLinked DEF set_state_dead, Connections
<1> QED BY <1>4, <1>5, <1>6 DEF Connections, set_state_dead

\* set_state_alive, for a connection of the pool, with what prelude_connection_connect
\* did to it.
LEMMA AliveType ==
    ASSUME Configured, Connections, NEW c \in Pooled, set_state_alive(c), lists' = lists,
           alive' \subseteq Cnx, link' \subseteq Cnx
    PROVE  Connections'
<1> DEFINE n == IF dead[parent(c)] > 0 THEN dead[parent(c)] - 1 ELSE 0
<1>1. parent(c) \in DOMAIN lists /\ c \in Cnx
  BY ParentType, PooledType
<1>2. n \in Nat
  BY <1>1, PooledType
<1>3. dead' = [dead EXCEPT ![parent(c)] = n]
  BY DEF set_state_alive
<1> HIDE DEF n
<1>4. dead' \in Seq(Nat) /\ Len(dead') = Len(lists)
  BY <1>1, <1>2, <1>3, Counted
<1>5. Pooled' = Pooled
  BY KnownSame
<1>6. fds' \subseteq Cnx /\ armed' \subseteq Pooled /\ expire' \in [Cnx -> Nat]
  BY <1>1, BoundAssumption DEF set_state_alive, Connections
<1> QED BY <1>4, <1>5, <1>6 DEF Connections

\* A connection attempt.
LEMMA ConnectType ==
    ASSUME Connections, NEW c \in Cnx, prelude_connection_connect(c)
    PROVE  alive' \subseteq Cnx /\ link' \subseteq Cnx
  BY DEF Connections, prelude_connection_connect

\* A message gets to a manager.
LEMMA DeliverType ==
    ASSUME Stored, NEW c \in Cnx, NEW m \in Msg, Deliver(c, m)
    PROVE  got' \in [Cnx -> [Msg -> Nat]]
<1>1. got[c] \in [Msg -> Nat] /\ got[c][m] + 1 \in Nat
  BY DEF Stored
<1>2. got' = [got EXCEPT ![c] = [got[c] EXCEPT ![m] = got[c][m] + 1]]
  BY <1>1 DEF Deliver, Stored
<1> DEFINE n == got[c][m] + 1
<1>3. n \in Nat
  BY <1>1
<1> HIDE DEF n
<1>4. [got[c] EXCEPT ![m] = n] \in [Msg -> Nat]
  BY <1>1, <1>3
<1> QED BY <1>2, <1>4 DEF Stored, n

\* A message is saved.
LEMMA SaveType ==
    ASSUME Stored, NEW c \in Cnx, NEW m \in Msg, NEW w \in BOOLEAN,
           NEW ok \in BOOLEAN, failover_save_msg(ok, c, m, w)
    PROVE  saved' \in [Cnx -> Seq(Msg \union {Torn})]
<1> DEFINE x == IF w THEN m ELSE Torn
           M == Msg \union {Torn}
<1>1. x \in M /\ saved[c] \in Seq(M)
  BY DEF Stored
<1>2. saved' = IF ok THEN [saved EXCEPT ![c] = Append(@, x)] ELSE saved
  BY DEF failover_save_msg
<1> HIDE DEF x, M
<1>3. Append(saved[c], x) \in Seq(M)
  BY <1>1, AppendProperties
<1>4. saved \in [Cnx -> Seq(M)]
  BY DEF Stored, M
<1>5. saved' \in [Cnx -> Seq(M)]
  BY <1>2, <1>3, <1>4
<1> QED BY <1>5 DEF M

\* The parts of the invariant that an action leaves alone.
LEMMA Same ==
    /\ Configured /\ UNCHANGED conf => Configured'
    /\ Connections /\ lists' = lists /\ UNCHANGED cnxs => Connections'
    /\ Waiting /\ lists' = lists /\ UNCHANGED <<firing, poll, net>> => Waiting'
    /\ Stored /\ UNCHANGED store => Stored'
<1>1. lists' = lists => Pooled' = Pooled
  BY KnownSame
<1>2. Configured /\ UNCHANGED conf => Configured'
  BY DEF Configured, conf
<1>3. Connections /\ lists' = lists /\ UNCHANGED cnxs => Connections'
  BY <1>1 DEF Connections, cnxs
<1>4. Waiting /\ lists' = lists /\ UNCHANGED <<firing, poll, net>> => Waiting'
  BY <1>1 DEF Waiting, poll, net
<1>5. Stored /\ UNCHANGED store => Stored'
  BY DEF Stored, store
<1> QED BY <1>2, <1>3, <1>4, <1>5


-----------------------------------------------------------------------------
(* Every action keeps the invariant.                                       *)

\* broadcast_message goes on with the rest of its list.
LEMMA NextSinkType ==
    ASSUME stack \in Seq(Known), In("broadcast"), NEW w \in BOOLEAN, NextSink(w)
    PROVE  stack' \in Seq(Known)
<1>1. /\ stack # <<>> /\ Top.fn = "broadcast" /\ Top.msg \in Msg
      /\ Top.and \in Seq(Pooled) /\ Top.and # <<>>
  BY TopType DEF In, Free, Top
<1>2. CASE Len(Top.and) = 1
  BY <1>1, <1>2, StackType DEF NextSink, Return
<1>3. CASE Len(Top.and) # 1
  <2> DEFINE a == Top.and
             f == Broadcast(Top.msg, w, Tail(a))
  <2>1. stack' = <<f>> \o Tail(stack)
    BY <1>3 DEF NextSink, Become
  <2>2. a \in Seq(Pooled) /\ a # <<>> /\ Len(a) \in Nat /\ Len(a) # 1
    BY <1>1, <1>3, LenProperties
  <2>3. Tail(a) \in Seq(Pooled) /\ Len(Tail(a)) # 0
    <3> HIDE DEF a
    <3>1. Tail(a) \in Seq(Pooled) /\ Len(Tail(a)) = Len(a) - 1
      BY <2>2, HeadTailProperties
    <3> QED BY <2>2, <3>1
  <2>4. Tail(a) # <<>>
    BY <2>3, EmptySeq
  <2>5. f \in Known
    BY <1>1, <2>3, <2>4, BroadcastKnown
  <2> HIDE DEF f
  <2> QED BY <1>1, <2>1, <2>5, StackType
<1> QED BY <1>2, <1>3

\* The message and the connection that broadcast_message is at.
LEMMA SinkFacts ==
    ASSUME PoolInv, In("broadcast")
    PROVE  /\ Top.msg \in Msg /\ Top.whole \in BOOLEAN /\ Head(Top.and) \in Pooled
           /\ Top.and \in Seq(Pooled) /\ Top.and # <<>>
<1>1. /\ Top.msg \in Msg /\ Top.whole \in BOOLEAN /\ Top.and \in Seq(Pooled) /\ Top.and # <<>>
  BY TopType DEF In, Free, Top, PoolInv
<1> QED BY <1>1, HeadTailProperties

\* broadcast_message.
LEMMA BroadcastStep ==
    ASSUME PoolInv, broadcast_message
    PROVE  PoolInv'
<1> USE DEF PoolInv
<1> DEFINE c == Head(Top.and)
<1>1. In("broadcast") /\ UNCHANGED <<conf, firing, poll, global, sent, to, net>>
  BY DEF broadcast_message
<1>2. lists' = lists /\ Pooled' = Pooled /\ Known' = Known
  BY <1>1, KnownSame DEF conf
<1>3. Top.msg \in Msg /\ Top.whole \in BOOLEAN /\ c \in Pooled /\ c \in Cnx
  BY <1>1, SinkFacts, PooledType
<1>4. Configured' /\ Waiting'
  BY <1>1, <1>2, Same
<1>5. broadcast_sends(c) \/ broadcast_fails(c) \/ broadcast_saves(c)
  BY DEF broadcast_message
<1>6. Connections'
  <2>1. CASE UNCHANGED cnxs
    BY <1>2, <2>1, Same
  <2>2. CASE set_state_dead(c)
    BY <1>2, <1>3, <2>2, DeadType
  <2> QED BY <1>5, <2>1, <2>2 DEF broadcast_sends, broadcast_fails, broadcast_saves
<1>7. got' \in [Cnx -> [Msg -> Nat]]
  <2>1. Deliver(c, Top.msg) \/ UNCHANGED got
    BY <1>5 DEF broadcast_sends, broadcast_fails, broadcast_saves
  <2> QED BY <1>3, <2>1, DeliverType DEF Stored
<1>8. saved' \in [Cnx -> Seq(Msg \union {Torn})]
  <2>1. CASE broadcast_sends(c)
    BY <2>1 DEF broadcast_sends, Stored
  <2>2. CASE broadcast_fails(c)
    <3>1. PICK f \in SendFailures(c), ok \in Saves : failover_save_msg(ok, c, Top.msg, Top.whole /\ f.whole)
      BY <2>2 DEF broadcast_fails
    <3>2. ok \in BOOLEAN /\ (Top.whole /\ f.whole) \in BOOLEAN
      BY DEF Saves
    <3> QED BY <1>3, <3>1, <3>2, SaveType
  <2>3. CASE broadcast_saves(c)
    <3>1. PICK ok \in BOOLEAN : failover_save_msg(ok, c, Top.msg, Top.whole)
      BY <2>3 DEF broadcast_saves, Saves
    <3> QED BY <1>3, <3>1, SaveType
  <2> QED BY <1>5, <2>1, <2>2, <2>3
<1>9. Stored'
  BY <1>1, <1>7, <1>8 DEF Stored
<1>10. stack' \in Seq(Known)
  <2>1. \E w \in BOOLEAN : NextSink(w)
    <3>1. CASE broadcast_sends(c)
      BY <3>1 DEF broadcast_sends
    <3>2. CASE broadcast_fails(c)
      <4>1. PICK f \in SendFailures(c), ok \in Saves : NextSink(ok \/ f.sent \/ (Top.whole /\ f.whole))
        BY <3>2 DEF broadcast_fails
      <4> QED BY <4>1
    <3>3. CASE broadcast_saves(c)
      BY <3>3 DEF broadcast_saves
    <3> QED BY <1>5, <3>1, <3>2, <3>3
  <2> QED BY <1>1, <2>1, NextSinkType
<1> QED BY <1>2, <1>4, <1>6, <1>9, <1>10

\* failover_flush for a connection.
LEMMA FlushCnxStep ==
    ASSUME PoolInv, failover_flush_cnx
    PROVE  PoolInv'
<1> USE DEF PoolInv
<1> DEFINE c == Top.cnx
           M == Msg \union {Torn}
<1>1. In("flush_cnx") /\ UNCHANGED <<conf, firing, poll, global, sent, to, net>>
  BY DEF failover_flush_cnx
<1>2. lists' = lists /\ Pooled' = Pooled /\ Known' = Known
  BY <1>1, KnownSame DEF conf
<1>3. stack # <<>> /\ c \in Pooled /\ c \in Cnx
  BY <1>1, TopType, PooledType DEF In, Free, Top
<1>4. Configured' /\ Waiting'
  BY <1>1, <1>2, Same
<1>5. saved[c] \in Seq(M)
  BY <1>3 DEF Stored
<1>6. CASE flush_cnx_ends(c)
  <2>1. Stored'
    BY <1>1, <1>6 DEF flush_cnx_ends, Stored
  <2>2. fds' \subseteq Cnx
    BY <1>3, <1>6 DEF flush_cnx_ends, FD_SET, Connections
  <2>3. Connections'
    BY <1>2, <1>6, <2>2 DEF flush_cnx_ends, Connections
  <2>4. parent(c) \in DOMAIN lists
    BY <1>3, ParentType
  <2>5. stack' \in Seq(Known)
    <3>1. FlushAll(parent(c), c) \in Known
      BY <1>3, <2>4, FlushKnown
    <3>2. stack' = Tail(stack) \/ stack' = <<FlushAll(parent(c), c)>> \o Tail(stack)
      BY <1>6 DEF flush_cnx_ends, Return, Become
    <3> QED BY <1>3, <3>1, <3>2, StackType
  <2> QED BY <1>2, <1>4, <2>1, <2>3, <2>5
<1>7. CASE flush_cnx_sends(c)
  <2>1. Head(saved[c]) \in Msg /\ Tail(saved[c]) \in Seq(M)
    BY <1>5, <1>7, HeadTailProperties DEF flush_cnx_sends
  <2>2. got' \in [Cnx -> [Msg -> Nat]]
    BY <1>3, <1>7, <2>1, DeliverType DEF flush_cnx_sends
  <2>3. saved' \in [Cnx -> Seq(M)]
    BY <1>7, <2>1 DEF flush_cnx_sends, Stored
  <2>4. Stored'
    BY <1>1, <2>2, <2>3 DEF Stored
  <2>5. Connections' /\ stack' = stack
    BY <1>2, <1>7, Same DEF flush_cnx_sends
  <2> QED BY <1>2, <1>4, <2>4, <2>5
<1>8. CASE flush_cnx_fails(c)
  <2>1. Head(saved[c]) \in Msg /\ Tail(saved[c]) \in Seq(M)
    BY <1>5, <1>8, HeadTailProperties DEF flush_cnx_fails
  <2>2. PICK f \in SendFailures(c), ok \in Saves :
          /\ IF f.sent THEN Deliver(c, Head(saved[c])) ELSE UNCHANGED got
          /\ saved' = [saved EXCEPT ![c] =
                          IF ok THEN Append(Tail(@), IF f.whole THEN Head(@) ELSE Torn) ELSE Tail(@)]
    BY <1>8 DEF flush_cnx_fails
  <2>3. got' \in [Cnx -> [Msg -> Nat]]
    BY <1>3, <2>1, <2>2, DeliverType DEF Stored
  <2>4. saved' \in [Cnx -> Seq(M)]
    <3> DEFINE x == IF f.whole THEN Head(saved[c]) ELSE Torn
    <3>1. x \in M
      BY <2>1
    <3>2. saved' = [saved EXCEPT ![c] = IF ok THEN Append(Tail(saved[c]), x) ELSE Tail(saved[c])]
      BY <2>2
    <3> HIDE DEF x, M
    <3>3. Append(Tail(saved[c]), x) \in Seq(M)
      BY <2>1, <3>1, AppendProperties
    <3>4. saved \in [Cnx -> Seq(M)]
      BY DEF Stored, M
    <3> QED BY <2>1, <3>2, <3>3, <3>4
  <2>5. Stored'
    BY <1>1, <2>3, <2>4 DEF Stored
  <2>6. Connections'
    BY <1>2, <1>3, <1>8, DeadType DEF flush_cnx_fails
  <2>7. stack' \in Seq(Known)
    BY <1>3, <1>8, StackType DEF flush_cnx_fails, Return
  <2> QED BY <1>2, <1>4, <2>5, <2>6, <2>7
<1>9. flush_cnx_ends(c) \/ flush_cnx_sends(c) \/ flush_cnx_fails(c)
  BY DEF failover_flush_cnx
<1> QED BY <1>6, <1>7, <1>8, <1>9

\* failover_flush for the pool.
LEMMA FlushAllStep ==
    ASSUME PoolInv, failover_flush_all
    PROVE  PoolInv'
<1> USE DEF PoolInv
<1> DEFINE l == Top.list
<1>1. In("flush_all") /\ UNCHANGED <<conf, dead, alive, link, armed, expire, firing, poll, saved, sent, got, net>>
  BY DEF failover_flush_all
<1>2. lists' = lists /\ Pooled' = Pooled /\ Known' = Known
  BY <1>1, KnownSame DEF conf
<1>3. stack # <<>> /\ l \in DOMAIN lists /\ Top.cnx \in Pooled \union {Nobody} /\ Pooled \subseteq Cnx
  BY <1>1, TopType, PooledType DEF In, Free, Top
<1>4. Configured' /\ Waiting'
  BY <1>1, <1>2, Same
<1>5. flush_all_fails(l) \/ flush_all_ends(l) \/ flush_all_sends(l)
  BY DEF failover_flush_all
<1>6. fds' \subseteq Cnx
  <2>1. fds' = fds \/ fds' = fds \union ({Top.cnx} \ {Nobody})
    BY <1>5 DEF flush_all_fails, flush_all_ends, flush_all_sends, FD_SET
  <2>2. fds \subseteq Cnx /\ {Top.cnx} \ {Nobody} \subseteq Cnx
    BY <1>3 DEF Connections
  <2> QED BY <2>1, <2>2
<1>7. Connections'
  BY <1>1, <1>2, <1>6 DEF Connections
<1>8. CASE flush_all_fails(l) \/ flush_all_ends(l)
  <2>1. Stored'
    BY <1>1, <1>8 DEF flush_all_fails, flush_all_ends, Stored
  <2>2. stack' \in Seq(Known)
    BY <1>3, <1>8, StackType DEF flush_all_fails, flush_all_ends, Return
  <2> QED BY <1>2, <1>4, <1>7, <2>1, <2>2
<1>9. CASE flush_all_sends(l)
  <2> DEFINE m == Head(global)
             f == Broadcast(m, TRUE, lists[l])
  <2>1. m \in Msg /\ global' \in Seq(Msg)
    BY <1>9, HeadTailProperties DEF flush_all_sends, Stored
  <2>2. lists[l] \in Seq(Pooled) \ {<<>>}
    BY <1>3, PooledType
  <2>3. ToSet(lists[l]) \subseteq Cnx
    BY <1>3, <2>2, ToSetType
  <2>4. to' \in [Msg -> SUBSET Cnx]
    BY <1>9, <2>1, <2>3 DEF flush_all_sends, Stored
  <2>5. Stored'
    BY <1>1, <2>1, <2>4 DEF Stored
  <2>6. f \in Known
    BY <2>1, <2>2, BroadcastKnown
  <2>7. stack' = <<f>> \o stack
    BY <1>9 DEF flush_all_sends, Call
  <2> HIDE DEF f
  <2>8. stack' \in Seq(Known)
    BY <2>6, <2>7, StackType
  <2> QED BY <1>2, <1>4, <1>7, <2>5, <2>8
<1> QED BY <1>5, <1>8, <1>9


\* prelude_connection_pool_broadcast.
LEMMA AppBroadcastStep ==
    ASSUME PoolInv, NEW m \in Msg, prelude_connection_pool_broadcast(m)
    PROVE  PoolInv'
<1> USE DEF PoolInv
<1>1. UNCHANGED <<conf, cnxs, firing, poll, saved, got, net>> /\ sent' = sent \union {m} /\ walk_manager_lists(m)
  BY DEF prelude_connection_pool_broadcast
<1>2. lists' = lists /\ Pooled' = Pooled /\ Known' = Known
  BY <1>1, KnownSame DEF conf
<1>3. Configured' /\ Connections' /\ Waiting'
  BY <1>1, <1>2, Same
<1>4. CASE \E l \in DOMAIN lists :
             /\ Call(Broadcast(m, TRUE, lists[l]))
             /\ to' = [to EXCEPT ![m] = ToSet(lists[l])] /\ UNCHANGED global
  <2>1. PICK l \in DOMAIN lists :
             /\ Call(Broadcast(m, TRUE, lists[l]))
             /\ to' = [to EXCEPT ![m] = ToSet(lists[l])] /\ UNCHANGED global
    BY <1>4
  <2> DEFINE f == Broadcast(m, TRUE, lists[l])
  <2>2. lists[l] \in Seq(Pooled) \ {<<>>} /\ Pooled \subseteq Cnx
    BY PooledType
  <2>3. ToSet(lists[l]) \subseteq Cnx
    BY <2>2, ToSetType
  <2>4. to' \in [Msg -> SUBSET Cnx]
    BY <2>1, <2>3 DEF Stored
  <2>5. Stored'
    BY <1>1, <2>1, <2>4 DEF Stored
  <2>6. f \in Known
    BY <2>2, BroadcastKnown
  <2>7. stack' = <<f>> \o stack
    BY <2>1 DEF Call
  <2> HIDE DEF f
  <2>8. stack' \in Seq(Known)
    BY <2>6, <2>7, StackType
  <2> QED BY <1>2, <1>3, <2>5, <2>8
<1>5. CASE (global' = Append(global, m) \/ global' = global) /\ UNCHANGED <<stack, to>>
  <2>1. Append(global, m) \in Seq(Msg)
    BY AppendProperties DEF Stored
  <2>2. Stored'
    BY <1>1, <1>5, <2>1 DEF Stored
  <2> QED BY <1>2, <1>3, <1>5, <2>2
<1>6. (\E ok \in Saves : global' = IF ok THEN Append(global, m) ELSE global)
        => global' = Append(global, m) \/ global' = global
  OBVIOUS
<1> QED BY <1>1, <1>4, <1>5, <1>6 DEF walk_manager_lists

\* connection_timer_expire, which finds its connection in the pool.
LEMMA TimerStep ==
    ASSUME PoolInv, connection_timer_expire
    PROVE  PoolInv'
<1> USE DEF PoolInv
<1> DEFINE c == firing
<1>1. UNCHANGED <<conf, poll, store, net>> /\ firing' = Nobody /\ c \in Cnx
  BY DEF connection_timer_expire
<1>2. lists' = lists /\ Pooled' = Pooled /\ Known' = Known
  BY <1>1, KnownSame DEF conf
<1>3. c \in Pooled
  BY <1>1, PoolAssumption DEF Waiting
<1>4. Configured' /\ Stored'
  BY <1>1, Same
<1>5. Waiting'
  BY <1>1, <1>2 DEF Waiting, poll, net
<1>6. CASE prelude_connection_connect(c) /\ set_state_alive(c) /\ Call(FlushCnx(c))
  <2>1. Connections'
    BY <1>1, <1>2, <1>3, <1>6, ConnectType, AliveType
  <2>2. FlushCnx(c) \in Known /\ stack' = <<FlushCnx(c)>> \o stack
    BY <1>3, <1>6, FlushKnown DEF Call
  <2>3. stack' \in Seq(Known)
    BY <2>2, StackType
  <2> QED BY <1>2, <1>4, <1>5, <2>1, <2>3
<1>7. CASE /\ connect_fails(c)
           /\ expire' = [expire EXCEPT ![c] = IF @ < MAXIMUM_EXPIRATION_TIME THEN @ * 2 ELSE @]
           /\ armed' = armed \union {c}
           /\ UNCHANGED <<dead, fds, stack>>
  <2>1. alive' \subseteq Cnx /\ link' \subseteq Cnx /\ armed' \subseteq Pooled
    BY <1>3, <1>7 DEF connect_fails, Connections
  <2>2. expire' \in [Cnx -> Nat]
    <3> DEFINE n == IF expire[c] < MAXIMUM_EXPIRATION_TIME THEN expire[c] * 2 ELSE expire[c]
    <3>1. n \in Nat
      BY <1>1 DEF Connections
    <3>2. expire' = [expire EXCEPT ![c] = n]
      BY <1>7
    <3> HIDE DEF n
    <3> QED BY <3>1, <3>2 DEF Connections
  <2>3. Connections'
    BY <1>2, <1>7, <2>1, <2>2 DEF Connections
  <2> QED BY <1>2, <1>4, <1>5, <1>7, <2>3
<1> QED BY <1>6, <1>7 DEF connection_timer_expire

\* The lists are replaced, or their connections are tried again.
LEMMA PoolInitStep ==
    ASSUME PoolInv, Free, pool_init, UNCHANGED store, up' = up, fails' \in Nat,
           poller' \in {"out", "selected", "locked", "unlocked"}, ready' \subseteq Cnx
    PROVE  PoolInv'
<1> USE DEF PoolInv
<1>1. Stored'
  BY Same
<1>2. CASE connection_string_changed
  <2> DEFINE new == Members(connection_string)
             f == Connect(connection_string)
  <2>1. /\ connection_string_changed' = FALSE /\ lists' = connection_string
        /\ dead' = [l \in DOMAIN connection_string |-> 0]
        /\ alive' = alive \ (Pooled \union new) /\ link' = link \ (Pooled \union new)
        /\ armed' = armed \ Pooled /\ expire' = [c \in Cnx |-> INITIAL_EXPIRATION_TIME]
        /\ firing' = (IF firing \in Pooled THEN Freed ELSE firing)
        /\ stack' = <<f>> \o stack
        /\ connection_string' = connection_string /\ initialized' = initialized /\ fds' = fds
    BY <1>2 DEF pool_init, Call
  <2>2. connection_string \in Lists(Cnx)
    BY StringsAssumption DEF Configured, Lists
  <2>3. Configured'
    BY <2>1, <2>2 DEF Configured
  <2>4. new \subseteq Cnx /\ connection_string \in Lists(new) /\ Pooled' = new
    BY <2>1, <2>2, MembersType DEF Pooled
  <2>5. dead' \in Seq(Nat) /\ Len(dead') = Len(lists')
    <3>1. Len(lists') \in Nat /\ DOMAIN connection_string = 1 .. Len(lists')
      BY <2>1, <2>2, LenProperties DEF Lists
    <3>2. dead' \in [1 .. Len(lists') -> Nat]
      BY <2>1, <3>1
    <3>3. dead' \in Seq(Nat)
      BY <3>1, <3>2
    <3>4. DOMAIN dead' = 1 .. Len(lists') /\ DOMAIN dead' = 1 .. Len(dead') /\ Len(dead') \in Nat
      BY <3>2, <3>3, LenProperties
    <3> QED BY <3>1, <3>3, <3>4
  <2>6. armed' = {} /\ firing' \in {Nobody, Freed}
    BY <2>1 DEF Connections, Waiting
  <2>7. Connections'
    BY <2>1, <2>5, <2>6, BoundAssumption DEF Connections
  <2>8. Waiting'
    BY <2>6 DEF Waiting
  <2>9. stack' \in Seq(Known')
    <3>1. stack' = <<f>>
      BY <2>1, ConcatEmptySeq DEF Free
    <3>2. f \in Known'
      BY <2>4 DEF Known, Connect
    <3> HIDE DEF f
    <3> QED BY <3>1, <3>2
  <2> QED BY <1>1, <2>3, <2>7, <2>8, <2>9
<1>3. CASE ~ connection_string_changed
  <2> DEFINE f == Connect(lists)
  <2>1. UNCHANGED <<conf, cnxs, firing>> /\ (stack' = stack \/ stack' = <<f>> \o stack)
    BY <1>3 DEF pool_init, Call
  <2>2. lists' = lists /\ Pooled' = Pooled /\ Known' = Known
    BY <2>1, KnownSame DEF conf
  <2>3. Configured' /\ Connections'
    BY <2>1, <2>2, Same
  <2>4. Waiting'
    BY <2>1, <2>2 DEF Waiting
  <2>5. f \in Known
    BY PooledType, WalkKnown
  <2> HIDE DEF f
  <2>6. stack' \in Seq(Known)
    BY <2>1, <2>5, StackType
  <2> QED BY <1>1, <2>2, <2>3, <2>4, <2>6
<1> QED BY <1>2, <1>3


\* One connection attempt of prelude_connection_pool_init.
LEMMA InitConnectionStep ==
    ASSUME PoolInv, init_connection
    PROVE  PoolInv'
<1> USE DEF PoolInv
<1> DEFINE c == At(Top.rest)
           g == Connect(After(Top.rest))
<1>1. In("init") /\ Top.rest # <<>> /\ UNCHANGED <<conf, firing, poll, store, net>>
  BY DEF init_connection
<1>2. lists' = lists /\ Pooled' = Pooled /\ Known' = Known
  BY <1>1, KnownSame DEF conf
<1>3. stack # <<>> /\ Top.rest \in Lists(Pooled)
  BY <1>1, TopType DEF In, Free, Top
<1>4. c \in Pooled /\ c \in Cnx /\ After(Top.rest) \in Lists(Pooled)
  BY <1>1, <1>3, Walk, PooledType
<1>5. g \in Known /\ FlushCnx(c) \in Known
  BY <1>4, WalkKnown, FlushKnown
<1>6. Configured' /\ Waiting' /\ Stored'
  BY <1>1, <1>2, Same
<1>7. init_skips(c) \/ init_connects(c) \/ init_fails(c) \/ init_aborts(c)
  BY DEF init_connection
<1>8. Connections'
  <2>1. CASE init_skips(c) \/ init_aborts(c)
    BY <1>2, <2>1, Same DEF init_skips, init_aborts
  <2>2. CASE init_connects(c)
    BY <1>2, <1>4, <2>2, ConnectType, AliveType DEF init_connects
  <2>3. CASE init_fails(c)
    BY <1>2, <1>4, <2>3, DeadType DEF init_fails
  <2> QED BY <1>7, <2>1, <2>2, <2>3
<1>9. stack' \in Seq(Known)
  <2>1. stack' \in {Tail(stack), <<g>> \o Tail(stack), <<FlushCnx(c), g>> \o Tail(stack)}
    BY <1>7 DEF init_skips, init_connects, init_fails, init_aborts, Return, Become
  <2> HIDE DEF g
  <2> QED BY <1>3, <1>5, <2>1, StackType
<1> QED BY <1>2, <1>6, <1>8, <1>9

\* One connection of the loop that handles events.
LEMMA EventStep ==
    ASSUME PoolInv, check_connection_event
    PROVE  PoolInv'
<1> USE DEF PoolInv
<1> DEFINE c == At(Top.rest)
           g == Handle(After(Top.rest))
<1>1. In("poll") /\ Top.rest # <<>> /\ stack' = <<g>> \o Tail(stack) /\ UNCHANGED <<conf, firing, poll, store, up>>
  BY DEF check_connection_event, Become
<1>2. lists' = lists /\ Pooled' = Pooled /\ Known' = Known
  BY <1>1, KnownSame DEF conf
<1>3. stack # <<>> /\ Top.rest \in Lists(Pooled)
  BY <1>1, TopType DEF In, Free, Top
<1>4. c \in Pooled /\ c \in Cnx /\ After(Top.rest) \in Lists(Pooled)
  BY <1>1, <1>3, Walk, PooledType
<1>5. g \in Known
  BY <1>4, WalkKnown
<1>6. Configured' /\ Stored'
  BY <1>1, Same
<1>7. event_skips(c) \/ event_is_handled(c) \/ event_fails(c) \/ event_kills(c)
  BY DEF check_connection_event
<1>8. Waiting'
  <2>1. fails' \in Nat
    BY <1>7 DEF event_skips, event_is_handled, event_fails, event_kills, Fail, Waiting
  <2> QED BY <1>1, <1>2, <2>1 DEF Waiting, poll
<1>9. Connections'
  <2>1. CASE event_skips(c) \/ event_is_handled(c)
    BY <1>2, <2>1, Same DEF event_skips, event_is_handled
  <2>2. CASE event_fails(c)
    BY <1>2, <1>4, <2>2, DeadType DEF event_fails
  <2>3. CASE event_kills(c)
    <3> DEFINE n == dead[parent(c)] + 2
    <3>1. parent(c) \in DOMAIN lists
      BY <1>4, ParentType
    <3>2. n \in Nat
      BY <3>1, PooledType
    <3>3. dead' = [dead EXCEPT ![parent(c)] = n]
      BY <2>3 DEF event_kills
    <3> HIDE DEF n
    <3>4. dead' \in Seq(Nat) /\ Len(dead') = Len(lists)
      BY <3>1, <3>2, <3>3, Counted
    <3>5. alive' \subseteq Cnx /\ link' \subseteq Cnx /\ fds' \subseteq Cnx /\ armed' \subseteq Pooled /\ expire' = expire
      BY <1>4, <2>3 DEF event_kills, Linked, Connections
    <3> QED BY <1>2, <3>4, <3>5 DEF Connections
  <2> QED BY <1>7, <2>1, <2>2, <2>3
<1>10. stack' \in Seq(Known)
  <2> HIDE DEF g
  <2> QED BY <1>1, <1>3, <1>5, StackType
<1> QED BY <1>2, <1>6, <1>8, <1>9, <1>10

\* prelude_connection_pool_add_connection puts a connection in the first list.
LEMMA AddLists ==
    ASSUME PoolInv, NEW c \in Cnx, prelude_connection_pool_add_connection(c)
    PROVE  /\ lists' \in Lists(Cnx) /\ dead' \in Seq(Nat) /\ Len(dead') = Len(lists')
           /\ Pooled' = Pooled \union {c}
<1> USE DEF PoolInv
<1>1. CASE lists = <<>>
  <2>1. lists' = <<<<c>>>> /\ dead' = <<0>>
    BY <1>1 DEF prelude_connection_pool_add_connection
  <2>2. <<c>> \in Seq(Cnx) \ {<<>>}
    OBVIOUS
  <2>3. lists' \in Lists(Cnx) /\ dead' \in Seq(Nat) /\ Len(dead') = Len(lists')
    BY <2>1, <2>2 DEF Lists
  <2>4. Pooled = {}
    BY <1>1 DEF Pooled, Members
  <2>5. Pooled' = {c}
    BY <2>1 DEF Pooled, Members, ToSet
  <2> QED BY <2>3, <2>4, <2>5
<1>2. CASE lists # <<>>
  <2> DEFINE a == Append(lists[1], c)
             T == Seq(Cnx) \ {<<>>}
  <2>1. lists' = [lists EXCEPT ![1] = a] /\ dead' = dead
    BY <1>2 DEF prelude_connection_pool_add_connection
  <2>2. lists \in Seq(T) /\ Len(lists) \in Nat /\ Len(lists) >= 1 /\ DOMAIN lists = 1 .. Len(lists)
    BY <1>2, LenProperties, EmptySeq DEF Configured, Lists
  <2>3. lists[1] \in Seq(Cnx) /\ Len(lists[1]) \in Nat /\ DOMAIN lists[1] = 1 .. Len(lists[1])
    BY <2>2, ElementOfSeq, LenProperties
  <2>4. /\ a \in Seq(Cnx) /\ Len(a) = Len(lists[1]) + 1 /\ a[Len(lists[1]) + 1] = c
        /\ \A i \in 1 .. Len(lists[1]) : a[i] = lists[1][i]
    BY <2>3, AppendProperties
  <2>5. DOMAIN a = 1 .. Len(a) /\ a # <<>>
    BY <2>3, <2>4, LenProperties, EmptySeq
  <2> HIDE DEF a
  <2>6. a[Len(a)] = c
    BY <2>3, <2>4
  <2>7. ToSet(a) = ToSet(lists[1]) \union {c}
    <3>1. PICK q : q = lists[1]
      OBVIOUS
    <3>2. q \in Seq(Cnx) /\ a \in Seq(Cnx) /\ Len(a) = Len(q) + 1 /\ \A i \in 1 .. Len(q) : a[i] = q[i]
      BY <2>3, <2>4, <3>1
    <3>3. ToSet(a) = ToSet(q) \union {c}
      BY ONLY <2>6, <3>2, ToSetAppend
    <3> QED BY <3>1, <3>3
  <2>8. lists' \in Seq(T) /\ Len(lists') = Len(lists)
    <3>1. a \in T
      BY <2>4, <2>5
    <3> HIDE DEF T
    <3> QED BY <2>1, <2>2, <3>1
  <2>9. DOMAIN lists' = DOMAIN lists /\ lists'[1] = a /\ \A l \in DOMAIN lists : l # 1 => lists'[l] = lists[l]
    BY <2>1, <2>2
  <2>10. \A l \in DOMAIN lists : ToSet(lists'[l]) = ToSet(lists[l]) \union (IF l = 1 THEN {c} ELSE {})
    BY <2>7, <2>9
  <2>11. Pooled' = Pooled \union {c}
    <3>1. 1 \in DOMAIN lists
      BY <2>2
    <3> QED BY <2>9, <2>10, <3>1 DEF Pooled, Members
  <2> QED BY <2>1, <2>8, <2>11 DEF Lists, Connections
<1> QED BY <1>1, <1>2

\* Its lists, when there were some.
LEMMA AddFirst ==
    ASSUME PoolInv, NEW c \in Cnx, prelude_connection_pool_add_connection(c), lists # <<>>
    PROVE  /\ DOMAIN lists' = DOMAIN lists /\ 1 \in DOMAIN lists
           /\ lists'[1] = Append(lists[1], c) /\ \A l \in DOMAIN lists : l # 1 => lists'[l] = lists[l]
           /\ \A l \in DOMAIN lists : ToSet(lists'[l]) = ToSet(lists[l]) \union (IF l = 1 THEN {c} ELSE {})
<1>1. PICK q, a : q = lists[1] /\ a = Append(q, c)
  OBVIOUS
<1>2. lists' = [lists EXCEPT ![1] = a]
  BY <1>1 DEF prelude_connection_pool_add_connection
<1>3. Len(lists) \in Nat /\ Len(lists) # 0 /\ DOMAIN lists = 1 .. Len(lists)
  BY LenProperties, EmptySeq DEF PoolInv, Configured, Lists
<1>4. 1 \in DOMAIN lists
  BY <1>3
<1>5. q \in Seq(Cnx)
  BY <1>1, <1>3, <1>4, ElementOfSeq DEF PoolInv, Configured, Lists
<1>6. a \in Seq(Cnx) /\ Len(a) = Len(q) + 1 /\ a[Len(a)] = c /\ \A i \in 1 .. Len(q) : a[i] = q[i]
  BY <1>1, <1>5, AppendProperties, LenProperties
<1>7. ToSet(a) = ToSet(q) \union {c}
  BY ONLY <1>5, <1>6, ToSetAppend
<1>8. DOMAIN lists' = DOMAIN lists /\ lists'[1] = a /\ \A l \in DOMAIN lists : l # 1 => lists'[l] = lists[l]
  BY <1>2, <1>4
<1> QED BY <1>1, <1>4, <1>7, <1>8

\* prelude_connection_pool_add_connection: the first list grows.
LEMMA AddStep ==
    ASSUME PoolInv, NEW c \in Cnx, prelude_connection_pool_add_connection(c)
    PROVE  PoolInv'
<1> USE DEF PoolInv
<1>1. /\ Free /\ stack' = <<Add(c)>> \o stack /\ expire' = [expire EXCEPT ![c] = INITIAL_EXPIRATION_TIME]
      /\ UNCHANGED <<connection_string, connection_string_changed, initialized, alive, link, fds, armed,
                     firing, poll, store, net>>
  BY DEF prelude_connection_pool_add_connection, Call
<1>2. /\ lists' \in Lists(Cnx) /\ dead' \in Seq(Nat) /\ Len(dead') = Len(lists')
      /\ Pooled \subseteq Pooled' /\ c \in Pooled'
  BY AddLists
<1>3. Configured'
  BY <1>1, <1>2 DEF Configured
<1>4. expire' \in [Cnx -> Nat]
  BY <1>1, BoundAssumption DEF Connections
<1>5. Connections'
  BY <1>1, <1>2, <1>4 DEF Connections
<1>6. Waiting'
  BY <1>1, <1>2 DEF Waiting, poll, net
<1>7. Stored'
  BY <1>1, Same
<1>8. stack' \in Seq(Known')
  <2> DEFINE f == Add(c)
  <2>1. stack' = <<f>>
    BY <1>1, ConcatEmptySeq DEF Free
  <2>2. f \in Known'
    BY <1>2 DEF Known, Add
  <2> HIDE DEF f
  <2> QED BY <2>1, <2>2
<1> QED BY <1>3, <1>5, <1>6, <1>7, <1>8


\* The rest of prelude_connection_pool_add_connection.
LEMMA AddedStep ==
    ASSUME PoolInv, add_connection_connects \/ add_connection_flushes
    PROVE  PoolInv'
<1> USE DEF PoolInv
<1>1. UNCHANGED <<conf, firing, poll, store, net>>
  BY DEF add_connection_connects, add_connection_flushes
<1>2. lists' = lists /\ Pooled' = Pooled /\ Known' = Known
  BY <1>1, KnownSame DEF conf
<1>3. Configured' /\ Waiting' /\ Stored'
  BY <1>1, <1>2, Same
<1>4. CASE add_connection_connects
  <2> DEFINE c == Top.cnx
  <2>1. stack # <<>> /\ c \in Pooled
    BY <1>4, TopType DEF add_connection_connects, In, Free, Top
  <2>2. c \in Cnx /\ 1 \in DOMAIN lists
    <3>1. parent(c) \in DOMAIN lists
      BY <2>1, ParentType
    <3> QED BY <2>1, <3>1, PooledType
  <2>3. FlushCnx(c) \in Known /\ Added(1) \in Known
    BY <2>1, <2>2, FlushKnown
  <2>4. (prelude_connection_connect(c) /\ set_state_alive(c)) \/ set_state_dead(c) \/ UNCHANGED cnxs
    BY <1>4 DEF add_connection_connects
  <2>5. Connections'
    BY <1>2, <2>1, <2>2, <2>4, ConnectType, AliveType, DeadType, Same
  <2>6. stack' \in {<<Added(1)>> \o Tail(stack), <<FlushCnx(c), Added(1)>> \o Tail(stack)}
    BY <1>4 DEF add_connection_connects, Become
  <2>7. stack' \in Seq(Known)
    BY <2>1, <2>3, <2>6, StackType
  <2> QED BY <1>2, <1>3, <2>5, <2>7
<1>5. CASE add_connection_flushes
  <2>1. stack # <<>> /\ Top.list \in DOMAIN lists
    BY <1>5, TopType DEF add_connection_flushes, In, Free, Top
  <2>2. FlushAll(Top.list, Nobody) \in Known
    BY <2>1, FlushKnown
  <2>3. stack' \in {Tail(stack), <<FlushAll(Top.list, Nobody)>> \o Tail(stack)} /\ UNCHANGED cnxs
    BY <1>5 DEF add_connection_flushes, Become, Return
  <2>4. stack' \in Seq(Known) /\ Connections'
    BY <1>2, <2>1, <2>2, <2>3, StackType, Same
  <2> QED BY <1>2, <1>3, <2>4
<1> QED BY <1>4, <1>5

\* Steps that leave the connections alone and push or pop a frame, or none.
LEMMA SmallStep ==
    ASSUME PoolInv,
           \/ init_returns \/ PollSelect \/ PollLock \/ PollUnlock
           \/ PollReturn /\ ~ connection_string_changed
           \/ \E c \in Cnx : TimerExpires(c) \/ LinkBreaks(c) \/ ManagerStarts(c) \/ UserConnects(c)
           \/ \E str \in Strings : prelude_connection_pool_set_connection_string(str)
           \/ UNCHANGED vars
    PROVE  PoolInv'
<1> USE DEF PoolInv
<1>1. lists' = lists /\ Pooled' = Pooled /\ Known' = Known /\ UNCHANGED store
  <2>1. lists' = lists /\ UNCHANGED store
    BY DEF init_returns, PollSelect, PollLock, PollUnlock, PollReturn, TimerExpires, LinkBreaks, ManagerStarts,
       UserConnects, prelude_connection_pool_set_connection_string, vars, conf
  <2> QED BY <2>1, KnownSame
<1>2. Stored'
  BY <1>1, Same
<1>3. Configured'
  <2>1. CASE UNCHANGED conf
    BY <2>1, Same
  <2>2. CASE init_returns
    BY <2>2 DEF init_returns, Configured
  <2>3. CASE \E str \in Strings : prelude_connection_pool_set_connection_string(str)
    BY <2>3 DEF prelude_connection_pool_set_connection_string, Configured
  <2> QED BY <2>1, <2>2, <2>3
       DEF PollSelect, PollLock, PollUnlock, PollReturn, TimerExpires, LinkBreaks, ManagerStarts, UserConnects, vars
<1>4. Connections'
  <2>1. CASE UNCHANGED cnxs
    BY <1>1, <2>1, Same
  <2>2. ASSUME NEW c \in Cnx, LinkBreaks(c) PROVE Connections'
    BY <1>1, <2>2 DEF LinkBreaks, Connections
  <2>3. ASSUME NEW c \in Cnx, UserConnects(c) PROVE Connections'
    BY <1>1, <2>3 DEF UserConnects, Connections, prelude_connection_connect
  <2> QED BY <2>1, <2>2, <2>3
       DEF init_returns, PollSelect, PollLock, PollUnlock, PollReturn, TimerExpires, ManagerStarts,
           prelude_connection_pool_set_connection_string, vars
<1>5. Waiting'
  <2>1. CASE UNCHANGED <<firing, poll, net>>
    BY <1>1, <2>1, Same
  <2>2. CASE PollSelect \/ PollLock \/ PollUnlock \/ PollReturn
    <3>1. UNCHANGED <<up, fails>> /\ poller' \in {"out", "selected", "locked", "unlocked"} /\ ready' \subseteq Cnx
      BY <2>2 DEF PollSelect, PollLock, PollUnlock, PollReturn, net, Waiting, Connections
    <3>2. CASE UNCHANGED firing
      BY <1>1, <3>1, <3>2 DEF Waiting
    <3>3. CASE PollReturn /\ connection_string_changed
      BY <3>3 DEF init_returns, PollSelect, PollLock, PollUnlock, TimerExpires, LinkBreaks, ManagerStarts,
         UserConnects, prelude_connection_pool_set_connection_string, vars, poll, PollReturn
    <3> QED BY <2>2, <3>2, <3>3 DEF PollSelect, PollLock, PollUnlock, PollReturn
  <2>3. ASSUME NEW c \in Cnx, TimerExpires(c) PROVE Waiting'
    BY <1>1, <2>3 DEF TimerExpires, Waiting, Connections, poll, net
  <2>4. ASSUME NEW c \in Cnx, LinkBreaks(c) \/ ManagerStarts(c) \/ UserConnects(c) PROVE Waiting'
    BY <1>1, <2>4 DEF LinkBreaks, ManagerStarts, UserConnects, Fail, Waiting, poll, net
  <2> QED BY <2>1, <2>2, <2>3, <2>4 DEF init_returns, prelude_connection_pool_set_connection_string, vars
<1>6. stack' \in Seq(Known)
  <2>1. CASE UNCHANGED stack
    BY <2>1
  <2>2. CASE init_returns \/ PollUnlock
    BY <2>2, StackType DEF init_returns, PollUnlock, Return, In, Free
  <2>3. CASE PollLock
    <3> DEFINE f == Handle(lists)
    <3>1. stack' = <<f>> \o stack /\ f \in Known
      BY <2>3, PooledType, WalkKnown DEF PollLock, Call
    <3> HIDE DEF f
    <3> QED BY <3>1, StackType
  <2>4. CASE PollReturn /\ ~ connection_string_changed
    BY <2>4 DEF PollReturn
  <2> QED BY <2>1, <2>2, <2>3, <2>4
       DEF PollSelect, TimerExpires, LinkBreaks, ManagerStarts, UserConnects,
           prelude_connection_pool_set_connection_string, vars
<1> QED BY <1>1, <1>2, <1>3, <1>4, <1>5, <1>6

\* The application reports a connection dead or alive.
LEMMA ReportStep ==
    ASSUME PoolInv, NEW c \in Cnx,
           \/ prelude_connection_pool_set_connection_dead(c)
           \/ prelude_connection_pool_set_connection_alive(c)
    PROVE  PoolInv'
<1> USE DEF PoolInv
<1>1. UNCHANGED <<conf, firing, poll, store, up>> /\ c \in Pooled
  BY DEF prelude_connection_pool_set_connection_dead, prelude_connection_pool_set_connection_alive, net
<1>2. lists' = lists /\ Pooled' = Pooled /\ Known' = Known
  BY <1>1, KnownSame DEF conf
<1>3. Configured' /\ Waiting' /\ Stored'
  <2>1. fails' \in Nat
    BY DEF prelude_connection_pool_set_connection_dead, prelude_connection_pool_set_connection_alive,
           net, Fail, Waiting
  <2> QED BY <1>1, <1>2, <2>1, Same DEF Waiting, poll
<1>4. CASE prelude_connection_pool_set_connection_dead(c)
  <2>1. Connections'
    BY <1>1, <1>2, <1>4, DeadType DEF prelude_connection_pool_set_connection_dead
  <2> QED BY <1>2, <1>3, <1>4, <2>1 DEF prelude_connection_pool_set_connection_dead
<1>5. CASE prelude_connection_pool_set_connection_alive(c)
  <2>1. alive' \subseteq Cnx /\ link' \subseteq Cnx
    BY <1>5 DEF prelude_connection_pool_set_connection_alive, Connections
  <2>2. Connections'
    BY <1>1, <1>2, <1>5, <2>1, AliveType DEF prelude_connection_pool_set_connection_alive
  <2>3. stack' = <<FlushCnx(c)>> \o stack /\ FlushCnx(c) \in Known
    BY <1>1, <1>5, FlushKnown DEF prelude_connection_pool_set_connection_alive, Call
  <2>4. stack' \in Seq(Known)
    BY <2>3, StackType
  <2> QED BY <1>2, <1>3, <2>2, <2>4
<1> QED BY <1>4, <1>5

\* The invariant is inductive.
LEMMA PoolStep ==
    ASSUME PoolInv, [Next]_vars
    PROVE  PoolInv'
<1>1. CASE Held
  BY <1>1, BroadcastStep, FlushCnxStep, FlushAllStep, InitConnectionStep, EventStep, AddedStep, SmallStep DEF Held
<1>2. CASE Timers
  BY <1>2, TimerStep, SmallStep DEF Timers
<1>3. CASE Poller
  <2>1. CASE PollReturn /\ connection_string_changed
    <3>1. Free /\ pool_init /\ UNCHANGED store /\ up' = up /\ fails' \in Nat /\ poller' = "out" /\ ready' \subseteq Cnx
      BY <2>1 DEF PollReturn, net, PoolInv, Waiting
    <3> QED BY <3>1, PoolInitStep
  <2> QED BY <1>3, <2>1, SmallStep DEF Poller
<1>4. CASE Application
  <2>1. CASE prelude_connection_pool_init
    <3>1. Free /\ pool_init /\ UNCHANGED store /\ up' = up
      BY <2>1 DEF prelude_connection_pool_init
    <3>2. fails' \in Nat /\ poller' = poller /\ ready' = ready
      BY <2>1 DEF prelude_connection_pool_init, Fail, PoolInv, Waiting, poll
    <3> QED BY <3>1, <3>2, PoolInitStep DEF PoolInv, Waiting
  <2> QED BY <1>4, <2>1, AppBroadcastStep, SmallStep, ReportStep, AddStep DEF Application
<1>5. CASE Network
  BY <1>5, SmallStep DEF Network
<1>6. CASE UNCHANGED vars
  BY <1>6, SmallStep
<1> QED BY <1>1, <1>2, <1>3, <1>4, <1>5, <1>6 DEF Next

\* The invariant holds before the pool is initialized.
LEMMA PoolInitially ==
    ASSUME Init
    PROVE  PoolInv
<1>1. <<>> \in Lists(Cnx) /\ <<>> \in Seq(Nat) /\ <<>> \in Seq(Msg) /\ <<>> \in Seq(Msg \union {Torn}) /\ <<>> \in Seq(Known)
  BY EmptySeq DEF Lists
<1>2. Configured
  BY <1>1 DEF Init, Configured
<1>3. Connections
  BY <1>1, BoundAssumption DEF Init, Connections
<1>4. Waiting
  BY DEF Init, Waiting
<1>5. Stored
  BY <1>1 DEF Init, Stored
<1> QED BY <1>1, <1>2, <1>3, <1>4, <1>5 DEF PoolInv, Init

\* In every state the frames of the lock holder, the timers and the callback
\* that waits for the mutex name connections and lists that are in the pool.
THEOREM PoolInvariant == Spec => []PoolInv
<1> QED BY PoolInitially, PoolStep, PTL DEF Spec

\* Types of all fields of the pool, for any instance; no counter is negative.
THEOREM PoolTypeOK == Spec => []TypeOK
<1>1. ASSUME PoolInv PROVE TypeOK
  <2>1. Pooled \subseteq Cnx /\ DOMAIN lists \subseteq Nat
    BY <1>1, PooledType DEF PoolInv
  <2>2. Known \subseteq Frames
    <3>1. Seq(Pooled) \ {<<>>} \subseteq Seq(Cnx) \ {<<>>}
      BY <2>1
    <3>2. Lists(Pooled) \subseteq Seq(Seq(Cnx) \ {<<>>})
      <4> DEFINE A == Seq(Pooled) \ {<<>>}  B == Seq(Cnx) \ {<<>>}
      <4>1. A \subseteq B
        BY <3>1
      <4> HIDE DEF A, B
      <4>2. Seq(A) \subseteq Seq(B)
        BY <4>1
      <4> QED BY <4>2 DEF A, B, Lists
    <3> QED BY <2>1, <3>1, <3>2 DEF Known, Frames
  <2>3. stack \in Seq(Frames)
    <3>1. stack \in Seq(Known)
      BY <1>1 DEF PoolInv
    <3> QED BY <2>2, <3>1
  <2> QED BY <1>1, <2>1, <2>3 DEF PoolInv, Configured, Connections, Waiting, Stored, TypeOK, Lists
<1> QED BY PoolInvariant, <1>1, PTL


-----------------------------------------------------------------------------
(* No message is lost.                                                     *)

\* The frames of broadcast_message.
Sends == {f \in ToSet(stack) : f.fn = "broadcast"}

\* What they have still to send can be written from its first byte.
WholeFrames == FAILOVER => \A f \in Sends : f.whole

\* The manager has the message, or it is going to be sent to it.
Kept(m, c) == got[c][m] > 0 \/ m \in ToSet(saved[c]) \/ InFlight(m, c)

\* The frames after a call, a loop that goes on, a return.
LEMMA FrameSets ==
    ASSUME stack \in Seq(Known), NEW f, NEW g
    PROVE  /\ Call(f) => ToSet(stack)' = {f} \union ToSet(stack)
           /\ stack # <<>> => ToSet(stack) = {Top} \union ToSet(Tail(stack))
           /\ stack # <<>> /\ Become(f) => ToSet(stack)' = {f} \union ToSet(Tail(stack))
           /\ stack # <<>> /\ stack' = <<f, g>> \o Tail(stack)
                => ToSet(stack)' = {f, g} \union ToSet(Tail(stack))
<1>1. PICK T : T = Known \union {f, g}
  OBVIOUS
<1>2. f \in T /\ g \in T
  BY ONLY <1>1
<1>3. stack \in Seq(T)
  <2>1. stack \in [1 .. Len(stack) -> Known] /\ Len(stack) \in Nat
    BY LenProperties
  <2>2. stack \in [1 .. Len(stack) -> T]
    BY <1>1, <2>1
  <2> QED BY <2>1, <2>2
<1>4. stack # <<>> => Tail(stack) \in Seq(T) /\ ToSet(stack) = {Head(stack)} \union ToSet(Tail(stack))
  BY <1>3, HeadTailProperties, ToSetTail
<1>5. ASSUME NEW u \in Seq(T)
      PROVE  /\ stack' = <<f>> \o u => ToSet(stack') = {f} \union ToSet(u)
             /\ stack' = <<f, g>> \o u => ToSet(stack') = {f, g} \union ToSet(u)
  BY ONLY <1>2, <1>5, ToSetPush
<1> QED BY <1>3, <1>4, <1>5 DEF Call, Top, Become

\* A step that neither pushes nor pops a frame of the given kinds.
LEMMA QuietFrames ==
    ASSUME stack \in Seq(Known), NEW K, NEW f, NEW g, f.fn \notin K, g.fn \notin K,
           \/ stack' = stack \/ Call(f)
           \/ /\ stack # <<>> /\ Top.fn \notin K
              /\ Return \/ Become(f) \/ stack' = <<f, g>> \o Tail(stack)
    PROVE  {x \in ToSet(stack) : x.fn \in K}' = {x \in ToSet(stack) : x.fn \in K}
<1>1. CASE stack' = stack
  BY <1>1
<1>2. CASE Call(f)
  BY <1>2, FrameSets
<1>3. CASE stack # <<>> /\ Top.fn \notin K
  <2>1. ToSet(stack) = {Top} \union ToSet(Tail(stack))
    BY <1>3, FrameSets
  <2>2. CASE Return
    <3>1. ToSet(stack)' = ToSet(Tail(stack))
      BY <2>2 DEF Return
    <3> QED BY <1>3, <2>1, <3>1
  <2>3. CASE Become(f)
    <3>1. ToSet(stack)' = {f} \union ToSet(Tail(stack))
      BY <1>3, <2>3, FrameSets
    <3> QED BY <1>3, <2>1, <3>1
  <2>4. CASE stack' = <<f, g>> \o Tail(stack)
    <3>1. ToSet(stack)' = {f, g} \union ToSet(Tail(stack))
      BY <1>3, <2>4, FrameSets
    <3> QED BY <1>3, <2>1, <3>1
  <2>5. CASE stack' = stack \/ Call(f)
    BY <1>1, <1>2, <2>5
  <2> QED BY <2>2, <2>3, <2>4, <2>5
<1> QED BY <1>1, <1>2, <1>3

\* A step that neither pushes nor pops a frame of broadcast_message.
LEMMA QuietSends ==
    ASSUME stack \in Seq(Known), NEW f, NEW g, f.fn # "broadcast", g.fn # "broadcast",
           \/ stack' = stack \/ Call(f)
           \/ /\ stack # <<>> /\ Top.fn # "broadcast"
              /\ Return \/ Become(f) \/ stack' = <<f, g>> \o Tail(stack)
    PROVE  Sends' = Sends
<1>1. PICK K : K = {"broadcast"}
  OBVIOUS
<1>2. {x \in ToSet(stack) : x.fn \in K}' = {x \in ToSet(stack) : x.fn \in K}
  BY <1>1, QuietFrames
<1> QED BY <1>1, <1>2 DEF Sends

\* A message is in flight to the connections of the frames of broadcast_message.
LEMMA Flying ==
    ASSUME NEW m, NEW c
    PROVE  InFlight(m, c) <=> \E f \in Sends : f.msg = m /\ f.whole /\ c \in ToSet(f.and)
  BY DEF InFlight, Sends, ToSet

\* What is in flight stays so while the frame is there.
LEMMA StillFlying ==
    ASSUME NEW m, NEW c, InFlight(m, c), Sends \subseteq Sends'
    PROVE  InFlight(m, c)'
<1>1. PICK f \in Sends : f.msg = m /\ f.whole /\ c \in ToSet(f.and)
  BY Flying
<1>2. f \in ToSet(stack)' /\ f.fn = "broadcast"
  BY DEF Sends
<1> QED BY <1>1, <1>2 DEF InFlight, ToSet

\* What was kept stays kept: no message is lost in such a step.
LEMMA KeptStep ==
    ASSUME Stored, NothingLost, sent' = sent, to' = to,
           FAILOVER => ToSet(global) \subseteq ToSet(global'),
           FAILOVER => \A m \in Msg, c \in Cnx : Kept(m, c) => Kept(m, c)'
    PROVE  NothingLost'
<1> SUFFICES ASSUME FAILOVER, NEW m \in sent
             PROVE  \/ m \in ToSet(global')
                    \/ to[m] # {} /\ \A c \in to[m] : Kept(m, c)'
  BY DEF NothingLost, Kept
<1>1. m \in Msg /\ to[m] \subseteq Cnx
  BY DEF Stored
<1>2. m \in ToSet(global) \/ (to[m] # {} /\ \A c \in to[m] : Kept(m, c))
  BY DEF NothingLost, Kept
<1> QED BY <1>1, <1>2

\* Steps that neither send nor save a message.
LEMMA QuietStep ==
    ASSUME Stored, NothingLost, WholeFrames, UNCHANGED store, Sends' = Sends
    PROVE  NothingLost' /\ WholeFrames'
<1>1. WholeFrames'
  BY DEF WholeFrames
<1>2. ASSUME NEW m \in Msg, NEW c \in Cnx, Kept(m, c)
      PROVE  Kept(m, c)'
  <2>1. InFlight(m, c) => InFlight(m, c)'
    BY StillFlying
  <2> QED BY <1>2, <2>1 DEF Kept, store
<1> QED BY <1>1, <1>2, KeptStep DEF store

\* What a manager got it keeps.
LEMMA Delivered ==
    ASSUME Stored, NEW c \in Cnx, NEW m \in Msg
    PROVE  /\ Deliver(c, m) => got'[c][m] > 0
           /\ Deliver(c, m) \/ UNCHANGED got =>
                \A d \in Cnx, n \in Msg : got[d][n] > 0 => got'[d][n] > 0
<1>1. ASSUME Deliver(c, m)
      PROVE  got'[c][m] > 0 /\ \A d \in Cnx, n \in Msg : got[d][n] > 0 => got'[d][n] > 0
  <2> DEFINE k == got[c][m] + 1
  <2>1. k \in Nat /\ k > 0
    BY DEF Stored
  <2>2. got' = [got EXCEPT ![c] = [got[c] EXCEPT ![m] = k]]
    BY <1>1 DEF Deliver, Stored
  <2>3. got \in [Cnx -> [Msg -> Nat]]
    BY DEF Stored
  <2> HIDE DEF k
  <2>4. got'[c][m] = k
    BY <2>2, <2>3
  <2>5. ASSUME NEW d \in Cnx, NEW n \in Msg, d # c \/ n # m PROVE got'[d][n] = got[d][n]
    BY <2>2, <2>3, <2>5
  <2> QED BY <2>1, <2>4, <2>5
<1> QED BY <1>1

\* What is in a failover stays there when a message is saved.
LEMMA SavedToo ==
    ASSUME Stored, NEW c \in Cnx, NEW m \in Msg, NEW w, w, NEW ok, ok, failover_save_msg(ok, c, m, w)
    PROVE  /\ m \in ToSet(saved'[c])
           /\ \A d \in Cnx : ToSet(saved[d]) \subseteq ToSet(saved'[d])
<1>1. PICK M : M = Msg \union {Torn}
  OBVIOUS
<1>2. PICK q : q = saved[c]
  OBVIOUS
<1>3. PICK t : t = Append(q, m)
  OBVIOUS
<1>4. saved' = [saved EXCEPT ![c] = t] /\ DOMAIN saved = Cnx
  BY <1>2, <1>3 DEF failover_save_msg, Stored
<1>5. q \in Seq(M) /\ m \in M
  BY <1>1, <1>2 DEF Stored
<1>6. ToSet(t) = ToSet(q) \union {m}
  <2>1. t \in Seq(M) /\ Len(t) = Len(q) + 1 /\ t[Len(t)] = m /\ \A i \in 1 .. Len(q) : t[i] = q[i]
    BY <1>3, <1>5, AppendProperties, LenProperties
  <2> QED BY ONLY <1>5, <2>1, ToSetAppend
<1>7. saved'[c] = t /\ \A d \in Cnx \ {c} : saved'[d] = saved[d]
  BY <1>4
<1> QED BY <1>2, <1>6, <1>7

\* broadcast_message goes on, after its message was sent or saved.
LEMMA SinkKept ==
    ASSUME PoolInv, In("broadcast"), FAILOVER, WholeFrames, NextSink(TRUE),
           \A d \in Cnx, n \in Msg : got[d][n] > 0 => got'[d][n] > 0,
           \A d \in Cnx : ToSet(saved[d]) \subseteq ToSet(saved'[d]),
           NEW a, a = Top.and, NEW m, m = Top.msg,
           got'[Head(a)][m] > 0 \/ m \in ToSet(saved'[Head(a)])
    PROVE  /\ WholeFrames'
           /\ \A n \in Msg, c \in Cnx : Kept(n, c) => Kept(n, c)'
<1>1. stack \in Seq(Known) /\ stack # <<>> /\ Top.fn = "broadcast" /\ Top \in Sends
  <2>1. stack \in Seq(Known) /\ stack # <<>> /\ Top.fn = "broadcast"
    BY DEF In, Free, Top, PoolInv
  <2> QED BY <2>1, FrameSets DEF Sends
<1>2. ToSet(stack) = {Top} \union ToSet(Tail(stack))
  BY <1>1, FrameSets
<1>3. a \in Seq(Pooled) /\ a # <<>> /\ Len(a) \in Nat /\ ToSet(a) = {Head(a)} \union ToSet(Tail(a))
  <2>1. a \in Seq(Pooled) /\ a # <<>>
    BY SinkFacts
  <2> QED BY ONLY <2>1, ToSetTail, LenProperties
<1> DEFINE f == Broadcast(m, TRUE, Tail(a))
           rest == {g \in ToSet(Tail(stack)) : g.fn = "broadcast"}
<1>4. f.fn = "broadcast" /\ f.msg = m /\ f.whole /\ f.and = Tail(a)
  BY DEF Broadcast
<1>5. /\ Len(a) = 1 => ToSet(Tail(a)) = {} /\ Sends' = rest
      /\ Len(a) # 1 => Sends' = {f} \union rest
  <2>1. CASE Len(a) = 1
    <3>1. Sends' = rest
      BY <2>1 DEF NextSink, Return, Sends
    <3> DEFINE b == Tail(a)
    <3>2. Len(b) = 0 /\ b \in Seq(Pooled)
      BY <1>3, <2>1, HeadTailProperties
    <3> HIDE DEF b
    <3>3. ToSet(b) = {}
      <4>1. DOMAIN b = 1 .. Len(b)
        BY <3>2, LenProperties
      <4>2. ASSUME NEW x \in ToSet(b) PROVE FALSE
        <5>1. PICK i \in 1 .. Len(b) : x = b[i]
          BY <4>1 DEF ToSet
        <5> QED BY <3>2, <5>1
      <4> QED BY <4>2
    <3> QED BY <2>1, <3>1, <3>3 DEF b
  <2>2. CASE Len(a) # 1
    <3>1. Become(f)
      BY <2>2 DEF NextSink
    <3> HIDE DEF f
    <3>2. ToSet(stack)' = {f} \union ToSet(Tail(stack))
      BY <1>1, <3>1, FrameSets
    <3> QED BY <1>4, <2>2, <3>2 DEF Sends
  <2> QED BY <2>1, <2>2
<1> HIDE DEF f
<1>6. Sends = {Top} \union rest
  BY <1>1, <1>2 DEF Sends
<1> HIDE DEF rest
<1>7. WholeFrames'
  BY <1>4, <1>5, <1>6 DEF WholeFrames
<1>8. ASSUME NEW n \in Msg, NEW c \in Cnx, Kept(n, c) PROVE Kept(n, c)'
  <2>1. CASE got[c][n] > 0 \/ n \in ToSet(saved[c])
    BY <2>1 DEF Kept
  <2>2. CASE InFlight(n, c)
    <3>1. PICK g \in Sends : g.msg = n /\ g.whole /\ c \in ToSet(g.and)
      BY <2>2, Flying
    <3>2. ASSUME NEW h \in Sends', h.msg = n, h.whole, c \in ToSet(h.and) PROVE InFlight(n, c)'
      <4>1. h \in ToSet(stack)' /\ h.fn = "broadcast"
        BY DEF Sends
      <4> QED BY <3>2, <4>1 DEF InFlight, ToSet
    <3>3. CASE g \in rest
      BY <1>5, <3>1, <3>2, <3>3 DEF Kept
    <3>4. CASE g = Top
      <4>1. n = m /\ (c = Head(a) \/ c \in ToSet(Tail(a)))
        BY <1>3, <3>1, <3>4
      <4>2. CASE c = Head(a)
        BY <4>1, <4>2 DEF Kept
      <4>3. CASE c \in ToSet(Tail(a))
        <5>1. f \in Sends'
          BY <1>5, <4>3
        <5> QED BY <1>4, <3>2, <4>1, <4>3, <5>1 DEF Kept
      <4> QED BY <4>1, <4>2, <4>3
    <3> QED BY <1>6, <3>3, <3>4
  <2> QED BY <1>8, <2>1, <2>2 DEF Kept
<1> QED BY <1>7, <1>8

\* Nothing is written in part to a connection, and failovers can be written.
Writable == "part" \notin Faults /\ "unsaved" \notin Faults

\* Then whatever is saved can be sent again.
LEMMA Rewritable ==
    ASSUME Writable, NEW c, NEW f \in SendFailures(c)
    PROVE  f.whole
  BY DEF SendFailures, Writable

\* And whatever must be saved is.
LEMMA Saved ==
    ASSUME Writable, FAILOVER, NEW ok \in Saves
    PROVE  ok
  BY DEF Saves, Writable

\* broadcast_message.
LEMMA BroadcastSaves ==
    ASSUME PoolInv, NothingLost, WholeFrames, Writable, broadcast_message
    PROVE  NothingLost' /\ WholeFrames'
<1>1. CASE ~ FAILOVER
  BY <1>1 DEF NothingLost, WholeFrames
<1>2. CASE FAILOVER
  <2>1. PICK a, m, c : a = Top.and /\ m = Top.msg /\ c = Head(a)
    OBVIOUS
  <2>2. In("broadcast") /\ global' = global /\ sent' = sent /\ to' = to
    BY DEF broadcast_message
  <2>3. m \in Msg /\ c \in Cnx
    BY <2>1, <2>2, SinkFacts, PooledType DEF PoolInv
  <2>4. Top.whole
    <3>1. stack \in Seq(Known) /\ stack # <<>> /\ Top.fn = "broadcast"
      BY <2>2 DEF In, Free, Top, PoolInv
    <3>2. Top \in Sends
      BY <3>1, FrameSets DEF Sends
    <3> QED BY <1>2, <3>2 DEF WholeFrames
  <2>5. broadcast_sends(c) \/ broadcast_fails(c) \/ broadcast_saves(c)
    BY <2>1 DEF broadcast_message
  <2>6. NextSink(TRUE)
    <3>1. CASE broadcast_sends(c)
      BY <3>1 DEF broadcast_sends
    <3>2. CASE broadcast_fails(c)
      BY <1>2, <3>2, Saved DEF broadcast_fails
    <3>3. CASE broadcast_saves(c)
      BY <1>2, <3>3, Saved DEF broadcast_saves
    <3> QED BY <2>5, <3>1, <3>2, <3>3
  <2>7. Deliver(c, m) \/ UNCHANGED got
    BY <2>1, <2>5 DEF broadcast_sends, broadcast_fails, broadcast_saves
  <2>8. \A d \in Cnx, n \in Msg : got[d][n] > 0 => got'[d][n] > 0
    BY <2>3, <2>7, Delivered DEF PoolInv
  <2>9. /\ \A d \in Cnx : ToSet(saved[d]) \subseteq ToSet(saved'[d])
        /\ got'[c][m] > 0 \/ m \in ToSet(saved'[c])
    <3>1. CASE broadcast_sends(c)
      <4>1. Deliver(c, m) /\ saved' = saved
        BY <2>1, <2>4, <3>1 DEF broadcast_sends
      <4> QED BY <2>3, <4>1, Delivered DEF PoolInv
    <3>2. CASE broadcast_fails(c)
      <4>1. PICK f \in SendFailures(c), ok \in Saves : failover_save_msg(ok, c, m, Top.whole /\ f.whole)
        BY <2>1, <3>2 DEF broadcast_fails
      <4>2. Top.whole /\ f.whole /\ ok
        BY <1>2, <2>4, Rewritable, Saved
      <4> QED BY <2>3, <4>1, <4>2, SavedToo DEF PoolInv
    <3>3. CASE broadcast_saves(c)
      <4>1. PICK ok \in Saves : failover_save_msg(ok, c, m, Top.whole)
        BY <2>1, <3>3 DEF broadcast_saves
      <4> QED BY <1>2, <2>3, <2>4, <4>1, Saved, SavedToo DEF PoolInv
    <3> QED BY <2>5, <3>1, <3>2, <3>3
  <2>10. /\ WholeFrames'
         /\ \A n \in Msg, d \in Cnx : Kept(n, d) => Kept(n, d)'
    BY <1>2, <2>1, <2>2, <2>6, <2>8, <2>9, SinkKept
  <2> QED BY <2>2, <2>10, KeptStep DEF PoolInv
<1> QED BY <1>1, <1>2

\* failover_flush for a connection: a message leaves the failover when it was
\* sent, or to be saved again.
LEMMA FlushCnxSaves ==
    ASSUME PoolInv, NothingLost, WholeFrames, Writable, failover_flush_cnx
    PROVE  NothingLost' /\ WholeFrames'
<1> SUFFICES ASSUME FAILOVER PROVE NothingLost' /\ WholeFrames'
  BY DEF NothingLost, WholeFrames
<1>0. FAILOVER
  OBVIOUS
<1>1. PICK c, q : c = Top.cnx /\ q = saved[c]
  OBVIOUS
<1>2. In("flush_cnx") /\ global' = global /\ sent' = sent /\ to' = to
  BY DEF failover_flush_cnx
<1>3. stack \in Seq(Known) /\ stack # <<>> /\ Top.fn = "flush_cnx" /\ c \in Cnx
  BY <1>1, <1>2, TopType, PooledType DEF In, Free, Top, PoolInv
<1>4. flush_cnx_ends(c) \/ flush_cnx_sends(c) \/ flush_cnx_fails(c)
  BY <1>1 DEF failover_flush_cnx
<1>5. Sends' = Sends
  <2>1. PICK f : f = FlushAll(parent(c), c)
    OBVIOUS
  <2>2. f.fn # "broadcast"
    BY <2>1 DEF FlushAll
  <2>3. stack' = stack \/ Return \/ Become(f)
    BY <1>4, <2>1 DEF flush_cnx_ends, flush_cnx_sends, flush_cnx_fails
  <2>4. Top.fn # "broadcast"
    BY <1>3
  <2> QED BY <1>3, <2>2, <2>3, <2>4, QuietSends
<1>6. WholeFrames'
  BY <1>5 DEF WholeFrames
<1>7. CASE flush_cnx_ends(c)
  BY <1>2, <1>5, <1>7, QuietStep DEF flush_cnx_ends, store, PoolInv
<1>8. CASE flush_cnx_sends(c) \/ flush_cnx_fails(c)
  <2>1. PICK M : M = Msg \union {Torn}
    OBVIOUS
  <2>2. q \in Seq(M) /\ q # <<>> /\ Head(q) # Torn
    BY <1>1, <1>3, <1>8, <2>1 DEF PoolInv, Stored, flush_cnx_sends, flush_cnx_fails
  <2>3. Head(q) \in Msg /\ Tail(q) \in Seq(M) /\ ToSet(q) = {Head(q)} \union ToSet(Tail(q))
    BY <2>1, <2>2, HeadTailProperties, ToSetTail
  <2>4. Deliver(c, Head(q)) \/ UNCHANGED got
    BY <1>1, <1>8 DEF flush_cnx_sends, flush_cnx_fails
  <2>5. \A d \in Cnx, n \in Msg : got[d][n] > 0 => got'[d][n] > 0
    BY <1>3, <2>3, <2>4, Delivered DEF PoolInv
  <2>6. \A d \in Cnx \ {c} : saved'[d] = saved[d]
    BY <1>8 DEF flush_cnx_sends, flush_cnx_fails, PoolInv, Stored
  <2>7. \A n \in ToSet(q) : n \in ToSet(saved'[c]) \/ got'[c][n] > 0
    <3>1. CASE flush_cnx_sends(c)
      <4>1. Deliver(c, Head(q)) /\ saved'[c] = Tail(q)
        BY <1>1, <1>3, <3>1 DEF flush_cnx_sends, PoolInv, Stored
      <4> QED BY <1>3, <2>3, <4>1, Delivered DEF PoolInv
    <3>2. CASE flush_cnx_fails(c)
      <4>1. PICK f \in SendFailures(c), ok \in Saves :
              saved' = [saved EXCEPT ![c] =
                           IF ok THEN Append(Tail(@), IF f.whole THEN Head(@) ELSE Torn) ELSE Tail(@)]
        BY <3>2 DEF flush_cnx_fails
      <4>2. PICK u, x : u = Tail(q) /\ x = Head(q)
        OBVIOUS
      <4>3. PICK t : t = Append(u, x)
        OBVIOUS
      <4>4. saved'[c] = t
        BY <1>0, <1>1, <1>3, <4>1, <4>2, <4>3, Rewritable, Saved DEF PoolInv, Stored
      <4>5. u \in Seq(M) /\ x \in M
        BY <2>1, <2>3, <4>2
      <4>6. t \in Seq(M) /\ Len(t) = Len(u) + 1 /\ t[Len(t)] = x /\ \A i \in 1 .. Len(u) : t[i] = u[i]
        BY <4>3, <4>5, AppendProperties, LenProperties
      <4>7. ToSet(t) = ToSet(u) \union {x}
        BY ONLY <4>5, <4>6, ToSetAppend
      <4> QED BY <2>3, <4>2, <4>4, <4>7
    <3> QED BY <1>8, <3>1, <3>2
  <2>8. ASSUME NEW n \in Msg, NEW d \in Cnx, Kept(n, d) PROVE Kept(n, d)'
    <3>1. CASE got[d][n] > 0
      BY <2>5, <3>1 DEF Kept
    <3>2. CASE n \in ToSet(saved[d])
      BY <1>1, <2>6, <2>7, <3>2 DEF Kept
    <3>3. CASE InFlight(n, d)
      BY <1>5, <3>3, StillFlying DEF Kept
    <3> QED BY <2>8, <3>1, <3>2, <3>3 DEF Kept
  <2>9. NothingLost'
    BY <1>2, <2>8, KeptStep DEF PoolInv
  <2> QED BY <1>6, <2>9
<1> QED BY <1>4, <1>7, <1>8

\* A message is addressed to a list: broadcast_message is called.
LEMMA Addressed ==
    ASSUME PoolInv, NothingLost, WholeFrames, NEW l \in DOMAIN lists, NEW m \in Msg,
           Call(Broadcast(m, TRUE, lists[l])), to' = [to EXCEPT ![m] = ToSet(lists[l])],
           saved' = saved, got' = got, sent' \subseteq sent \union {m},
           ToSet(global) \ {m} \subseteq ToSet(global')
    PROVE  NothingLost' /\ WholeFrames'
<1>1. PICK f : f = Broadcast(m, TRUE, lists[l])
  OBVIOUS
<1>2. f.fn = "broadcast" /\ f.msg = m /\ f.whole /\ f.and = lists[l]
  BY <1>1 DEF Broadcast
<1>3. ToSet(stack)' = {f} \union ToSet(stack)
  BY <1>1, FrameSets DEF PoolInv
<1>4. Sends' = {f} \union Sends
  BY <1>2, <1>3 DEF Sends
<1>5. WholeFrames'
  BY <1>2, <1>4 DEF WholeFrames
<1>6. lists[l] \in Seq(Pooled) /\ lists[l] # <<>>
  BY PooledType DEF PoolInv
<1>7. ToSet(lists[l]) # {}
  BY <1>6, ToSetType
<1>8. \A c \in ToSet(lists[l]) : Kept(m, c)'
  <2>1. f \in ToSet(stack)'
    BY <1>3
  <2>2. \A c \in ToSet(lists[l]) : InFlight(m, c)'
    BY <1>2, <2>1 DEF InFlight, ToSet
  <2> QED BY <2>2 DEF Kept
<1>9. \A n \in Msg, c \in Cnx : Kept(n, c) => Kept(n, c)'
  BY <1>4, StillFlying DEF Kept
<1>10. ASSUME FAILOVER, NEW n \in sent'
       PROVE  n \in ToSet(global') \/ (to'[n] # {} /\ \A c \in to'[n] : Kept(n, c)')
  <2>1. CASE n = m
    <3>1. to'[n] = ToSet(lists[l])
      BY <2>1 DEF PoolInv, Stored
    <3> QED BY <1>7, <1>8, <2>1, <3>1
  <2>2. CASE n # m
    <3>1. n \in sent /\ n \in Msg /\ to'[n] = to[n] /\ to[n] \subseteq Cnx
      BY <2>2 DEF PoolInv, Stored
    <3>2. n \in ToSet(global) \/ (to[n] # {} /\ \A c \in to[n] : Kept(n, c))
      BY <1>10, <3>1 DEF NothingLost, Kept
    <3> QED BY <1>9, <2>2, <3>1, <3>2
  <2> QED BY <2>1, <2>2
<1>11. NothingLost'
  BY <1>10 DEF NothingLost, Kept
<1> QED BY <1>5, <1>11

\* failover_flush for the pool: what leaves its failover is addressed to a list.
LEMMA FlushAllSaves ==
    ASSUME PoolInv, NothingLost, WholeFrames, failover_flush_all
    PROVE  NothingLost' /\ WholeFrames'
<1>1. PICK l : l = Top.list
  OBVIOUS
<1>2. /\ In("flush_all") /\ saved' = saved /\ got' = got /\ sent' = sent
      /\ flush_all_fails(l) \/ flush_all_ends(l) \/ flush_all_sends(l)
  BY <1>1 DEF failover_flush_all
<1>3. stack \in Seq(Known) /\ stack # <<>> /\ Top.fn # "broadcast" /\ l \in DOMAIN lists
  BY <1>1, <1>2, TopType DEF In, Free, Top, PoolInv
<1>4. CASE flush_all_fails(l) \/ flush_all_ends(l)
  <2>1. Return /\ UNCHANGED store
    BY <1>2, <1>4 DEF flush_all_fails, flush_all_ends, store
  <2>2. PICK f : f = Added(l)
    OBVIOUS
  <2>3. f.fn # "broadcast"
    BY <2>2 DEF Added
  <2>4. Sends' = Sends
    BY <1>3, <2>1, <2>3, QuietSends
  <2> QED BY <2>1, <2>4, QuietStep DEF PoolInv
<1>5. CASE flush_all_sends(l)
  <2>1. PICK m : m = Head(global)
    OBVIOUS
  <2>2. m \in Msg /\ ToSet(global) = {m} \union ToSet(Tail(global))
    BY <1>5, <2>1, HeadTailProperties, ToSetTail DEF flush_all_sends, PoolInv, Stored
  <2>3. Call(Broadcast(m, TRUE, lists[l])) /\ to' = [to EXCEPT ![m] = ToSet(lists[l])] /\ global' = Tail(global)
    BY <1>5, <2>1 DEF flush_all_sends
  <2>4. ToSet(global) \ {m} \subseteq ToSet(global')
    BY <2>2, <2>3
  <2> QED BY <1>2, <1>3, <2>2, <2>3, <2>4, Addressed
<1> QED BY <1>2, <1>4, <1>5

\* prelude_connection_pool_broadcast.
LEMMA AppBroadcastSaves ==
    ASSUME PoolInv, NothingLost, WholeFrames, Writable, NEW m \in Msg,
           prelude_connection_pool_broadcast(m)
    PROVE  NothingLost' /\ WholeFrames'
<1>1. saved' = saved /\ got' = got /\ sent' = sent \union {m} /\ walk_manager_lists(m)
  BY DEF prelude_connection_pool_broadcast
<1>2. ASSUME NEW l \in DOMAIN lists, Call(Broadcast(m, TRUE, lists[l])),
             to' = [to EXCEPT ![m] = ToSet(lists[l])], global' = global
      PROVE  NothingLost' /\ WholeFrames'
  BY <1>1, <1>2, Addressed
<1>3. CASE (\E ok \in Saves : global' = IF ok THEN Append(global, m) ELSE global) /\ UNCHANGED <<stack, to>>
  <2>1. Sends' = Sends
    BY <1>3 DEF Sends
  <2>2. WholeFrames'
    BY <2>1 DEF WholeFrames
  <2>3. CASE ~ FAILOVER
    BY <2>2, <2>3 DEF NothingLost
  <2>4. CASE FAILOVER
    <3>1. PICK q, t : q = global /\ t = Append(q, m)
      OBVIOUS
    <3>2. q \in Seq(Msg)
      BY <3>1 DEF PoolInv, Stored
    <3>3. t \in Seq(Msg) /\ Len(t) = Len(q) + 1 /\ t[Len(t)] = m /\ \A i \in 1 .. Len(q) : t[i] = q[i]
      BY <3>1, <3>2, AppendProperties, LenProperties
    <3>4. ToSet(t) = ToSet(q) \union {m}
      BY ONLY <3>2, <3>3, ToSetAppend
    <3>5. ToSet(global') = ToSet(global) \union {m}
      <4>1. global' = Append(global, m)
        BY <1>3, <2>4, Saved
      <4> QED BY <3>1, <3>4, <4>1
    <3>6. \A n \in Msg, c \in Cnx : Kept(n, c) => Kept(n, c)'
      BY <1>1, <2>1, StillFlying DEF Kept
    <3>7. ASSUME NEW n \in sent'
          PROVE  n \in ToSet(global') \/ (to'[n] # {} /\ \A c \in to'[n] : Kept(n, c)')
      <4>1. CASE n = m
        BY <3>5, <4>1
      <4>2. CASE n # m
        <5>1. n \in sent /\ n \in Msg /\ to'[n] = to[n] /\ to[n] \subseteq Cnx
          BY <1>1, <1>3, <4>2 DEF PoolInv, Stored
        <5>2. n \in ToSet(global) \/ (to[n] # {} /\ \A c \in to[n] : Kept(n, c))
          BY <2>4, <5>1 DEF NothingLost, Kept
        <5> QED BY <3>5, <3>6, <5>1, <5>2
      <4> QED BY <4>1, <4>2
    <3>8. NothingLost'
      BY <3>7 DEF NothingLost, Kept
    <3> QED BY <2>2, <3>8
  <2> QED BY <2>3, <2>4, PoolAssumption
<1> QED BY <1>1, <1>2, <1>3 DEF walk_manager_lists

\* Every other step leaves messages, failovers and broadcasts alone.
LEMMA Silent ==
    ASSUME PoolInv,
           \/ connection_timer_expire \/ (\E c \in Cnx : TimerExpires(c)) \/ Poller \/ Network
           \/ init_connection \/ init_returns \/ check_connection_event \/ PollUnlock
           \/ add_connection_connects \/ add_connection_flushes \/ prelude_connection_pool_init
           \/ \E str \in Strings : prelude_connection_pool_set_connection_string(str)
           \/ \E c \in Cnx : \/ prelude_connection_pool_set_connection_dead(c)
                             \/ prelude_connection_pool_set_connection_alive(c)
                             \/ prelude_connection_pool_add_connection(c)
                             \/ UserConnects(c)
           \/ UNCHANGED vars
    PROVE  UNCHANGED store /\ Sends' = Sends
<1>0. stack \in Seq(Known)
  BY DEF PoolInv
<1>1. UNCHANGED store
  BY DEF connection_timer_expire, TimerExpires, Poller, PollSelect, PollLock, PollReturn, Network,
     LinkBreaks, ManagerStarts, init_connection, init_returns, check_connection_event, PollUnlock,
     add_connection_connects, add_connection_flushes, prelude_connection_pool_init,
     prelude_connection_pool_set_connection_string, prelude_connection_pool_set_connection_dead,
     prelude_connection_pool_set_connection_alive, prelude_connection_pool_add_connection, UserConnects, vars
<1> SUFFICES Sends' = Sends
  BY <1>1
<1>2. \A c, l, r : /\ FlushCnx(c).fn # "broadcast" /\ FlushAll(l, c).fn # "broadcast"
                   /\ Connect(r).fn # "broadcast" /\ Handle(r).fn # "broadcast"
                   /\ Add(c).fn # "broadcast" /\ Added(l).fn # "broadcast"
  BY DEF FlushCnx, FlushAll, Connect, Handle, Add, Added
<1>3. CASE stack' = stack
  BY <1>3 DEF Sends
<1>4. ASSUME NEW f, f.fn # "broadcast", Call(f) PROVE Sends' = Sends
  BY <1>0, <1>4, QuietSends
<1>5. ASSUME NEW f, NEW g, f.fn # "broadcast", g.fn # "broadcast", stack # <<>>, Top.fn # "broadcast",
             Return \/ Become(f) \/ stack' = <<f, g>> \o Tail(stack)
      PROVE  Sends' = Sends
  BY <1>0, <1>5, QuietSends
<1>6. CASE pool_init
  <2>1. PICK f : f = Connect(connection_string)
    OBVIOUS
  <2>2. PICK g : g = Connect(lists)
    OBVIOUS
  <2>3. f.fn # "broadcast" /\ g.fn # "broadcast"
    BY <1>2, <2>1, <2>2
  <2>4. Call(f) \/ Call(g) \/ stack' = stack
    BY <1>6, <2>1, <2>2 DEF pool_init
  <2> QED BY <1>3, <1>4, <2>3, <2>4
<1>7. CASE connection_timer_expire
  <2>1. PICK f : f = FlushCnx(firing)
    OBVIOUS
  <2>2. f.fn # "broadcast" /\ (Call(f) \/ stack' = stack)
    BY <1>2, <1>7, <2>1 DEF connection_timer_expire
  <2> QED BY <1>3, <1>4, <2>2
<1>8. CASE init_connection \/ init_returns
  <2>1. PICK f, g : f = FlushCnx(At(Top.rest)) /\ g = Connect(After(Top.rest))
    OBVIOUS
  <2>2. f.fn # "broadcast" /\ g.fn # "broadcast"
    BY <1>2, <2>1
  <2>3. stack # <<>> /\ Top.fn = "init"
    BY <1>8 DEF init_connection, init_returns, In, Free, Top
  <2>4. Return \/ Become(g) \/ stack' = <<f, g>> \o Tail(stack)
    BY <1>8, <2>1 DEF init_connection, init_returns, init_skips, init_connects, init_fails, init_aborts
  <2> QED BY <1>5, <2>2, <2>3, <2>4
<1>9. CASE check_connection_event \/ PollUnlock
  <2>1. PICK f : f = Handle(After(Top.rest))
    OBVIOUS
  <2>2. f.fn # "broadcast"
    BY <1>2, <2>1
  <2>3. stack # <<>> /\ Top.fn = "poll" /\ (Return \/ Become(f))
    BY <1>9, <2>1 DEF check_connection_event, PollUnlock, In, Free, Top
  <2> QED BY <1>5, <2>2, <2>3
<1>10. CASE add_connection_connects
  <2>1. PICK f, g : f = FlushCnx(Top.cnx) /\ g = Added(1)
    OBVIOUS
  <2>2. f.fn # "broadcast" /\ g.fn # "broadcast"
    BY <1>2, <2>1
  <2>3. stack # <<>> /\ Top.fn = "add"
    BY <1>10 DEF add_connection_connects, In, Free, Top
  <2>4. Become(g) \/ stack' = <<f, g>> \o Tail(stack)
    BY <1>10, <2>1 DEF add_connection_connects
  <2> QED BY <1>5, <2>2, <2>3, <2>4
<1>11. CASE add_connection_flushes
  <2>1. PICK f : f = FlushAll(Top.list, Nobody)
    OBVIOUS
  <2>2. f.fn # "broadcast"
    BY <1>2, <2>1
  <2>3. stack # <<>> /\ Top.fn = "added" /\ (Return \/ Become(f))
    BY <1>11, <2>1 DEF add_connection_flushes, In, Free, Top
  <2> QED BY <1>5, <2>2, <2>3
<1>12. CASE PollLock
  <2>1. PICK f : f = Handle(lists)
    OBVIOUS
  <2>2. f.fn # "broadcast" /\ Call(f)
    BY <1>2, <1>12, <2>1 DEF PollLock
  <2> QED BY <1>4, <2>2
<1>13. ASSUME NEW c \in Cnx, prelude_connection_pool_set_connection_alive(c) PROVE Sends' = Sends
  <2>1. PICK f : f = FlushCnx(c)
    OBVIOUS
  <2>2. f.fn # "broadcast" /\ Call(f)
    BY <1>2, <1>13, <2>1 DEF prelude_connection_pool_set_connection_alive
  <2> QED BY <1>4, <2>2
<1>14. ASSUME NEW c \in Cnx, prelude_connection_pool_add_connection(c) PROVE Sends' = Sends
  <2>1. PICK f : f = Add(c)
    OBVIOUS
  <2>2. f.fn # "broadcast" /\ Call(f)
    BY <1>2, <1>14, <2>1 DEF prelude_connection_pool_add_connection
  <2> QED BY <1>4, <2>2
<1>15. CASE Network \/ UNCHANGED vars \/ (\E c \in Cnx : TimerExpires(c) \/ UserConnects(c))
  BY <1>3, <1>15 DEF Network, LinkBreaks, ManagerStarts, vars, TimerExpires, UserConnects
<1>16. CASE \/ \E str \in Strings : prelude_connection_pool_set_connection_string(str)
            \/ \E c \in Cnx : prelude_connection_pool_set_connection_dead(c)
  BY <1>3, <1>16 DEF prelude_connection_pool_set_connection_string, prelude_connection_pool_set_connection_dead
<1>17. CASE Poller \/ prelude_connection_pool_init
  BY <1>3, <1>6, <1>12, <1>17 DEF Poller, PollSelect, PollReturn, prelude_connection_pool_init
<1> QED BY <1>7, <1>8, <1>9, <1>10, <1>11, <1>13, <1>14, <1>15, <1>16, <1>17

\* Whatever the connections do, no message that was broadcast is lost, unless a
\* part of it was written when its connection died or a failover could not be
\* written: otherwise the failover of the pool has it or, for each connection of
\* the list it was addressed to, the manager, the failover or the broadcast that
\* runs.
THEOREM PoolNothingLost == Writable => (Spec => []NothingLost)
<1> SUFFICES ASSUME Writable PROVE Spec => []NothingLost
  OBVIOUS
<1>1. ASSUME Init PROVE NothingLost /\ WholeFrames
  BY <1>1 DEF Init, NothingLost, WholeFrames, Sends, ToSet
<1>2. ASSUME PoolInv, NothingLost, WholeFrames, [Next]_vars PROVE NothingLost' /\ WholeFrames'
  <2>1. CASE broadcast_message
    BY <1>2, <2>1, BroadcastSaves
  <2>2. CASE failover_flush_cnx
    BY <1>2, <2>2, FlushCnxSaves
  <2>3. CASE failover_flush_all
    BY <1>2, <2>3, FlushAllSaves
  <2>4. ASSUME NEW m \in Msg, prelude_connection_pool_broadcast(m) PROVE NothingLost' /\ WholeFrames'
    BY <1>2, <2>4, AppBroadcastSaves
  <2>5. CASE UNCHANGED store /\ Sends' = Sends
    BY <1>2, <2>5, QuietStep DEF PoolInv
  <2>6. \/ broadcast_message \/ failover_flush_cnx \/ failover_flush_all
        \/ \E m \in Msg : prelude_connection_pool_broadcast(m)
        \/ UNCHANGED store /\ Sends' = Sends
    BY <1>2, Silent DEF Next, Held, Timers, Application
  <2> QED BY <2>1, <2>2, <2>3, <2>4, <2>5, <2>6
<1> QED BY PoolInvariant, <1>1, <1>2, PTL DEF Spec


-----------------------------------------------------------------------------
(* The calls that go on to try connections.                                *)

\* The frames of the calls that go on to try connections.
Tries == {f \in ToSet(stack) : f.fn \in {"init", "add"}}

Initializing == \E f \in Tries : f.fn = "init"

\* The connection is still to be tried by the lock holder.
Awaited(c) == \E f \in Tries : IF f.fn = "init" THEN c \in Members(f.rest) ELSE c = f.cnx

\* A step that neither pushes nor pops a call that tries connections.
LEMMA QuietTries ==
    ASSUME stack \in Seq(Known), NEW f, NEW g,
           f.fn \notin {"init", "add"}, g.fn \notin {"init", "add"},
           \/ stack' = stack \/ Call(f)
           \/ /\ stack # <<>> /\ Top.fn \notin {"init", "add"}
              /\ Return \/ Become(f) \/ stack' = <<f, g>> \o Tail(stack)
    PROVE  Tries' = Tries
<1>1. PICK K : K = {"init", "add"}
  OBVIOUS
<1>2. f.fn \notin K /\ g.fn \notin K /\ (stack # <<>> /\ Top.fn \notin {"init", "add"} => Top.fn \notin K)
  BY <1>1
<1>3. {x \in ToSet(stack) : x.fn \in K}' = {x \in ToSet(stack) : x.fn \in K}
  BY <1>2, QuietFrames
<1> QED BY <1>1, <1>3 DEF Tries

\* broadcast_message ends, or goes on with the message as the last write left it.
LEMMA SomeSink ==
    ASSUME broadcast_message
    PROVE  \E w \in BOOLEAN : NextSink(w)
<1>1. PICK c : broadcast_sends(c) \/ broadcast_fails(c) \/ broadcast_saves(c)
  BY DEF broadcast_message
<1>2. CASE broadcast_sends(c)
  BY <1>2 DEF broadcast_sends
<1>3. CASE broadcast_fails(c)
  <2>1. PICK x \in SendFailures(c), ok \in Saves : NextSink(ok \/ x.sent \/ (Top.whole /\ x.whole))
    BY <1>3 DEF broadcast_fails
  <2> QED BY <2>1
<1>4. CASE broadcast_saves(c)
  <2>1. PICK ok \in Saves : NextSink(ok \/ Top.whole)
    BY <1>4 DEF broadcast_saves
  <2> QED BY <2>1
<1> QED BY <1>1, <1>2, <1>3, <1>4

\* Steps outside of the calls that go on to try connections.
Elsewhere ==
    \/ broadcast_message \/ failover_flush_cnx \/ failover_flush_all \/ add_connection_flushes
    \/ check_connection_event \/ PollUnlock \/ PollSelect \/ PollLock \/ Timers \/ Network
    \/ PollReturn /\ ~ connection_string_changed
    \/ \E m \in Msg : prelude_connection_pool_broadcast(m)
    \/ \E str \in Strings : prelude_connection_pool_set_connection_string(str)
    \/ \E c \in Cnx : \/ prelude_connection_pool_set_connection_dead(c)
                      \/ prelude_connection_pool_set_connection_alive(c)
                      \/ UserConnects(c)
    \/ UNCHANGED vars

\* They leave these calls and the lists alone.
LEMMA Untried ==
    ASSUME PoolInv, Elsewhere
    PROVE  lists' = lists /\ initialized' = initialized /\ Tries' = Tries
<1>0. stack \in Seq(Known)
  BY DEF PoolInv
<1>1. lists' = lists /\ initialized' = initialized
  BY DEF Elsewhere, broadcast_message, failover_flush_cnx, failover_flush_all, add_connection_flushes,
     check_connection_event, PollUnlock, PollSelect, PollLock, PollReturn, Timers,
     connection_timer_expire, TimerExpires, Network, LinkBreaks, ManagerStarts,
     prelude_connection_pool_broadcast, prelude_connection_pool_set_connection_string,
     prelude_connection_pool_set_connection_dead, prelude_connection_pool_set_connection_alive,
     UserConnects, vars, conf
<1> SUFFICES Tries' = Tries
  BY <1>1
<1> DEFINE Other(f) == f.fn \notin {"init", "add"}
<1>2. \A c, l, r, m : /\ Other(FlushCnx(c)) /\ Other(FlushAll(l, c)) /\ Other(Handle(r))
                      /\ Other(Broadcast(m, TRUE, r)) /\ Other(Broadcast(m, FALSE, r))
  BY DEF FlushCnx, FlushAll, Handle, Broadcast
<1>3. CASE stack' = stack
  BY <1>3 DEF Tries
<1>4. ASSUME NEW f, Other(f), Call(f) PROVE Tries' = Tries
  BY <1>0, <1>4, QuietTries
<1>5. ASSUME NEW f, Other(f), stack # <<>>, Other(Top), Return \/ Become(f) PROVE Tries' = Tries
  BY <1>0, <1>5, QuietTries
<1> HIDE DEF Other
<1>6. CASE broadcast_message
  <2>1. PICK f : f = Broadcast(Top.msg, TRUE, Tail(Top.and))
    OBVIOUS
  <2>2. PICK g : g = Broadcast(Top.msg, FALSE, Tail(Top.and))
    OBVIOUS
  <2>3. Other(f) /\ Other(g)
    BY <1>2, <2>1, <2>2
  <2>4. stack # <<>> /\ Other(Top)
    BY <1>6 DEF broadcast_message, In, Free, Top, Other
  <2>5. \E w \in BOOLEAN : NextSink(w)
    BY <1>6, SomeSink
  <2>6. Return \/ Become(f) \/ Become(g)
    BY <2>1, <2>2, <2>5 DEF NextSink
  <2> QED BY <1>5, <2>3, <2>4, <2>6
<1>7. CASE failover_flush_cnx
  <2>1. PICK f : f = FlushAll(parent(Top.cnx), Top.cnx)
    OBVIOUS
  <2>2. Other(f) /\ stack # <<>> /\ Other(Top)
    BY <1>2, <1>7, <2>1 DEF failover_flush_cnx, In, Free, Top, Other
  <2>3. stack' = stack \/ Return \/ Become(f)
    BY <1>7, <2>1 DEF failover_flush_cnx, flush_cnx_ends, flush_cnx_sends, flush_cnx_fails
  <2> QED BY <1>3, <1>5, <2>2, <2>3
<1>8. CASE failover_flush_all
  <2>1. PICK f : f = Broadcast(Head(global), TRUE, lists[Top.list])
    OBVIOUS
  <2>2. Other(f) /\ stack # <<>> /\ Other(Top)
    BY <1>2, <1>8, <2>1 DEF failover_flush_all, In, Free, Top, Other
  <2>3. Return \/ Call(f)
    BY <1>8, <2>1 DEF failover_flush_all, flush_all_fails, flush_all_ends, flush_all_sends
  <2> QED BY <1>4, <1>5, <2>2, <2>3
<1>9. CASE add_connection_flushes
  <2>1. PICK f : f = FlushAll(Top.list, Nobody)
    OBVIOUS
  <2>2. Other(f) /\ stack # <<>> /\ Other(Top) /\ (Return \/ Become(f))
    BY <1>2, <1>9, <2>1 DEF add_connection_flushes, In, Free, Top, Other
  <2> QED BY <1>5, <2>2
<1>10. CASE check_connection_event \/ PollUnlock
  <2>1. PICK f : f = Handle(After(Top.rest))
    OBVIOUS
  <2>2. Other(f) /\ stack # <<>> /\ Other(Top) /\ (Return \/ Become(f))
    BY <1>2, <1>10, <2>1 DEF check_connection_event, PollUnlock, In, Free, Top, Other
  <2> QED BY <1>5, <2>2
<1>11. CASE PollLock
  <2>1. PICK f : f = Handle(lists)
    OBVIOUS
  <2>2. Other(f) /\ Call(f)
    BY <1>2, <1>11, <2>1 DEF PollLock
  <2> QED BY <1>4, <2>2
<1>12. CASE Timers
  <2>1. PICK f : f = FlushCnx(firing)
    OBVIOUS
  <2>2. Other(f) /\ (Call(f) \/ stack' = stack)
    BY <1>2, <1>12, <2>1 DEF Timers, connection_timer_expire, TimerExpires
  <2> QED BY <1>3, <1>4, <2>2
<1>13. ASSUME NEW m \in Msg, prelude_connection_pool_broadcast(m) PROVE Tries' = Tries
  <2>1. CASE stack' = stack
    BY <1>3, <2>1
  <2>2. ASSUME NEW l \in DOMAIN lists, Call(Broadcast(m, TRUE, lists[l])) PROVE Tries' = Tries
    <3>1. PICK f : f = Broadcast(m, TRUE, lists[l])
      OBVIOUS
    <3>2. Other(f) /\ Call(f)
      BY <1>2, <2>2, <3>1
    <3> QED BY <1>4, <3>2
  <2> QED BY <1>13, <2>1, <2>2 DEF prelude_connection_pool_broadcast, walk_manager_lists
<1>14. ASSUME NEW c \in Cnx, prelude_connection_pool_set_connection_alive(c) PROVE Tries' = Tries
  <2>1. PICK f : f = FlushCnx(c)
    OBVIOUS
  <2>2. Other(f) /\ Call(f)
    BY <1>2, <1>14, <2>1 DEF prelude_connection_pool_set_connection_alive
  <2> QED BY <1>4, <2>2
<1>15. CASE \/ PollSelect \/ Network \/ UNCHANGED vars \/ (PollReturn /\ ~ connection_string_changed)
            \/ \E str \in Strings : prelude_connection_pool_set_connection_string(str)
            \/ \E c \in Cnx : prelude_connection_pool_set_connection_dead(c) \/ UserConnects(c)
  BY <1>3, <1>15 DEF PollSelect, Network, LinkBreaks, ManagerStarts, vars, PollReturn, UserConnects,
     prelude_connection_pool_set_connection_string, prelude_connection_pool_set_connection_dead
<1> QED BY <1>6, <1>7, <1>8, <1>9, <1>10, <1>11, <1>12, <1>13, <1>14, <1>15 DEF Elsewhere

\* A call that tries connections ends or goes on with another frame.
LEMMA TriesStep ==
    ASSUME PoolInv, stack # <<>>, Top.fn \in {"init", "add"}
    PROVE  /\ Top \in Tries
           /\ \E old : /\ Tries = {Top} \union old
                       /\ Return => Tries' = old
                       /\ \A f : Become(f) =>
                              Tries' = IF f.fn \in {"init", "add"} THEN {f} \union old ELSE old
                       /\ \A f, g : stack' = <<f, g>> \o Tail(stack) /\ f.fn = "flush_cnx" =>
                              Tries' = IF g.fn \in {"init", "add"} THEN {g} \union old ELSE old
<1>1. stack \in Seq(Known)
  BY DEF PoolInv
<1>2. ToSet(stack) = {Top} \union ToSet(Tail(stack))
  BY <1>1, FrameSets
<1>3. PICK old : old = {f \in ToSet(Tail(stack)) : f.fn \in {"init", "add"}}
  OBVIOUS
<1>4. Top \in Tries /\ Tries = {Top} \union old
  BY <1>2, <1>3 DEF Tries
<1>5. Return => Tries' = old
  BY <1>3 DEF Tries, Return
<1>6. ASSUME NEW f, Become(f) PROVE Tries' = IF f.fn \in {"init", "add"} THEN {f} \union old ELSE old
  <2>1. ToSet(stack)' = {f} \union ToSet(Tail(stack))
    BY <1>1, <1>6, FrameSets
  <2> QED BY <1>3, <2>1 DEF Tries
<1>7. ASSUME NEW f, NEW g, stack' = <<f, g>> \o Tail(stack), f.fn = "flush_cnx"
      PROVE  Tries' = IF g.fn \in {"init", "add"} THEN {g} \union old ELSE old
  <2>1. ToSet(stack)' = {f, g} \union ToSet(Tail(stack))
    BY <1>1, <1>7, FrameSets
  <2> QED BY <1>3, <1>7, <2>1 DEF Tries
<1> QED BY <1>4, <1>5, <1>6, <1>7

-----------------------------------------------------------------------------
(* The failover of the pool is flushed as soon as a list is complete.      *)

\* No connection is in two lists.
Apart(ls) == \A k, l \in DOMAIN ls : k # l => ToSet(ls[k]) \intersect ToSet(ls[l]) = {}

\* The connection that is added is in the first list.
FirstList == \A f \in Tries : f.fn = "add" => f.cnx \in ToSet(lists[1])

\* The frame goes on to try a connection of the list that is down, or to flush
\* the failover of one of its connections, or that of the pool to the list.
Waits(f, l) ==
    \/ f.fn = "init" /\ \E c \in Members(f.rest) \ alive : c \in ToSet(lists[l])
    \/ f.fn \in {"flush_cnx", "add"} /\ f.cnx \in ToSet(lists[l])
    \/ f.fn \in {"flush_all", "added"} /\ f.list = l

Covered(l) == \E f \in ToSet(stack) : Waits(f, l)

\* While messages wait in the failover of the pool, every list lacks a
\* connection, or the lock holder is about to deal with it.
Drained ==
    global # <<>> =>
        FAILOVER /\ initialized /\ \A l \in DOMAIN lists : dead[l] = 0 => Covered(l)

FlushInv == Apart(lists) /\ FirstList /\ Drained

Waiters == {f \in ToSet(stack) : f.fn \in {"init", "add", "added", "flush_cnx", "flush_all"}}

\* A frame that stays waits on, unless a connection of the list came up.
LEMMA StillWaits ==
    ASSUME NEW f, NEW l, f \in ToSet(stack)', Waits(f, l), lists' = lists,
           alive' \intersect ToSet(lists[l]) \subseteq alive
    PROVE  Covered(l)'
<1>1. Waits(f, l)'
  BY DEF Waits
<1> QED BY <1>1 DEF Covered

\* Steps after which all that was waited for is still waited for.
LEMMA DrainStep ==
    ASSUME Drained, lists' = lists, initialized => initialized', global' # <<>> => global # <<>>,
           \A l \in DOMAIN lists : dead'[l] = 0 => dead[l] = 0 \/ Covered(l)',
           \A l \in DOMAIN lists, f \in ToSet(stack) :
               FAILOVER /\ initialized /\ global' # <<>> /\ Waits(f, l) /\ dead'[l] = 0 => Covered(l)'
    PROVE  Drained'
  BY DEF Drained, Covered

\* Steps that leave the frames that wait alone, while no counter drops to zero
\* and no connection comes up, unless nobody has the mutex.
LEMMA QuietDrain ==
    ASSUME Drained, lists' = lists, initialized' = initialized, global' # <<>> => global # <<>>,
           alive' \subseteq alive \/ Free,
           \A l \in DOMAIN lists : dead'[l] = 0 => dead[l] = 0,
           Waiters' = Waiters
    PROVE  Drained'
<1>1. ASSUME NEW l, NEW f \in ToSet(stack), Waits(f, l) PROVE Covered(l)'
  <2>1. f \in Waiters
    BY <1>1 DEF Waits, Waiters
  <2>2. f \in ToSet(stack)'
    BY <2>1 DEF Waiters
  <2>3. ~ Free
    BY DEF Free, ToSet
  <2> QED BY <1>1, <2>2, <2>3, StillWaits
<1> QED BY <1>1, DrainStep

\* A list that has the connection is its parent.
LEMMA Parent ==
    ASSUME Apart(lists), NEW l \in DOMAIN lists, NEW c \in ToSet(lists[l])
    PROVE  l = parent(c) /\ c \in Pooled
<1>1. c \in Pooled
  BY DEF Pooled, Members
<1> QED BY <1>1, ParentType DEF Apart

\* set_state_dead counts the connection.
LEMMA DeadCounts ==
    ASSUME Configured, Connections, NEW c \in Pooled, set_state_dead(c)
    PROVE  /\ alive' \subseteq alive
           /\ dead'[parent(c)] = dead[parent(c)] + 1
           /\ \A l \in DOMAIN lists : l # parent(c) => dead'[l] = dead[l]
           /\ \A l \in DOMAIN lists : dead'[l] = 0 => dead[l] = 0 /\ l # parent(c)
<1>1. PICK p, n : p = parent(c) /\ n = dead[p] + 1
  OBVIOUS
<1>2. p \in DOMAIN dead /\ \A l \in DOMAIN lists : dead[l] \in Nat /\ l \in DOMAIN dead
  BY <1>1, ParentType, PooledType
<1>3. dead' = [dead EXCEPT ![p] = n] /\ alive' \subseteq alive
  BY <1>1 DEF set_state_dead
<1>4. dead'[p] = n /\ \A l \in DOMAIN lists : l # p => dead'[l] = dead[l]
  BY <1>2, <1>3
<1>5. n # 0
  BY <1>1, <1>2, ParentType
<1> QED BY <1>1, <1>3, <1>4, <1>5

\* set_state_alive touches the counter of one list.
LEMMA AliveCounts ==
    ASSUME Configured, Connections, NEW c \in Pooled, set_state_alive(c)
    PROVE  /\ dead'[parent(c)] = IF dead[parent(c)] > 0 THEN dead[parent(c)] - 1 ELSE 0
           /\ \A l \in DOMAIN lists : l # parent(c) => dead'[l] = dead[l]
<1>1. PICK p, n : p = parent(c) /\ n = IF dead[p] > 0 THEN dead[p] - 1 ELSE 0
  OBVIOUS
<1>2. p \in DOMAIN dead /\ DOMAIN lists = DOMAIN dead
  BY <1>1, ParentType, PooledType
<1>3. dead' = [dead EXCEPT ![p] = n]
  BY <1>1 DEF set_state_alive
<1> QED BY <1>1, <1>2, <1>3


\* A step that neither pushes nor pops a frame that waits.
LEMMA QuietWaiters ==
    ASSUME stack \in Seq(Known), NEW f, f.fn \in {"broadcast", "poll"},
           \/ stack' = stack \/ Call(f)
           \/ stack # <<>> /\ Top.fn \in {"broadcast", "poll"} /\ (Return \/ Become(f))
    PROVE  Waiters' = Waiters
<1>1. PICK K : K = {"init", "add", "added", "flush_cnx", "flush_all"}
  OBVIOUS
<1>2. f.fn \notin K /\ (stack # <<>> /\ Top.fn \in {"broadcast", "poll"} => Top.fn \notin K)
  BY <1>1
<1>3. {x \in ToSet(stack) : x.fn \in K}' = {x \in ToSet(stack) : x.fn \in K}
  BY <1>2, QuietFrames
<1> QED BY <1>1, <1>3 DEF Waiters

\* broadcast_message: connections die, the frames below it stay.
LEMMA BroadcastDrains ==
    ASSUME PoolInv, Drained, broadcast_message
    PROVE  Drained'
<1>1. PICK c : c = Head(Top.and)
  OBVIOUS
<1>2. /\ stack \in Seq(Known) /\ stack # <<>> /\ Top.fn \in {"broadcast", "poll"} /\ In("broadcast")
      /\ lists' = lists /\ initialized' = initialized /\ global' = global
      /\ broadcast_sends(c) \/ broadcast_fails(c) \/ broadcast_saves(c)
  BY <1>1 DEF broadcast_message, In, Free, Top, conf, PoolInv
<1>3. PICK f, g : f = Broadcast(Top.msg, TRUE, Tail(Top.and)) /\ g = Broadcast(Top.msg, FALSE, Tail(Top.and))
  OBVIOUS
<1>4. f.fn \in {"broadcast", "poll"} /\ g.fn \in {"broadcast", "poll"}
  BY <1>3 DEF Broadcast
<1>5. \E w \in BOOLEAN : NextSink(w)
  BY SomeSink
<1>6. Return \/ Become(f) \/ Become(g)
  BY <1>3, <1>5 DEF NextSink
<1>7. Waiters' = Waiters
  BY <1>2, <1>4, <1>6, QuietWaiters
<1>8. c \in Pooled
  BY <1>1, <1>2, SinkFacts DEF PoolInv
<1>9. alive' \subseteq alive /\ \A l \in DOMAIN lists : dead'[l] = 0 => dead[l] = 0
  <2>1. CASE set_state_dead(c)
    BY <1>8, <2>1, DeadCounts DEF PoolInv
  <2>2. CASE UNCHANGED cnxs
    BY <2>2 DEF cnxs
  <2> QED BY <1>2, <2>1, <2>2 DEF broadcast_sends, broadcast_fails, broadcast_saves
<1> QED BY <1>2, <1>7, <1>9, QuietDrain

\* check_connection_event: connections die.
LEMMA EventDrains ==
    ASSUME PoolInv, Drained, check_connection_event
    PROVE  Drained'
<1>1. PICK c : c = At(Top.rest)
  OBVIOUS
<1>2. PICK f : f = Handle(After(Top.rest))
  OBVIOUS
<1>3. /\ stack \in Seq(Known) /\ stack # <<>> /\ Top.fn = "poll" /\ Top.fn \in {"broadcast", "poll"}
      /\ Top.rest # <<>> /\ Become(f)
      /\ lists' = lists /\ initialized' = initialized /\ global' = global
      /\ event_skips(c) \/ event_is_handled(c) \/ event_fails(c) \/ event_kills(c)
  BY <1>1, <1>2 DEF check_connection_event, In, Free, Top, conf, store, PoolInv
<1>4. f.fn \in {"broadcast", "poll"}
  BY <1>2 DEF Handle
<1>5. Waiters' = Waiters
  BY <1>3, <1>4, QuietWaiters
<1>6. c \in Pooled
  <2>1. Top.rest \in Lists(Pooled)
    BY <1>3, TopType
  <2> QED BY <1>1, <1>3, <2>1, Walk
<1>7. alive' \subseteq alive /\ \A l \in DOMAIN lists : dead'[l] = 0 => dead[l] = 0
  <2>1. CASE event_skips(c) \/ event_is_handled(c)
    BY <2>1 DEF event_skips, event_is_handled, cnxs
  <2>2. CASE event_fails(c)
    BY <1>6, <2>2, DeadCounts DEF event_fails, PoolInv
  <2>3. CASE event_kills(c)
    <3>1. PICK p, n : p = parent(c) /\ n = dead[p] + 2
      OBVIOUS
    <3>2. /\ p \in DOMAIN lists /\ DOMAIN dead = DOMAIN lists /\ dead[p] \in Nat
      BY <1>6, <3>1, ParentType, PooledType DEF PoolInv
    <3>3. dead' = [dead EXCEPT ![p] = n] /\ alive' \subseteq alive
      BY <2>3, <3>1 DEF event_kills
    <3>4. n # 0
      BY <3>1, <3>2
    <3> QED BY <3>2, <3>3, <3>4
  <2> QED BY <1>3, <2>1, <2>2, <2>3
<1> QED BY <1>3, <1>5, <1>7, QuietDrain

\* Other steps that leave the frames that wait alone.
LEMMA RestDrains ==
    ASSUME PoolInv, Drained,
           \/ PollUnlock \/ PollSelect \/ PollLock \/ Network \/ UNCHANGED vars
           \/ PollReturn /\ ~ connection_string_changed
           \/ \E str \in Strings : prelude_connection_pool_set_connection_string(str)
           \/ \E c \in Cnx : \/ prelude_connection_pool_set_connection_dead(c)
                             \/ UserConnects(c) \/ TimerExpires(c)
    PROVE  Drained'
<1>1. stack \in Seq(Known)
  BY DEF PoolInv
<1>2. lists' = lists /\ initialized' = initialized /\ global' = global
  BY DEF PollUnlock, PollSelect, PollLock, Network, LinkBreaks, ManagerStarts, PollReturn, vars, conf, store,
     prelude_connection_pool_set_connection_string, prelude_connection_pool_set_connection_dead,
     UserConnects, TimerExpires
<1>3. PICK f : f = Handle(lists)
  OBVIOUS
<1>4. f.fn \in {"broadcast", "poll"}
  BY <1>3 DEF Handle
<1>5. Waiters' = Waiters
  <2>1. \/ stack' = stack \/ Call(f)
        \/ stack # <<>> /\ Top.fn \in {"broadcast", "poll"} /\ Return
    BY <1>3 DEF PollUnlock, PollSelect, PollLock, Network, LinkBreaks, ManagerStarts, PollReturn, vars,
       prelude_connection_pool_set_connection_string, prelude_connection_pool_set_connection_dead,
       UserConnects, TimerExpires, In, Free, Top
  <2> QED BY <1>1, <1>4, <2>1, QuietWaiters
<1>6. (alive' \subseteq alive \/ Free) /\ \A l \in DOMAIN lists : dead'[l] = 0 => dead[l] = 0
  <2>1. CASE \E c \in Cnx : prelude_connection_pool_set_connection_dead(c)
    <3>1. PICK c \in Pooled : set_state_dead(c) /\ Free
      BY <2>1 DEF prelude_connection_pool_set_connection_dead
    <3> QED BY <3>1, DeadCounts DEF PoolInv
  <2>2. CASE dead' = dead /\ (alive' = alive \/ Free)
    BY <2>2
  <2> QED BY <2>1, <2>2 DEF PollUnlock, PollSelect, PollLock, Network, LinkBreaks, ManagerStarts, PollReturn,
         vars, cnxs, prelude_connection_pool_set_connection_string, UserConnects, TimerExpires
<1> QED BY <1>2, <1>5, <1>6, QuietDrain

\* prelude_connection_pool_broadcast saves a message in the failover of the pool
\* when every list lacks all of its connections.
LEMMA AppBroadcastDrains ==
    ASSUME PoolInv, Drained, NEW m \in Msg, prelude_connection_pool_broadcast(m)
    PROVE  Drained'
<1>1. /\ stack \in Seq(Known) /\ lists' = lists /\ initialized' = initialized /\ initialized
      /\ dead' = dead /\ alive' = alive /\ walk_manager_lists(m)
  BY DEF prelude_connection_pool_broadcast, conf, cnxs, PoolInv
<1>2. ASSUME NEW l \in DOMAIN lists, Call(Broadcast(m, TRUE, lists[l])), global' = global PROVE Drained'
  <2>1. PICK f : f = Broadcast(m, TRUE, lists[l])
    OBVIOUS
  <2>2. f.fn \in {"broadcast", "poll"} /\ Call(f)
    BY <1>2, <2>1 DEF Broadcast
  <2>3. Waiters' = Waiters
    BY <1>1, <2>2, QuietWaiters
  <2> QED BY <1>1, <1>2, <2>3, QuietDrain
<1>3. CASE (\A l \in DOMAIN lists : Skipped(l)) /\ FAILOVER
  <2>1. ASSUME NEW l \in DOMAIN lists PROVE dead[l] > 0
    <3>1. PICK q : q = lists[l]
      OBVIOUS
    <3>2. q \in Seq(Pooled) /\ q # <<>> /\ dead[l] = Len(q)
      BY <1>3, <3>1, PooledType DEF PoolInv, Skipped
    <3>3. Len(q) \in Nat /\ Len(q) # 0
      BY ONLY <3>2, LenProperties, EmptySeq
    <3> QED BY <3>2, <3>3
  <2>2. \A l \in DOMAIN lists : dead'[l] # 0
    BY <1>1, <2>1
  <2> QED BY <1>1, <1>3, <2>2 DEF Drained
<1>4. CASE global' = global /\ stack' = stack
  <2>1. Waiters' = Waiters
    BY <1>4 DEF Waiters
  <2> QED BY <1>1, <1>4, <2>1, QuietDrain
<1>5. CASE \E ok \in Saves : (global' = IF ok THEN Append(global, m) ELSE global) /\ stack' = stack /\ ~ FAILOVER
  BY <1>4, <1>5, PoolAssumption DEF Saves
<1> QED BY <1>1, <1>2, <1>3, <1>5, PoolAssumption DEF walk_manager_lists


\* The frame on top is replaced or left: the others wait on, and what it
\* waited for is counted or taken over.
LEMMA TopDrain ==
    ASSUME stack \in Seq(Known), stack # <<>>, Drained, lists' = lists, initialized => initialized',
           global' # <<>> => global # <<>>, ToSet(Tail(stack)) \subseteq ToSet(stack)',
           \A l \in DOMAIN lists :
               \/ Covered(l)' \/ dead'[l] # 0
               \/ dead[l] = 0 /\ alive' \intersect ToSet(lists[l]) \subseteq alive,
           \A l \in DOMAIN lists :
               FAILOVER /\ initialized /\ global' # <<>> /\ Waits(Top, l) /\ dead'[l] = 0 => Covered(l)'
    PROVE  Drained'
<1>1. ToSet(stack) = {Top} \union ToSet(Tail(stack))
  BY FrameSets
<1>2. ASSUME NEW l \in DOMAIN lists, NEW f \in ToSet(stack), Waits(f, l), dead'[l] = 0,
             FAILOVER, initialized, global' # <<>>
      PROVE  Covered(l)'
  <2>1. CASE f = Top
    BY <1>2, <2>1
  <2>2. CASE f # Top
    <3>1. f \in ToSet(stack)'
      BY <1>1, <2>2
    <3> QED BY <1>2, <3>1, StillWaits
  <2> QED BY <2>1, <2>2
<1> QED BY <1>2, DrainStep

\* failover_flush for a connection goes on to the failover of the pool when no
\* connection of the list is dead.
LEMMA FlushCnxDrains ==
    ASSUME PoolInv, Apart(lists), Drained, failover_flush_cnx
    PROVE  Drained'
<1>1. PICK c : c = Top.cnx
  OBVIOUS
<1>2. /\ stack \in Seq(Known) /\ stack # <<>> /\ Top.fn = "flush_cnx"
      /\ lists' = lists /\ initialized' = initialized /\ global' = global
      /\ flush_cnx_ends(c) \/ flush_cnx_sends(c) \/ flush_cnx_fails(c)
  BY <1>1 DEF failover_flush_cnx, In, Free, Top, conf, PoolInv
<1>3. c \in Pooled
  BY <1>1, <1>2, TopType
<1>4. ASSUME NEW l \in DOMAIN lists, Waits(Top, l) PROVE l = parent(c)
  <2>1. c \in ToSet(lists[l])
    BY <1>1, <1>2, <1>4 DEF Waits
  <2> QED BY <2>1, Parent
<1>5. \A l \in DOMAIN lists : dead[l] \in Nat
  BY PooledType DEF PoolInv
<1>6. CASE flush_cnx_ends(c)
  <2>1. dead' = dead /\ alive' = alive
    BY <1>6 DEF flush_cnx_ends
  <2>2. CASE FAILOVER /\ dead[parent(c)] = 0
    <3>1. PICK p, f : p = parent(c) /\ f = FlushAll(p, c)
      OBVIOUS
    <3>2. f.fn = "flush_all" /\ f.list = p /\ Become(f)
      BY <1>6, <2>2, <3>1 DEF flush_cnx_ends, FlushAll
    <3>3. ToSet(stack)' = {f} \union ToSet(Tail(stack))
      BY <1>2, <3>2, FrameSets
    <3>4. Covered(p)' /\ p = parent(c)
      BY <3>1, <3>2, <3>3 DEF Covered, Waits
    <3>5. ToSet(Tail(stack)) \subseteq ToSet(stack)'
      BY <3>3
    <3> QED BY <1>2, <1>4, <2>1, <3>4, <3>5, TopDrain
  <2>3. CASE ~ (FAILOVER /\ dead[parent(c)] = 0)
    <3>1. Return
      BY <1>6, <2>3 DEF flush_cnx_ends
    <3>2. ToSet(Tail(stack)) \subseteq ToSet(stack)'
      BY <3>1 DEF Return
    <3>3. FAILOVER => dead'[parent(c)] # 0
      BY <2>1, <2>3
    <3> QED BY <1>2, <1>4, <2>1, <3>2, <3>3, TopDrain
  <2> QED BY <2>2, <2>3
<1>7. CASE flush_cnx_sends(c)
  <2>1. stack' = stack /\ dead' = dead /\ alive' = alive
    BY <1>7 DEF flush_cnx_sends, cnxs
  <2>2. Waiters' = Waiters
    BY <2>1 DEF Waiters
  <2> QED BY <1>2, <2>1, <2>2, QuietDrain
<1>8. CASE flush_cnx_fails(c)
  <2>1. Return /\ set_state_dead(c)
    BY <1>8 DEF flush_cnx_fails
  <2>2. ToSet(Tail(stack)) \subseteq ToSet(stack)'
    BY <2>1 DEF Return
  <2>3. alive' \subseteq alive /\ \A l \in DOMAIN lists : dead'[l] = 0 => dead[l] = 0 /\ l # parent(c)
    BY <1>3, <2>1, DeadCounts DEF PoolInv
  <2> QED BY <1>2, <1>4, <2>2, <2>3, TopDrain
<1> QED BY <1>2, <1>6, <1>7, <1>8

\* failover_flush for the pool ends when its failover is empty or a connection
\* of the list died.
LEMMA FlushAllDrains ==
    ASSUME PoolInv, Drained, "unread" \notin Faults, failover_flush_all
    PROVE  Drained'
<1>1. PICK k : k = Top.list
  OBVIOUS
<1>2. /\ stack \in Seq(Known) /\ stack # <<>> /\ Top.fn = "flush_all"
      /\ lists' = lists /\ initialized' = initialized /\ dead' = dead /\ alive' = alive
      /\ flush_all_fails(k) \/ flush_all_ends(k) \/ flush_all_sends(k)
  BY <1>1 DEF failover_flush_all, In, Free, Top, conf, PoolInv
<1>3. \A l \in DOMAIN lists : Waits(Top, l) => l = k
  BY <1>1, <1>2 DEF Waits
<1>4. CASE flush_all_fails(k)
  <2>1. dead'[k] # 0 /\ Return /\ global' = global
    BY <1>2, <1>4 DEF flush_all_fails
  <2>2. ToSet(Tail(stack)) \subseteq ToSet(stack)'
    BY <2>1 DEF Return
  <2> QED BY <1>2, <1>3, <2>1, <2>2, TopDrain
<1>5. CASE flush_all_ends(k)
  <2>1. global' = global /\ (global = <<>> \/ Unreadable(global))
    BY <1>5 DEF flush_all_ends
  <2>2. ASSUME global # <<>> PROVE Head(global) # Torn
    <3>1. Head(global) \in Msg
      BY <2>2, HeadTailProperties DEF PoolInv, Stored
    <3> QED BY <3>1, TornAssumption
  <2>3. global = <<>>
    BY <2>1, <2>2 DEF Unreadable
  <2> QED BY <2>1, <2>3 DEF Drained
<1>6. CASE flush_all_sends(k)
  <2>1. PICK f : f = Broadcast(Head(global), TRUE, lists[k])
    OBVIOUS
  <2>2. f.fn \in {"broadcast", "poll"} /\ Call(f) /\ global # <<>>
    BY <1>6, <2>1 DEF flush_all_sends, Broadcast
  <2>3. Waiters' = Waiters
    BY <1>2, <2>2, QuietWaiters
  <2> QED BY <1>2, <2>2, <2>3, QuietDrain
<1> QED BY <1>2, <1>4, <1>5, <1>6

\* A connection of the pool comes up: its failover is flushed next.
LEMMA RevivedDrains ==
    ASSUME PoolInv, Apart(lists), Drained, Free, NEW c \in Pooled, set_state_alive(c), Call(FlushCnx(c)),
           lists' = lists, initialized' = initialized, global' = global
    PROVE  Drained'
<1>1. PICK f : f = FlushCnx(c)
  OBVIOUS
<1>2. f.fn = "flush_cnx" /\ f.cnx = c /\ Call(f)
  BY <1>1 DEF FlushCnx
<1>3. ToSet(stack)' = {f} \union ToSet(stack)
  BY <1>2, FrameSets DEF PoolInv
<1>4. \A l \in DOMAIN lists : l # parent(c) => dead'[l] = dead[l]
  BY AliveCounts DEF PoolInv
<1>5. PICK p : p = parent(c)
  OBVIOUS
<1>7. Covered(p)'
  <2>1. Waits(f, p)'
    BY <1>2, <1>5, ParentType DEF Waits
  <2> QED BY <1>3, <2>1 DEF Covered
<1>6. ToSet(stack) = {}
  BY DEF Free, ToSet
<1> QED BY <1>4, <1>5, <1>6, <1>7, DrainStep

\* connection_timer_expire and prelude_connection_pool_set_connection_alive.
LEMMA AliveDrains ==
    ASSUME PoolInv, Apart(lists), Drained,
           \/ connection_timer_expire
           \/ \E c \in Cnx : prelude_connection_pool_set_connection_alive(c)
    PROVE  Drained'
<1>1. Free /\ lists' = lists /\ initialized' = initialized /\ global' = global
  BY DEF connection_timer_expire, prelude_connection_pool_set_connection_alive, conf, store
<1>2. CASE \E c \in Pooled : set_state_alive(c) /\ Call(FlushCnx(c))
  BY <1>1, <1>2, RevivedDrains
<1>3. CASE dead' = dead /\ stack' = stack
  <2>1. Waiters' = Waiters
    BY <1>3 DEF Waiters
  <2> QED BY <1>1, <1>3, <2>1, QuietDrain
<1>4. connection_timer_expire => firing \in Pooled
  BY PoolAssumption DEF connection_timer_expire, PoolInv, Waiting
<1> QED BY <1>2, <1>3, <1>4 DEF connection_timer_expire, prelude_connection_pool_set_connection_alive


\* prelude_connection_pool_init goes on to try all connections: those of new
\* lists are all down, and each list has one.
LEMMA PoolInitDrains ==
    ASSUME PoolInv, Drained, Free, pool_init, initialized' = initialized, global' = global
    PROVE  Drained'
<1>1. CASE connection_string_changed
  <2>1. PICK s, f : s = connection_string /\ f = Connect(s)
    OBVIOUS
  <2>2. /\ f.fn = "init" /\ f.rest = s /\ lists' = s /\ Call(f)
        /\ alive' = alive \ (Pooled \union Members(s))
    BY <1>1, <2>1 DEF pool_init, Connect
  <2>3. ToSet(stack)' = {f} \union ToSet(stack)
    BY <2>2, FrameSets DEF PoolInv
  <2>4. s \in Lists(Cnx)
    BY <2>1, StringsAssumption DEF PoolInv, Configured, Lists
  <2>5. ASSUME NEW l \in DOMAIN s PROVE Covered(l)'
    <3>1. PICK q : q = s[l]
      OBVIOUS
    <3>2. q \in Seq(Cnx) /\ q # <<>>
      BY <2>4, <2>5, <3>1, ElementOfSeq, LenProperties DEF Lists
    <3>3. PICK c : c \in ToSet(q)
      BY <3>2, ToSetType
    <3>4. c \in Members(s)
      BY <3>1, <3>3 DEF Members
    <3>5. Waits(f, l)'
      BY <2>2, <3>1, <3>3, <3>4 DEF Waits
    <3> QED BY <2>3, <3>5 DEF Covered
  <2> QED BY <2>2, <2>5 DEF Drained
<1>2. CASE ~ connection_string_changed
  <2>1. lists' = lists /\ dead' = dead
    BY <1>2 DEF pool_init, conf, cnxs
  <2>2. \A l : ~ Covered(l)
    BY DEF Covered, Free, ToSet
  <2> QED BY <2>1, <2>2 DEF Drained
<1> QED BY <1>1, <1>2

\* One connection attempt of prelude_connection_pool_init: the failover of a
\* connection that is up is flushed, one that is down is counted.
LEMMA InitConnectionDrains ==
    ASSUME PoolInv, Apart(lists), Drained, "profile" \notin Faults, init_connection
    PROVE  Drained'
<1>1. PICK r : r = Top.rest
  OBVIOUS
<1>2. PICK c : c = At(r)
  OBVIOUS
<1>3. PICK g, h, p : g = Connect(After(r)) /\ h = FlushCnx(c) /\ p = parent(c)
  OBVIOUS
<1>4. g.fn = "init" /\ g.rest = After(r) /\ h.fn = "flush_cnx" /\ h.cnx = c
  BY <1>3 DEF Connect, FlushCnx
<1>5. /\ stack \in Seq(Known) /\ stack # <<>> /\ Top.fn = "init" /\ r # <<>>
      /\ lists' = lists /\ initialized' = initialized /\ global' = global
      /\ init_skips(c) \/ init_connects(c) \/ init_fails(c) \/ init_aborts(c)
  BY <1>1, <1>2 DEF init_connection, In, Free, Top, conf, store, PoolInv
<1>6. r \in Lists(Pooled)
  BY <1>1, <1>5, TopType
<1>7. c \in Pooled /\ Members(r) = {c} \union Members(After(r))
  BY <1>2, <1>5, <1>6, Walk
<1>8. p \in DOMAIN lists /\ c \in ToSet(lists[p]) /\ \A l \in DOMAIN lists : c \in ToSet(lists[l]) => l = p
  BY <1>3, <1>7, ParentType, Parent
<1>9. ASSUME NEW l \in DOMAIN lists, Waits(Top, l), l # p \/ c \in alive, g \in ToSet(stack)',
             alive' \subseteq alive \union {c}
      PROVE  Covered(l)'
  <2>1. PICK d \in Members(r) \ alive : d \in ToSet(lists[l])
    BY <1>1, <1>5, <1>9 DEF Waits
  <2>2. d # c
    BY <1>8, <1>9, <2>1
  <2>3. d \in Members(After(r)) /\ d \notin alive'
    BY <1>7, <1>9, <2>1, <2>2
  <2>4. Waits(g, l)'
    BY <1>4, <1>5, <2>1, <2>3 DEF Waits
  <2> QED BY <1>9, <2>4 DEF Covered
<1>10. CASE init_skips(c)
  <2>1. Become(g) /\ dead' = dead /\ alive' = alive /\ c \in alive
    BY <1>1, <1>3, <1>10 DEF init_skips, cnxs
  <2>2. ToSet(stack)' = {g} \union ToSet(Tail(stack))
    BY <1>5, <2>1, FrameSets
  <2>3. \A l \in DOMAIN lists : Waits(Top, l) => Covered(l)'
    BY <1>9, <2>1, <2>2
  <2>4. ToSet(Tail(stack)) \subseteq ToSet(stack)'
    BY <2>2
  <2> QED BY <1>5, <2>1, <2>3, <2>4, TopDrain
<1>11. CASE init_connects(c)
  <2>1. stack' = <<h, g>> \o Tail(stack) /\ set_state_alive(c) /\ alive' = alive \union {c}
    BY <1>1, <1>3, <1>11 DEF init_connects, prelude_connection_connect
  <2>2. ToSet(stack)' = {h, g} \union ToSet(Tail(stack))
    BY <1>5, <2>1, FrameSets
  <2>3. Covered(p)'
    <3>1. Waits(h, p)'
      BY <1>4, <1>5, <1>8 DEF Waits
    <3> QED BY <2>2, <3>1 DEF Covered
  <2>4. ToSet(Tail(stack)) \subseteq ToSet(stack)' /\ g \in ToSet(stack)'
    BY <2>2
  <2>5. \A l \in DOMAIN lists : Waits(Top, l) => Covered(l)'
    BY <1>9, <2>1, <2>3, <2>4
  <2>6. \A l \in DOMAIN lists : l # p => dead'[l] = dead[l] /\ alive' \intersect ToSet(lists[l]) \subseteq alive
    BY <1>3, <1>7, <1>8, <2>1, AliveCounts DEF PoolInv
  <2>7. \A l \in DOMAIN lists :
          \/ Covered(l)' \/ dead'[l] # 0
          \/ dead[l] = 0 /\ alive' \intersect ToSet(lists[l]) \subseteq alive
    BY <2>3, <2>6
  <2> QED BY <1>5, <2>4, <2>5, <2>7, TopDrain
<1>12. CASE init_fails(c)
  <2>1. Become(g) /\ set_state_dead(c)
    BY <1>1, <1>3, <1>12 DEF init_fails
  <2>2. ToSet(stack)' = {g} \union ToSet(Tail(stack))
    BY <1>5, <2>1, FrameSets
  <2>3. alive' \subseteq alive /\ \A l \in DOMAIN lists : dead'[l] = 0 => dead[l] = 0 /\ l # p
    BY <1>3, <1>7, <2>1, DeadCounts DEF PoolInv
  <2>4. \A l \in DOMAIN lists : Waits(Top, l) /\ dead'[l] = 0 => Covered(l)'
    BY <1>9, <2>2, <2>3
  <2>5. ToSet(Tail(stack)) \subseteq ToSet(stack)'
    BY <2>2
  <2> QED BY <1>5, <2>3, <2>4, <2>5, TopDrain
<1> QED BY <1>5, <1>10, <1>11, <1>12 DEF init_aborts

\* prelude_connection_pool_init returns: it has tried them all.
LEMMA InitReturnsDrains ==
    ASSUME PoolInv, Drained, init_returns
    PROVE  Drained'
<1>1. /\ stack \in Seq(Known) /\ stack # <<>> /\ Top.fn = "init" /\ Top.rest = <<>> /\ Return
      /\ lists' = lists /\ initialized' /\ global' = global /\ dead' = dead /\ alive' = alive
  BY DEF init_returns, In, Free, Top, cnxs, store, PoolInv
<1>2. \A l : ~ Waits(Top, l)
  BY <1>1 DEF Waits, Members
<1>3. ToSet(Tail(stack)) \subseteq ToSet(stack)'
  BY <1>1 DEF Return
<1> QED BY <1>1, <1>2, <1>3, TopDrain


\* prelude_connection_pool_add_connection: the connection was in no list.
LEMMA AddDrains ==
    ASSUME PoolInv, FlushInv, NEW c \in Cnx, prelude_connection_pool_add_connection(c)
    PROVE  FlushInv'
<1>1. PICK f : f = Add(c)
  OBVIOUS
<1>2. f.fn = "add" /\ f.cnx = c
  BY <1>1 DEF Add
<1>3. /\ stack \in Seq(Known) /\ ToSet(stack) = {} /\ Call(f) /\ c \notin Pooled
      /\ initialized' = initialized /\ global' = global
  BY <1>1 DEF PoolInv, prelude_connection_pool_add_connection, Free, ToSet, store
<1>4. ToSet(stack)' = {f}
  BY <1>3, FrameSets
<1>5. Tries' = {f}
  BY <1>2, <1>4 DEF Tries
<1>6. CASE lists = <<>>
  <2>1. lists' = <<<<c>>>>
    BY <1>6 DEF prelude_connection_pool_add_connection
  <2>2. DOMAIN lists' = {1} /\ c \in ToSet(lists'[1])
    <3>1. DOMAIN lists' = {1} /\ lists'[1] = <<c>>
      BY <2>1
    <3>2. 1 \in DOMAIN <<c>> /\ <<c>>[1] = c
      OBVIOUS
    <3> QED BY <3>1, <3>2 DEF ToSet
  <2>3. Apart(lists)' /\ FirstList'
    BY <1>2, <1>5, <2>2 DEF Apart, FirstList
  <2>4. Covered(1)'
    BY <1>2, <1>4, <2>2 DEF Covered, Waits
  <2>5. Drained'
    BY <1>3, <2>2, <2>4 DEF Drained, FlushInv
  <2> QED BY <2>3, <2>5 DEF FlushInv
<1>7. CASE lists # <<>>
  <2>1. /\ DOMAIN lists' = DOMAIN lists /\ 1 \in DOMAIN lists
        /\ \A l \in DOMAIN lists : ToSet(lists'[l]) = ToSet(lists[l]) \union (IF l = 1 THEN {c} ELSE {})
    BY <1>7, AddFirst
  <2>2. dead' = dead
    BY <1>7 DEF prelude_connection_pool_add_connection
  <2>3. ASSUME NEW k \in DOMAIN lists, NEW l \in DOMAIN lists, k # l
        PROVE  ToSet(lists'[k]) \intersect ToSet(lists'[l]) = {}
    <3>1. ToSet(lists[k]) \intersect ToSet(lists[l]) = {}
      BY <2>3 DEF FlushInv, Apart
    <3>2. c \notin ToSet(lists[k]) /\ c \notin ToSet(lists[l])
      BY <1>3 DEF Pooled, Members
    <3> QED BY <2>1, <2>3, <3>1, <3>2
  <2>4. Apart(lists)' /\ FirstList'
    BY <1>2, <1>5, <2>1, <2>3 DEF Apart, FirstList
  <2>5. \A l : ~ Covered(l)
    BY <1>3 DEF Covered
  <2>6. Drained'
    BY <1>3, <2>1, <2>2, <2>5 DEF Drained, FlushInv
  <2> QED BY <2>4, <2>6 DEF FlushInv
<1> QED BY <1>6, <1>7

\* The connection that was added is tried: its failover is flushed, or it is
\* counted; then comes the failover of the pool.
LEMMA AddConnectsDrains ==
    ASSUME PoolInv, FlushInv, add_connection_connects
    PROVE  Drained'
<1>1. PICK c : c = Top.cnx
  OBVIOUS
<1>2. PICK g, h : g = Added(1) /\ h = FlushCnx(c)
  OBVIOUS
<1>3. g.fn = "added" /\ g.list = 1 /\ h.fn = "flush_cnx" /\ h.cnx = c
  BY <1>2 DEF Added, FlushCnx
<1>4. /\ stack \in Seq(Known) /\ stack # <<>> /\ Top.fn = "add"
      /\ lists' = lists /\ initialized' = initialized /\ global' = global
  BY DEF add_connection_connects, In, Free, Top, conf, store, PoolInv
<1>5. \/ alive' = alive \union {c} /\ set_state_alive(c) /\ stack' = <<h, g>> \o Tail(stack)
      \/ set_state_dead(c) /\ Become(g)
      \/ Become(g) /\ alive' = alive /\ dead' = dead
  BY <1>1, <1>2 DEF add_connection_connects, prelude_connection_connect, cnxs
<1>6. c \in Pooled /\ c \in ToSet(lists[1])
  <2>1. Top \in Tries /\ c \in Pooled
    BY <1>1, <1>4, TopType, FrameSets DEF Tries
  <2> QED BY <1>1, <1>4, <2>1 DEF FlushInv, FirstList
<1>7. 1 \in DOMAIN lists
  <2>1. PICK l \in DOMAIN lists : c \in ToSet(lists[l])
    BY <1>6 DEF Pooled, Members
  <2> QED BY <2>1, PooledType DEF PoolInv
<1>8. 1 = parent(c) /\ \A l \in DOMAIN lists : c \in ToSet(lists[l]) => l = 1
  BY <1>6, <1>7, Parent DEF FlushInv
<1>9. \/ ToSet(stack)' = {g} \union ToSet(Tail(stack))
      \/ ToSet(stack)' = {h, g} \union ToSet(Tail(stack))
  BY <1>4, <1>5, FrameSets
<1>10. Covered(1)'
  BY <1>3, <1>9 DEF Covered, Waits
<1>11. \A l \in DOMAIN lists : Waits(Top, l) => Covered(l)'
  <2>1. \A l \in DOMAIN lists : Waits(Top, l) => l = 1
    BY <1>1, <1>4, <1>8 DEF Waits
  <2> QED BY <1>10, <2>1
<1>12. \A l \in DOMAIN lists :
          \/ Covered(l)' \/ dead'[l] # 0
          \/ dead[l] = 0 /\ alive' \intersect ToSet(lists[l]) \subseteq alive
  <2>1. CASE alive' = alive \union {c} /\ set_state_alive(c)
    <3>1. \A l \in DOMAIN lists : l # 1 => dead'[l] = dead[l] /\ alive' \intersect ToSet(lists[l]) \subseteq alive
      BY <1>6, <1>8, <2>1, AliveCounts DEF PoolInv
    <3> QED BY <1>10, <3>1
  <2>2. CASE set_state_dead(c)
    BY <1>6, <2>2, DeadCounts DEF PoolInv
  <2>3. CASE alive' = alive /\ dead' = dead
    BY <2>3
  <2> QED BY <1>5, <2>1, <2>2, <2>3
<1>13. ToSet(Tail(stack)) \subseteq ToSet(stack)'
  BY <1>9
<1> QED BY <1>4, <1>11, <1>12, <1>13, TopDrain DEF FlushInv

\* The end of prelude_connection_pool_add_connection: the failover of the pool
\* is flushed when no connection of the list is dead.
LEMMA AddFlushesDrains ==
    ASSUME PoolInv, Drained, add_connection_flushes
    PROVE  Drained'
<1>1. PICK k, f : k = Top.list /\ f = FlushAll(k, Nobody)
  OBVIOUS
<1>2. /\ stack \in Seq(Known) /\ stack # <<>> /\ Top.fn = "added" /\ f.fn = "flush_all" /\ f.list = k
      /\ lists' = lists /\ initialized' = initialized /\ global' = global /\ dead' = dead /\ alive' = alive
  BY <1>1 DEF add_connection_flushes, In, Free, Top, conf, cnxs, store, FlushAll, PoolInv
<1>3. \A l \in DOMAIN lists : Waits(Top, l) => l = k
  BY <1>1, <1>2 DEF Waits
<1>4. CASE dead[k] = 0 /\ FAILOVER /\ initialized
  <2>1. Become(f)
    BY <1>1, <1>4 DEF add_connection_flushes
  <2>2. ToSet(stack)' = {f} \union ToSet(Tail(stack))
    BY <1>2, <2>1, FrameSets
  <2>3. Covered(k)'
    BY <1>2, <2>2 DEF Covered, Waits
  <2>4. ToSet(Tail(stack)) \subseteq ToSet(stack)'
    BY <2>2
  <2> QED BY <1>2, <1>3, <2>3, <2>4, TopDrain
<1>5. CASE ~ (dead[k] = 0 /\ FAILOVER /\ initialized)
  <2>1. Return
    BY <1>1, <1>5 DEF add_connection_flushes
  <2>2. ToSet(Tail(stack)) \subseteq ToSet(stack)'
    BY <2>1 DEF Return
  <2> QED BY <1>2, <1>3, <1>5, <2>2, TopDrain
<1> QED BY <1>4, <1>5


\* The lists and the connections that are being added, outside of
\* prelude_connection_pool_add_connection.
LEMMA FirstStep ==
    ASSUME PoolInv, Apart(lists), FirstList, \A s \in Strings : Apart(s),
           \/ Elsewhere \/ init_connection \/ init_returns \/ add_connection_connects
           \/ Free /\ pool_init
    PROVE  Apart(lists)' /\ FirstList'
<1>1. CASE lists' = lists /\ \A f \in Tries' : f \in Tries \/ f.fn = "init"
  BY <1>1 DEF Apart, FirstList
<1>2. CASE Elsewhere
  BY <1>1, <1>2, Untried
<1>3. CASE init_connection
  <2>1. PICK g, h : g = Connect(After(Top.rest)) /\ h = FlushCnx(At(Top.rest))
    OBVIOUS
  <2>2. g.fn = "init" /\ g.fn \in {"init", "add"} /\ h.fn = "flush_cnx"
    BY <2>1 DEF Connect, FlushCnx
  <2>3. /\ stack # <<>> /\ Top.fn \in {"init", "add"} /\ lists' = lists
        /\ Become(g) \/ stack' = <<h, g>> \o Tail(stack) \/ Return
    BY <1>3, <2>1 DEF init_connection, In, Free, Top, conf, init_skips, init_connects, init_fails, init_aborts
  <2>4. PICK old : Tries = {Top} \union old /\ (Tries' = {g} \union old \/ Tries' = old)
    BY <2>2, <2>3, TriesStep
  <2> QED BY <1>1, <2>2, <2>3, <2>4
<1>4. CASE init_returns
  <2>1. stack # <<>> /\ Top.fn \in {"init", "add"} /\ lists' = lists /\ Return
    BY <1>4 DEF init_returns, In, Free, Top
  <2>2. PICK old : Tries = {Top} \union old /\ Tries' = old
    BY <2>1, TriesStep
  <2> QED BY <1>1, <2>1, <2>2
<1>5. CASE add_connection_connects
  <2>1. PICK g, h : g = Added(1) /\ h = FlushCnx(Top.cnx)
    OBVIOUS
  <2>2. g.fn \notin {"init", "add"} /\ h.fn = "flush_cnx"
    BY <2>1 DEF Added, FlushCnx
  <2>3. /\ stack # <<>> /\ Top.fn \in {"init", "add"} /\ lists' = lists
        /\ Become(g) \/ stack' = <<h, g>> \o Tail(stack)
    BY <1>5, <2>1 DEF add_connection_connects, In, Free, Top, conf
  <2>4. PICK old : Tries = {Top} \union old /\ Tries' = old
    BY <2>2, <2>3, TriesStep
  <2> QED BY <1>1, <2>3, <2>4
<1>6. CASE Free /\ pool_init
  <2>1. Apart(lists)'
    BY <1>6 DEF pool_init, conf, PoolInv, Configured, Apart
  <2>2. stack \in Seq(Known) /\ ToSet(stack) = {}
    BY <1>6 DEF PoolInv, Free, ToSet
  <2>3. CASE stack' = stack
    BY <2>1, <2>2, <2>3 DEF FirstList, Tries
  <2>4. ASSUME NEW f, f = Connect(lists'), Call(f) PROVE FirstList'
    <3>1. f.fn = "init" /\ ToSet(stack)' = {f}
      BY <2>2, <2>4, FrameSets DEF Connect
    <3> QED BY <3>1 DEF FirstList, Tries
  <2>5. stack' = stack \/ \E f : f = Connect(lists') /\ Call(f)
    BY <1>6 DEF pool_init, conf
  <2> QED BY <2>1, <2>3, <2>4, <2>5
<1> QED BY <1>2, <1>3, <1>4, <1>5, <1>6

\* Every step keeps the invariant.
LEMMA FlushStep ==
    ASSUME PoolInv, FlushInv, [Next]_vars, \A s \in Strings : Apart(s),
           "unread" \notin Faults, "profile" \notin Faults
    PROVE  FlushInv'
<1> USE DEF FlushInv
<1>1. CASE Elsewhere
  <2>1. Drained'
    BY <1>1, BroadcastDrains, FlushCnxDrains, FlushAllDrains, AddFlushesDrains, EventDrains, RestDrains,
       AppBroadcastDrains, AliveDrains DEF Elsewhere, Timers
  <2> QED BY <1>1, <2>1, FirstStep
<1>2. CASE init_connection
  BY <1>2, FirstStep, InitConnectionDrains
<1>3. CASE init_returns
  BY <1>3, FirstStep, InitReturnsDrains
<1>4. CASE add_connection_connects
  BY <1>4, FirstStep, AddConnectsDrains
<1>5. CASE Free /\ pool_init /\ global' = global
  <2>1. initialized' = initialized
    BY <1>5 DEF pool_init, conf
  <2> QED BY <1>5, <2>1, FirstStep, PoolInitDrains
<1>6. ASSUME NEW c \in Cnx, prelude_connection_pool_add_connection(c) PROVE FlushInv'
  BY <1>6, AddDrains
<1> HIDE DEF FlushInv
<1>7. CASE Held
  BY <1>1, <1>2, <1>3, <1>4, <1>7 DEF Held, Elsewhere
<1>8. CASE Poller
  BY <1>1, <1>5, <1>8 DEF Poller, PollReturn, Elsewhere, store
<1>9. CASE Application
  BY <1>1, <1>5, <1>6, <1>9 DEF Application, prelude_connection_pool_init, Elsewhere, store
<1>10. CASE Timers \/ Network \/ UNCHANGED vars
  BY <1>1, <1>10 DEF Elsewhere
<1> QED BY <1>7, <1>8, <1>9, <1>10 DEF Next

\* Once the mutex is released, no message waits in the failover of the pool
\* while a list is complete, whatever the application calls and in whichever
\* order connections die and come back.  This needs a failover that can be read,
\* accepted profiles (a refused one ends prelude_connection_pool_init before the
\* lists are complete), and no connection in two lists, since a connection
\* counts in one of them only.
THEOREM PoolFlushedWhenUp ==
    (/\ \A s \in Strings : Apart(s)
     /\ "unread" \notin Faults /\ "profile" \notin Faults) => (Spec => []FlushedWhenUp)
<1> SUFFICES ASSUME \A s \in Strings : Apart(s), "unread" \notin Faults, "profile" \notin Faults
             PROVE  Spec => []FlushedWhenUp
  OBVIOUS
<1>1. ASSUME Init PROVE FlushInv
  BY <1>1 DEF Init, FlushInv, Apart, FirstList, Tries, ToSet, Drained
<1>2. ASSUME PoolInv, FlushInv, [Next]_vars PROVE FlushInv'
  BY <1>2, FlushStep
<1>3. ASSUME PoolInv, FlushInv PROVE FlushedWhenUp
  <2>1. Free => \A l : ~ Covered(l)
    BY DEF Free, Covered, ToSet
  <2>2. \A l \in DOMAIN lists : dead[l] \in Nat
    BY <1>3, PooledType DEF PoolInv
  <2> QED BY <1>3, <2>1, <2>2 DEF FlushInv, Drained, FlushedWhenUp
<1> QED BY PoolInvariant, <1>1, <1>2, <1>3, PTL DEF Spec


-----------------------------------------------------------------------------
(* The order of the frames.                                                *)

\* prelude_connection_pool_init is called while nobody has the mutex, and
\* nothing is called by broadcast_message and by the flush of the failover of a
\* connection.
Shape ==
    \A i \in DOMAIN stack :
        /\ stack[i].fn = "init" => i = Len(stack)
        /\ stack[i].fn \in {"broadcast", "flush_cnx"} => i = 1

\* A sequence put behind one or two elements.
LEMMA Pushed ==
    ASSUME NEW S, NEW s \in Seq(S), NEW f \in S, NEW g \in S
    PROVE  /\ <<f>> \o s \in Seq(S) /\ Len(<<f>> \o s) = Len(s) + 1 /\ (<<f>> \o s)[1] = f
           /\ \A i \in 1 .. Len(s) : (<<f>> \o s)[i + 1] = s[i]
           /\ <<f, g>> \o s \in Seq(S) /\ Len(<<f, g>> \o s) = Len(s) + 2
           /\ (<<f, g>> \o s)[1] = f /\ (<<f, g>> \o s)[2] = g
           /\ \A i \in 1 .. Len(s) : (<<f, g>> \o s)[i + 2] = s[i]
<1>1. PICK p : p = <<f>>
  OBVIOUS
<1>2. PICK q : q = <<f, g>>
  OBVIOUS
<1>3. p \in Seq(S) /\ Len(p) = 1 /\ p[1] = f /\ q \in Seq(S) /\ Len(q) = 2 /\ q[1] = f /\ q[2] = g
  BY <1>1, <1>2
<1>4. Len(s) \in Nat
  BY LenProperties
<1>5. /\ p \o s \in Seq(S) /\ Len(p \o s) = Len(p) + Len(s)
      /\ \A i \in 1 .. Len(p) + Len(s) : (p \o s)[i] = IF i <= Len(p) THEN p[i] ELSE s[i - Len(p)]
  BY <1>3, ConcatProperties
<1>6. /\ q \o s \in Seq(S) /\ Len(q \o s) = Len(q) + Len(s)
      /\ \A i \in 1 .. Len(q) + Len(s) : (q \o s)[i] = IF i <= Len(q) THEN q[i] ELSE s[i - Len(q)]
  BY <1>3, ConcatProperties
<1>7. PICK t, u : t = p \o s /\ u = q \o s
  OBVIOUS
<1>8. Len(t) = Len(s) + 1 /\ t[1] = f /\ \A i \in 1 .. Len(s) : t[i + 1] = s[i]
  BY ONLY <1>3, <1>4, <1>5, <1>7
<1>9. Len(u) = Len(s) + 2 /\ u[1] = f /\ u[2] = g /\ \A i \in 1 .. Len(s) : u[i + 2] = s[i]
  <2>1. Len(u) = Len(s) + 2 /\ \A i \in 1 .. Len(s) + 2 : u[i] = IF i <= 2 THEN q[i] ELSE s[i - 2]
    BY ONLY <1>3, <1>4, <1>6, <1>7
  <2>2. u[1] = f /\ u[2] = g
    BY ONLY <1>3, <1>4, <2>1
  <2>3. ASSUME NEW i \in 1 .. Len(s) PROVE u[i + 2] = s[i]
    BY ONLY <1>4, <2>1, <2>3
  <2> QED BY <2>1, <2>2, <2>3
<1>10. t = <<f>> \o s /\ u = <<f, g>> \o s /\ t \in Seq(S) /\ u \in Seq(S)
  BY <1>1, <1>2, <1>5, <1>6, <1>7
<1> QED BY ONLY <1>8, <1>9, <1>10

\* The order is kept by calls, loops that go on and returns.
LEMMA ShapeKept ==
    ASSUME stack \in Seq(Known), Shape, NEW f, NEW g,
           f.fn = "init" => Free \/ Top.fn = "init", g.fn = "init" => Top.fn = "init",
           g.fn \notin {"broadcast", "flush_cnx"},
           \/ stack' = stack
           \/ Call(f) /\ (Free \/ (Top.fn = "flush_all" /\ f.fn # "init"))
           \/ ~ Free /\ (Return \/ Become(f))
           \/ ~ Free /\ f.fn # "init" /\ stack' = <<f, g>> \o Tail(stack)
    PROVE  Shape'
<1>1. PICK T : T = Known \union {f, g}
  OBVIOUS
<1>2. stack \in Seq(T) /\ f \in T /\ g \in T
  <2>1. stack \in [1 .. Len(stack) -> Known] /\ Len(stack) \in Nat
    BY LenProperties
  <2>2. stack \in [1 .. Len(stack) -> T]
    BY <1>1, <2>1
  <2> QED BY <1>1, <2>1, <2>2
<1>3. PICK n : n = Len(stack)
  OBVIOUS
<1>4. n \in Nat /\ DOMAIN stack = 1 .. n /\ (Free <=> n = 0)
  BY <1>2, <1>3, LenProperties, EmptySeq DEF Free
<1>5. CASE stack' = stack
  BY <1>5 DEF Shape
<1>6. \A i \in 1 .. n : (stack[i].fn = "init" => i = n) /\ (stack[i].fn \in {"broadcast", "flush_cnx"} => i = 1)
  BY <1>3, <1>4 DEF Shape
<1>7. CASE Call(f) /\ (Free \/ (Top.fn = "flush_all" /\ f.fn # "init"))
  <2>1. /\ stack' \in Seq(T) /\ Len(stack') = n + 1 /\ stack'[1] = f
        /\ \A i \in 1 .. n : stack'[i + 1] = stack[i]
    BY <1>2, <1>3, <1>7, Pushed DEF Call
  <2>2. DOMAIN stack' = 1 .. n + 1
    BY <2>1, LenProperties
  <2>3. Free \/ Top = stack[1]
    BY <1>2, HeadTailProperties DEF Free, Top
  <2>4. ASSUME NEW i \in 1 .. n PROVE stack[i].fn \notin {"broadcast", "flush_cnx"}
    <3>1. ~ Free /\ Top.fn = "flush_all"
      BY <1>4, <1>7, <2>4
    <3>2. stack[1].fn = "flush_all"
      BY <2>3, <3>1
    <3> QED BY <1>6, <3>2
  <2>5. ASSUME NEW j \in 1 .. n + 1
        PROVE  /\ stack'[j].fn = "init" => j = n + 1
               /\ stack'[j].fn \in {"broadcast", "flush_cnx"} => j = 1
    <3>1. CASE j = 1
      BY <1>4, <1>7, <2>1, <3>1
    <3>2. CASE j # 1
      <4>1. PICK i \in 1 .. n : j = i + 1
        BY <1>4, <3>2
      <4>2. stack'[j] = stack[i]
        BY <2>1, <4>1
      <4>3. stack'[j].fn \notin {"broadcast", "flush_cnx"} /\ (stack'[j].fn = "init" => i = n)
        BY <1>6, <2>4, <4>2
      <4> QED BY <4>1, <4>3
    <3> QED BY <3>1, <3>2
  <2> QED BY <2>1, <2>2, <2>5 DEF Shape
<1>8. CASE ~ Free
  <2>1. PICK s : s = Tail(stack)
    OBVIOUS
  <2>2. /\ s \in Seq(T) /\ Len(s) = n - 1 /\ Top = stack[1]
        /\ \A i \in 1 .. Len(s) : s[i] = stack[i + 1]
    BY <1>2, <1>3, <1>8, <2>1, HeadTailProperties DEF Free, Top
  <2>3. n >= 1
    BY <1>4, <1>8
  <2>4. ASSUME NEW i \in 1 .. n - 1
        PROVE  s[i].fn \notin {"broadcast", "flush_cnx"} /\ (s[i].fn = "init" => i = n - 1)
    <3>1. s[i] = stack[i + 1] /\ i + 1 \in 1 .. n /\ i + 1 # 1
      BY <1>4, <2>2, <2>4
    <3>2. stack[i + 1].fn \notin {"broadcast", "flush_cnx"} /\ (stack[i + 1].fn = "init" => i + 1 = n)
      BY <1>6, <3>1
    <3> QED BY <1>4, <3>1, <3>2
  <2>5. Top.fn = "init" => n = 1
    BY <1>4, <1>6, <2>2, <2>3
  <2>6. CASE Return
    <3>1. stack' = s /\ DOMAIN s = 1 .. n - 1 /\ Len(s) = n - 1
      BY <2>1, <2>2, <2>6, LenProperties DEF Return
    <3> QED BY <2>4, <3>1 DEF Shape
  <2>7. CASE Become(f)
    <3>1. /\ stack' \in Seq(T) /\ Len(stack') = n /\ stack'[1] = f
          /\ \A i \in 1 .. n - 1 : stack'[i + 1] = s[i]
      BY <1>2, <1>4, <2>1, <2>2, <2>7, Pushed DEF Become
    <3>2. DOMAIN stack' = 1 .. n
      BY <3>1, LenProperties
    <3>3. ASSUME NEW j \in 1 .. n
          PROVE  /\ stack'[j].fn = "init" => j = n
                 /\ stack'[j].fn \in {"broadcast", "flush_cnx"} => j = 1
      <4>1. CASE j = 1
        BY <1>8, <2>5, <3>1, <4>1
      <4>2. CASE j # 1
        <5>1. PICK i \in 1 .. n - 1 : j = i + 1
          BY <1>4, <4>2
        <5>2. stack'[j] = s[i]
          BY <3>1, <5>1
        <5>3. stack'[j].fn \notin {"broadcast", "flush_cnx"} /\ (stack'[j].fn = "init" => i = n - 1)
          BY <2>4, <5>2
        <5> QED BY <1>4, <5>1, <5>3
      <4> QED BY <4>1, <4>2
    <3> QED BY <3>1, <3>2, <3>3 DEF Shape
  <2>8. CASE f.fn # "init" /\ stack' = <<f, g>> \o Tail(stack)
    <3>1. /\ stack' \in Seq(T) /\ Len(stack') = n + 1 /\ stack'[1] = f /\ stack'[2] = g
          /\ \A i \in 1 .. n - 1 : stack'[i + 2] = s[i]
      BY <1>2, <1>4, <2>1, <2>2, <2>8, Pushed
    <3>2. DOMAIN stack' = 1 .. n + 1
      BY <3>1, LenProperties
    <3>3. ASSUME NEW j \in 1 .. n + 1
          PROVE  /\ stack'[j].fn = "init" => j = n + 1
                 /\ stack'[j].fn \in {"broadcast", "flush_cnx"} => j = 1
      <4>1. CASE j = 1
        BY <2>8, <3>1, <4>1
      <4>2. CASE j = 2
        BY <2>5, <3>1, <4>2
      <4>3. CASE j # 1 /\ j # 2
        <5>1. PICK i \in 1 .. n - 1 : j = i + 2
          BY <1>4, <4>3
        <5>2. stack'[j] = s[i]
          BY <3>1, <5>1
        <5>3. stack'[j].fn \notin {"broadcast", "flush_cnx"} /\ (stack'[j].fn = "init" => i = n - 1)
          BY <2>4, <5>2
        <5> QED BY <1>4, <5>1, <5>3
      <4> QED BY <4>1, <4>2, <4>3
    <3> QED BY <3>1, <3>2, <3>3 DEF Shape
  <2>9. CASE stack' = stack \/ (Call(f) /\ (Free \/ (Top.fn = "flush_all" /\ f.fn # "init")))
    BY <1>5, <1>7, <2>9
  <2> QED BY <1>8, <2>6, <2>7, <2>8, <2>9
<1> QED BY <1>5, <1>7, <1>8


\* Every step keeps the order of the frames.
LEMMA ShapeStep ==
    ASSUME PoolInv, Shape, [Next]_vars
    PROVE  Shape'
<1>0. stack \in Seq(Known)
  BY DEF PoolInv
<1> DEFINE Below(f) == f.fn \notin {"broadcast", "flush_cnx", "init"}
<1>1. /\ \A c, l, r : Below(FlushAll(l, c)) /\ Below(Handle(r)) /\ Below(Added(l)) /\ Below(Add(c))
      /\ \A c, m, w, r : FlushCnx(c).fn # "init" /\ Broadcast(m, w, r).fn # "init"
      /\ \A r : Connect(r).fn = "init"
  BY DEF FlushCnx, FlushAll, Handle, Broadcast, Added, Add, Connect
<1>2. CASE stack' = stack
  BY <1>2 DEF Shape
<1>3. ASSUME NEW f, Free, Call(f) PROVE Shape'
  <2>1. PICK g : g = Added(1)
    OBVIOUS
  <2>2. Below(g)
    BY <1>1, <2>1
  <2> QED BY <1>0, <1>3, <2>2, ShapeKept
<1>4. ASSUME NEW f, ~ Free, f.fn # "init" \/ Top.fn = "init", Return \/ Become(f) PROVE Shape'
  <2>1. PICK g : g = Added(1)
    OBVIOUS
  <2>2. Below(g)
    BY <1>1, <2>1
  <2> QED BY <1>0, <1>4, <2>2, ShapeKept
<1>5. CASE broadcast_message
  <2>1. PICK f, g : f = Broadcast(Top.msg, TRUE, Tail(Top.and)) /\ g = Broadcast(Top.msg, FALSE, Tail(Top.and))
    OBVIOUS
  <2>2. f.fn # "init" /\ g.fn # "init" /\ ~ Free
    BY <1>1, <1>5, <2>1 DEF broadcast_message, In
  <2>3. \E w \in BOOLEAN : NextSink(w)
    BY <1>5, SomeSink
  <2>4. Return \/ Become(f) \/ Become(g)
    BY <2>1, <2>3 DEF NextSink
  <2> QED BY <1>4, <2>2, <2>4
<1>6. CASE failover_flush_cnx
  <2>1. PICK f : f = FlushAll(parent(Top.cnx), Top.cnx)
    OBVIOUS
  <2>2. f.fn # "init" /\ ~ Free
    BY <1>1, <1>6, <2>1 DEF failover_flush_cnx, In
  <2>3. stack' = stack \/ Return \/ Become(f)
    BY <1>6, <2>1 DEF failover_flush_cnx, flush_cnx_ends, flush_cnx_sends, flush_cnx_fails
  <2> QED BY <1>2, <1>4, <2>2, <2>3
<1>7. CASE failover_flush_all
  <2>1. PICK f, g : f = Broadcast(Head(global), TRUE, lists[Top.list]) /\ g = Added(1)
    OBVIOUS
  <2>2. f.fn # "init" /\ Below(g) /\ ~ Free /\ Top.fn = "flush_all"
    BY <1>1, <1>7, <2>1 DEF failover_flush_all, In, Top
  <2>3. Return \/ Call(f)
    BY <1>7, <2>1 DEF failover_flush_all, flush_all_fails, flush_all_ends, flush_all_sends
  <2>4. CASE Call(f)
    BY <1>0, <2>2, <2>4, ShapeKept
  <2> QED BY <1>4, <2>2, <2>3, <2>4
<1>8. CASE init_connection
  <2>1. PICK g, h : g = Connect(After(Top.rest)) /\ h = FlushCnx(At(Top.rest))
    OBVIOUS
  <2>2. g.fn = "init" /\ h.fn # "init" /\ ~ Free /\ Top.fn = "init"
    BY <1>1, <1>8, <2>1 DEF init_connection, In, Top
  <2>3. Return \/ Become(g) \/ stack' = <<h, g>> \o Tail(stack)
    BY <1>8, <2>1 DEF init_connection, init_skips, init_connects, init_fails, init_aborts
  <2>4. CASE stack' = <<h, g>> \o Tail(stack)
    BY <1>0, <2>2, <2>4, ShapeKept
  <2> QED BY <1>4, <2>2, <2>3, <2>4
<1>9. CASE init_returns \/ PollUnlock \/ check_connection_event
  <2>1. PICK f : f = Handle(After(Top.rest))
    OBVIOUS
  <2>2. f.fn # "init" /\ ~ Free /\ (Return \/ Become(f))
    BY <1>1, <1>9, <2>1 DEF init_returns, PollUnlock, check_connection_event, In
  <2> QED BY <1>4, <2>2
<1>10. CASE add_connection_connects
  <2>1. PICK g, h : g = Added(1) /\ h = FlushCnx(Top.cnx)
    OBVIOUS
  <2>2. Below(g) /\ h.fn # "init" /\ ~ Free
    BY <1>1, <1>10, <2>1 DEF add_connection_connects, In
  <2>3. Become(g) \/ stack' = <<h, g>> \o Tail(stack)
    BY <1>10, <2>1 DEF add_connection_connects
  <2>4. CASE stack' = <<h, g>> \o Tail(stack)
    BY <1>0, <2>2, <2>4, ShapeKept
  <2> QED BY <1>4, <2>2, <2>3, <2>4
<1>11. CASE add_connection_flushes
  <2>1. PICK f : f = FlushAll(Top.list, Nobody)
    OBVIOUS
  <2>2. f.fn # "init" /\ ~ Free /\ (Return \/ Become(f))
    BY <1>1, <1>11, <2>1 DEF add_connection_flushes, In
  <2> QED BY <1>4, <2>2
<1> HIDE DEF Below
<1>12. CASE Held
  BY <1>5, <1>6, <1>7, <1>8, <1>9, <1>10, <1>11, <1>12 DEF Held
<1>13. CASE Free /\ pool_init
  BY <1>2, <1>3, <1>13 DEF pool_init
<1>14. CASE Poller
  BY <1>2, <1>3, <1>13, <1>14 DEF Poller, PollSelect, PollLock, PollReturn
<1>15. CASE Timers
  BY <1>2, <1>3, <1>15 DEF Timers, connection_timer_expire, TimerExpires
<1>16. CASE Application
  BY <1>2, <1>3, <1>13, <1>16 DEF Application, prelude_connection_pool_init, prelude_connection_pool_broadcast,
     walk_manager_lists, prelude_connection_pool_set_connection_string,
     prelude_connection_pool_set_connection_dead, prelude_connection_pool_set_connection_alive,
     prelude_connection_pool_add_connection, UserConnects
<1>17. CASE Network \/ UNCHANGED vars
  BY <1>2, <1>17 DEF Network, LinkBreaks, ManagerStarts, vars
<1> QED BY <1>12, <1>14, <1>15, <1>16, <1>17 DEF Next


\* Only the frame on top is one of broadcast_message or of the flush of the
\* failover of a connection; that of prelude_connection_pool_init is the last.
LEMMA TailQuiet ==
    ASSUME stack \in Seq(Known), Shape, stack # <<>>
    PROVE  /\ \A f \in ToSet(Tail(stack)) : f.fn \notin {"broadcast", "flush_cnx"}
           /\ Top.fn = "init" => ToSet(Tail(stack)) = {}
<1>1. PICK s, n : s = Tail(stack) /\ n = Len(stack)
  OBVIOUS
<1>2. n \in Nat /\ n # 0 /\ DOMAIN stack = 1 .. n
  BY <1>1, LenProperties, EmptySeq
<1>3. /\ s \in Seq(Known) /\ Len(s) = n - 1 /\ Top = stack[1]
      /\ \A i \in 1 .. Len(s) : s[i] = stack[i + 1]
  BY <1>1, HeadTailProperties DEF Top
<1>4. DOMAIN s = 1 .. n - 1
  BY <1>3, LenProperties
<1>5. ASSUME NEW f \in ToSet(s) PROVE f.fn \notin {"broadcast", "flush_cnx"} /\ n # 1
  <2>1. PICK i \in 1 .. n - 1 : f = s[i]
    BY <1>4 DEF ToSet
  <2>2. f = stack[i + 1] /\ i + 1 \in 1 .. n /\ i + 1 # 1
    BY <1>2, <1>3, <2>1
  <2> QED BY <1>2, <2>2 DEF Shape
<1>6. Top.fn = "init" => n = 1
  BY <1>1, <1>2, <1>3 DEF Shape
<1> QED BY <1>1, <1>5, <1>6


-----------------------------------------------------------------------------
(* The counters are never too high.                                        *)

\* No connection is twice in the lists.
Once(ls) ==
    \A k, l \in DOMAIN ls : \A i \in DOMAIN ls[k], j \in DOMAIN ls[l] :
        ls[k][i] = ls[l][j] => k = l /\ i = j

\* No connection is in two lists.
LEMMA OnceApart ==
    ASSUME NEW ls, Once(ls)
    PROVE  Apart(ls)
  BY DEF Once, Apart, ToSet

\* A loop over lists without repetition comes to every connection once.
LEMMA OnceWalk ==
    ASSUME NEW S, NEW rest \in Lists(S), rest # <<>>, Once(rest)
    PROVE  Once(After(rest)) /\ At(rest) \notin Members(After(rest))
<1>1. PICK T, h, t, n : T = Seq(S) \ {<<>>} /\ h = Head(rest) /\ t = Tail(rest) /\ n = Len(rest)
  OBVIOUS
<1>2. rest \in Seq(T) /\ n \in Nat /\ n # 0 /\ DOMAIN rest = 1 .. n
  BY <1>1, LenProperties, EmptySeq DEF Lists
<1>3. /\ h \in T /\ t \in Seq(T) /\ h = rest[1] /\ Len(t) = n - 1
      /\ \A i \in 1 .. n - 1 : t[i] = rest[i + 1]
  BY <1>1, <1>2, HeadTailProperties
<1>4. PICK a, w : a = Tail(h) /\ w = Len(h)
  OBVIOUS
<1>5. h \in Seq(S) /\ h # <<>> /\ w \in Nat /\ w # 0 /\ DOMAIN h = 1 .. w
  BY <1>1, <1>3, <1>4, LenProperties, EmptySeq
<1>6. /\ a \in Seq(S) /\ Head(h) = h[1] /\ Len(a) = w - 1 /\ DOMAIN a = 1 .. w - 1
      /\ \A i \in 1 .. w - 1 : a[i] = h[i + 1]
  BY <1>4, <1>5, HeadTailProperties, LenProperties
<1>7. DOMAIN t = 1 .. n - 1
  BY <1>3, LenProperties
<1>8. PICK e : e = After(rest)
  OBVIOUS
<1>9. At(rest) = rest[1][1] /\ 1 \in DOMAIN rest /\ 1 \in DOMAIN rest[1]
  BY <1>1, <1>2, <1>3, <1>5, <1>6 DEF At
<1>10. CASE w = 1
  <2>1. e = t
    BY <1>1, <1>4, <1>8, <1>10 DEF After
  <2>2. \A k \in DOMAIN e : k + 1 \in DOMAIN rest /\ e[k] = rest[k + 1] /\ k + 1 # 1 /\ k \in Int
    BY <1>2, <1>3, <1>7, <2>1
  <2>3. Once(e)
    <3>1. ASSUME NEW k \in DOMAIN e, NEW l \in DOMAIN e, NEW i \in DOMAIN e[k], NEW j \in DOMAIN e[l], e[k][i] = e[l][j]
          PROVE  k = l /\ i = j
      <4>1. /\ k + 1 \in DOMAIN rest /\ l + 1 \in DOMAIN rest /\ i \in DOMAIN rest[k + 1] /\ j \in DOMAIN rest[l + 1]
            /\ rest[k + 1][i] = rest[l + 1][j]
        BY <2>2, <3>1
      <4>2. k + 1 = l + 1 /\ i = j
        BY <4>1 DEF Once
      <4> QED BY <2>2, <4>2
    <3> QED BY <3>1 DEF Once
  <2>4. ASSUME At(rest) \in Members(e) PROVE FALSE
    <3>1. PICK k \in DOMAIN e : At(rest) \in ToSet(e[k])
      BY <2>4 DEF Members
    <3>2. PICK i \in DOMAIN e[k] : At(rest) = e[k][i]
      BY <3>1 DEF ToSet
    <3>3. k + 1 \in DOMAIN rest /\ i \in DOMAIN rest[k + 1] /\ rest[k + 1][i] = rest[1][1]
      BY <1>9, <2>2, <3>2
    <3>4. k + 1 = 1
      BY <1>9, <3>3 DEF Once
    <3> QED BY <2>2, <3>4
  <2> QED BY <1>8, <2>3, <2>4
<1>11. CASE w # 1
  <2>1. e = <<a>> \o t
    BY <1>1, <1>4, <1>8, <1>11 DEF After
  <2>2. a \in T
    <3>1. Len(a) # 0
      BY <1>5, <1>6, <1>11
    <3> QED BY <1>1, <1>6, <3>1, EmptySeq
  <2>3. e \in Seq(T) /\ Len(e) = (n - 1) + 1 /\ e[1] = a /\ \A i \in 1 .. n - 1 : e[i + 1] = t[i]
    BY <1>3, <2>1, <2>2, Pushed
  <2>4. DOMAIN e = 1 .. n
    BY <1>2, <2>3, LenProperties
  <2>5. ASSUME NEW k \in DOMAIN e, k # 1 PROVE e[k] = rest[k]
    <3>1. PICK i \in 1 .. n - 1 : k = i + 1
      <4>1. k \in 1 .. n /\ k # 1 /\ n \in Nat
        BY <1>2, <2>4, <2>5
      <4>2. k - 1 \in 1 .. n - 1 /\ k = (k - 1) + 1
        BY ONLY <4>1
      <4> QED BY <4>2
    <3>2. e[k] = t[i]
      BY ONLY <2>3, <3>1
    <3>3. t[i] = rest[k]
      BY <1>3, <3>1
    <3> QED BY <3>2, <3>3
  <2>6. ASSUME NEW i \in DOMAIN e[1] PROVE e[1][i] = rest[1][i + 1] /\ i + 1 \in DOMAIN rest[1] /\ i \in Int /\ i + 1 # 1
    BY <1>3, <1>5, <1>6, <2>3, <2>6
  <2>7. Once(e)
    <3>1. ASSUME NEW k \in DOMAIN e, NEW l \in DOMAIN e, NEW i \in DOMAIN e[k], NEW j \in DOMAIN e[l], e[k][i] = e[l][j]
          PROVE  k = l /\ i = j
      <4>1. k \in DOMAIN rest /\ l \in DOMAIN rest
        BY <1>2, <2>4
      <4>2. CASE k = 1 /\ l = 1
        <5>1. i + 1 = j + 1
          BY <1>9, <2>6, <3>1, <4>2 DEF Once
        <5> QED BY <2>6, <4>2, <5>1
      <4>3. CASE k = 1 /\ l # 1
        <5>1. i + 1 \in DOMAIN rest[1] /\ j \in DOMAIN rest[l] /\ rest[1][i + 1] = rest[l][j]
          BY <2>5, <2>6, <3>1, <4>3
        <5>2. l = 1
          BY <1>9, <4>1, <5>1 DEF Once
        <5> QED BY <4>3, <5>2
      <4>4. CASE k # 1 /\ l = 1
        <5>1. j + 1 \in DOMAIN rest[1] /\ i \in DOMAIN rest[k] /\ rest[1][j + 1] = rest[k][i]
          BY <2>5, <2>6, <3>1, <4>4
        <5>2. k = 1
          BY <1>9, <4>1, <5>1 DEF Once
        <5> QED BY <4>4, <5>2
      <4>5. CASE k # 1 /\ l # 1
        BY <2>5, <3>1, <4>1, <4>5 DEF Once
      <4> QED BY <4>2, <4>3, <4>4, <4>5
    <3> QED BY <3>1 DEF Once
  <2>8. ASSUME At(rest) \in Members(e) PROVE FALSE
    <3>1. PICK k \in DOMAIN e : At(rest) \in ToSet(e[k])
      BY <2>8 DEF Members
    <3>2. PICK i \in DOMAIN e[k] : At(rest) = e[k][i]
      BY <3>1 DEF ToSet
    <3>3. CASE k = 1
      <4>1. i + 1 \in DOMAIN rest[1] /\ rest[1][i + 1] = rest[1][1]
        BY <1>9, <2>6, <3>2, <3>3
      <4>2. 1 = i + 1
        BY <1>9, <4>1 DEF Once
      <4> QED BY <2>6, <3>3, <4>2
    <3>4. CASE k # 1
      <4>1. k \in DOMAIN rest /\ i \in DOMAIN rest[k] /\ rest[k][i] = rest[1][1]
        BY <1>2, <1>9, <2>4, <2>5, <3>2, <3>4
      <4>2. k = 1
        BY <1>9, <4>1 DEF Once
      <4> QED BY <3>4, <4>2
    <3> QED BY <3>3, <3>4
  <2> QED BY <1>8, <2>7, <2>8
<1> QED BY <1>10, <1>11


\* What the theorem needs: connection strings without repetition; of the calls,
\* those that change the string and report a connection dead (the others count
\* again what is counted, or count nothing); connections that are closed when
\* they fail; no handler that reports a connection dead once more; profiles that
\* are accepted.
Orderly ==
    /\ \A s \in Strings : Once(s)
    /\ Calls \subseteq {"set_string", "set_dead"}
    /\ Faults \intersect {"close", "profile", "callback"} = {}

\* The connections of the list that were tried and are down.
Down(l) == {c \in ToSet(lists[l]) : c \notin alive /\ ~ Awaited(c)}

Counts == \A l \in DOMAIN lists : dead[l] <= Cardinality(Down(l))

\* The loop of prelude_connection_pool_init tries connections once, and only
\* ones that are down; what is flushed is up; lists are not tried twice.
Trials ==
    /\ Once(lists)
    /\ initialized \/ connection_string_changed \/ Initializing
    /\ \A f \in Tries : f.fn = "init" /\ Once(f.rest)
    /\ \A c \in alive : ~ Awaited(c)

Flushing == \A f \in ToSet(stack) : f.fn = "flush_cnx" => f.cnx \in alive

OverInv == Shape /\ Trials /\ Flushing /\ Counts

\* Sizes of finite sets.
LEMMA Sizes ==
    ASSUME NEW U, IsFiniteSet(U), NEW S, S \subseteq U, NEW T, T \subseteq U, NEW x
    PROVE  /\ Cardinality(S) \in Nat /\ Cardinality(T) \in Nat
           /\ S \subseteq T => Cardinality(S) <= Cardinality(T)
           /\ S \subseteq T /\ x \in T /\ x \notin S => Cardinality(S) + 1 <= Cardinality(T)
           /\ S \ {x} \subseteq T => Cardinality(S) - 1 <= Cardinality(T)
<1>1. IsFiniteSet(S) /\ IsFiniteSet(T)
  BY FS_Subset
<1>2. Cardinality(S) \in Nat /\ Cardinality(T) \in Nat
  BY <1>1, FS_CardinalityType
<1>3. ASSUME S \subseteq T PROVE Cardinality(S) <= Cardinality(T)
  BY <1>1, <1>3, FS_Subset
<1>4. ASSUME S \subseteq T, x \in T, x \notin S PROVE Cardinality(S) + 1 <= Cardinality(T)
  <2>1. IsFiniteSet(S \union {x}) /\ Cardinality(S \union {x}) = Cardinality(S) + 1
    BY <1>1, <1>4, FS_AddElement
  <2>2. S \union {x} \in SUBSET T
    BY <1>4
  <2>3. Cardinality(S \union {x}) <= Cardinality(T)
    BY <1>1, <2>2, FS_Subset
  <2> QED BY <2>1, <2>3
<1>5. ASSUME S \ {x} \subseteq T PROVE Cardinality(S) - 1 <= Cardinality(T)
  <2>1. IsFiniteSet(S \ {x}) /\ (Cardinality(S \ {x}) = Cardinality(S) - 1 \/ Cardinality(S \ {x}) = Cardinality(S))
    BY <1>1, FS_RemoveElement
  <2>2. Cardinality(S \ {x}) <= Cardinality(T)
    BY <1>1, <1>5, FS_Subset
  <2> QED BY <1>2, <2>1, <2>2
<1> QED BY <1>2, <1>3, <1>4, <1>5

\* The elements of a sequence are finitely many.
LEMMA ToSetFinite ==
    ASSUME NEW S, NEW s \in Seq(S)
    PROVE  IsFiniteSet(ToSet(s))
<1>1. PICK n : n = Len(s)
  OBVIOUS
<1>2. n \in Nat /\ DOMAIN s = 1 .. n /\ s \in [1 .. n -> S]
  BY <1>1, LenProperties
<1>3. s \in Surjection(1 .. n, ToSet(s))
  BY <1>2 DEF Surjection, ToSet
<1>4. IsFiniteSet(1 .. n)
  BY <1>2, FS_Interval
<1> QED BY <1>3, <1>4, FS_Surjection

\* How the size of the set of connections that are down can change.
LEMMA DownSizes ==
    ASSUME PoolInv, lists' = lists, NEW l \in DOMAIN lists, NEW c
    PROVE  /\ Cardinality(Down(l)) \in Nat /\ Cardinality(Down(l)') \in Nat
           /\ Down(l) \subseteq Down(l)' => Cardinality(Down(l)) <= Cardinality(Down(l)')
           /\ Down(l) \subseteq Down(l)' /\ c \in Down(l)' /\ c \notin Down(l)
                => Cardinality(Down(l)) + 1 <= Cardinality(Down(l)')
           /\ Down(l) \ {c} \subseteq Down(l)' => Cardinality(Down(l)) - 1 <= Cardinality(Down(l)')
<1>1. PICK U, S, T : U = ToSet(lists[l]) /\ S = Down(l) /\ T = Down(l)'
  OBVIOUS
<1>2. lists[l] \in Seq(Pooled)
  BY PooledType DEF PoolInv
<1>3. IsFiniteSet(U)
  BY <1>1, <1>2, ToSetFinite
<1>4. S \subseteq U /\ T \subseteq U
  BY <1>1 DEF Down
<1>5. /\ Cardinality(S) \in Nat /\ Cardinality(T) \in Nat
      /\ S \subseteq T => Cardinality(S) <= Cardinality(T)
      /\ S \subseteq T /\ c \in T /\ c \notin S => Cardinality(S) + 1 <= Cardinality(T)
      /\ S \ {c} \subseteq T => Cardinality(S) - 1 <= Cardinality(T)
  BY ONLY <1>3, <1>4, Sizes
<1> QED BY <1>1, <1>5

\* A connection that was up, or still to be tried, dies and is counted.
LEMMA CountsDead ==
    ASSUME PoolInv, Once(lists), Counts, lists' = lists, NEW c \in Pooled, set_state_dead(c),
           alive' = alive \ {c}, c \in alive \/ Awaited(c), ~ Awaited(c)',
           \A d : Awaited(d)' => Awaited(d)
    PROVE  Counts'
<1>1. ASSUME NEW l \in DOMAIN lists PROVE dead'[l] <= Cardinality(Down(l)')
  <2>1. Down(l) \subseteq Down(l)'
    BY DEF Down
  <2>2. dead[l] \in Nat /\ dead[l] <= Cardinality(Down(l)) /\ Cardinality(Down(l)) \in Nat /\ Cardinality(Down(l)') \in Nat
    BY PooledType, DownSizes DEF Counts, PoolInv
  <2>3. CASE l = parent(c)
    <3>1. c \in ToSet(lists[l])
      BY <2>3, ParentType
    <3>2. c \in Down(l)' /\ c \notin Down(l)
      BY <3>1 DEF Down
    <3>3. Cardinality(Down(l)) + 1 <= Cardinality(Down(l)')
      BY <2>1, <3>2, DownSizes
    <3>4. dead'[l] = dead[l] + 1
      BY <2>3, DeadCounts DEF PoolInv
    <3> QED BY <2>2, <3>3, <3>4
  <2>4. CASE l # parent(c)
    <3>1. dead'[l] = dead[l]
      BY <2>4, DeadCounts DEF PoolInv
    <3>2. Cardinality(Down(l)) <= Cardinality(Down(l)')
      BY <2>1, DownSizes
    <3> QED BY <2>2, <3>1, <3>2
  <2> QED BY <2>3, <2>4
<1> QED BY <1>1 DEF Counts

\* A connection comes up: it was counted once, or not at all.
LEMMA CountsAlive ==
    ASSUME PoolInv, Once(lists), Counts, lists' = lists, NEW c \in Pooled, set_state_alive(c),
           alive' = alive \union {c}, \A d : Awaited(d)' => Awaited(d)
    PROVE  Counts'
<1>0. Apart(lists)
  BY OnceApart
<1>1. ASSUME NEW l \in DOMAIN lists PROVE dead'[l] <= Cardinality(Down(l)')
  <2>1. dead[l] \in Nat /\ dead[l] <= Cardinality(Down(l)) /\ Cardinality(Down(l)) \in Nat /\ Cardinality(Down(l)') \in Nat
    BY PooledType, DownSizes DEF Counts, PoolInv
  <2>2. CASE l = parent(c)
    <3>1. Down(l) \ {c} \subseteq Down(l)'
      BY DEF Down
    <3>2. Cardinality(Down(l)) - 1 <= Cardinality(Down(l)')
      BY <3>1, DownSizes
    <3>3. dead'[l] = IF dead[l] > 0 THEN dead[l] - 1 ELSE 0
      BY <2>2, AliveCounts DEF PoolInv
    <3> QED BY <2>1, <3>2, <3>3
  <2>3. CASE l # parent(c)
    <3>1. c \notin ToSet(lists[l])
      BY <1>0, <2>3, Parent
    <3>2. Down(l) \subseteq Down(l)'
      BY <3>1 DEF Down
    <3>3. Cardinality(Down(l)) <= Cardinality(Down(l)')
      BY <3>2, DownSizes
    <3>4. dead'[l] = dead[l]
      BY <2>3, AliveCounts DEF PoolInv
    <3> QED BY <2>1, <3>3, <3>4
  <2> QED BY <2>2, <2>3
<1> QED BY <1>1 DEF Counts

\* No connection comes up and the counters stay.
LEMMA CountsSame ==
    ASSUME PoolInv, Counts, lists' = lists, dead' = dead, alive' \subseteq alive,
           \A d : Awaited(d)' => Awaited(d)
    PROVE  Counts'
<1>1. ASSUME NEW l \in DOMAIN lists PROVE dead'[l] <= Cardinality(Down(l)')
  <2>1. Down(l) \subseteq Down(l)'
    BY DEF Down
  <2>2. Cardinality(Down(l)) <= Cardinality(Down(l)')
    BY <2>1, DownSizes
  <2>3. dead[l] \in Nat /\ dead[l] <= Cardinality(Down(l)) /\ Cardinality(Down(l)) \in Nat /\ Cardinality(Down(l)') \in Nat
    BY PooledType, DownSizes DEF Counts, PoolInv
  <2> QED BY <2>2, <2>3
<1> QED BY <1>1 DEF Counts


\* What can happen to the connections outside of prelude_connection_pool_init.
LEMMA Lives ==
    ASSUME PoolInv, Shape, Flushing, Orderly, Elsewhere
    PROVE  \/ alive' \subseteq alive /\ dead' = dead
           \/ \E c \in Pooled : c \in alive /\ set_state_dead(c) /\ alive' = alive \ {c}
           \/ Free /\ \E c \in Pooled : set_state_alive(c) /\ alive' = alive \union {c}
<1>0. \A c : set_state_dead(c) => alive' = alive \ {c}
  BY DEF set_state_dead, Orderly
<1>1. CASE broadcast_message
  <2>1. PICK c : c = Head(Top.and)
    OBVIOUS
  <2>2. c \in Pooled
    BY <1>1, <2>1, SinkFacts DEF PoolInv, broadcast_message
  <2>3. broadcast_sends(c) \/ broadcast_fails(c) \/ broadcast_saves(c)
    BY <1>1, <2>1 DEF broadcast_message
  <2> QED BY <1>0, <2>2, <2>3 DEF broadcast_sends, broadcast_fails, broadcast_saves, cnxs
<1>2. CASE failover_flush_cnx
  <2>1. PICK c : c = Top.cnx
    OBVIOUS
  <2>2. stack \in Seq(Known) /\ stack # <<>> /\ Top.fn = "flush_cnx"
    BY <1>2 DEF PoolInv, failover_flush_cnx, In, Free, Top
  <2>3. c \in Pooled /\ Top \in ToSet(stack)
    BY <2>1, <2>2, TopType, FrameSets
  <2>4. c \in alive
    BY <2>1, <2>2, <2>3 DEF Flushing
  <2>5. flush_cnx_ends(c) \/ flush_cnx_sends(c) \/ flush_cnx_fails(c)
    BY <1>2, <2>1 DEF failover_flush_cnx
  <2> QED BY <1>0, <2>3, <2>4, <2>5 DEF flush_cnx_ends, flush_cnx_sends, flush_cnx_fails, cnxs
<1>3. CASE check_connection_event
  <2>1. PICK c : c = At(Top.rest)
    OBVIOUS
  <2>2. stack \in Seq(Known) /\ stack # <<>> /\ Top.fn = "poll" /\ Top.rest # <<>>
    BY <1>3 DEF PoolInv, check_connection_event, In, Free, Top
  <2>3. c \in Pooled
    BY <2>1, <2>2, TopType, Walk
  <2>4. event_skips(c) \/ event_is_handled(c) \/ event_fails(c)
    BY <1>3, <2>1 DEF check_connection_event, event_kills, Orderly
  <2> QED BY <1>0, <2>3, <2>4 DEF event_skips, event_is_handled, event_fails, HasEvent, cnxs
<1>4. CASE Timers
  <2>1. CASE connection_timer_expire
    <3>1. firing \in Pooled /\ Free
      BY <2>1, PoolAssumption DEF connection_timer_expire, PoolInv, Waiting
    <3> QED BY <2>1, <3>1 DEF connection_timer_expire, prelude_connection_connect, connect_fails
  <2> QED BY <1>4, <2>1 DEF Timers, TimerExpires, cnxs
<1>5. CASE \E c \in Cnx : \/ prelude_connection_pool_set_connection_dead(c)
                          \/ prelude_connection_pool_set_connection_alive(c)
                          \/ UserConnects(c)
  BY <1>0, <1>5 DEF Orderly, prelude_connection_pool_set_connection_dead,
     prelude_connection_pool_set_connection_alive, UserConnects
<1>6. CASE \/ failover_flush_all \/ add_connection_flushes \/ PollUnlock \/ PollSelect \/ PollLock \/ Network
           \/ (PollReturn /\ ~ connection_string_changed) \/ UNCHANGED vars
  BY <1>6 DEF failover_flush_all, add_connection_flushes, PollUnlock, PollSelect, PollLock, PollReturn,
     Network, LinkBreaks, ManagerStarts, vars, cnxs
<1>7. CASE \/ \E m \in Msg : prelude_connection_pool_broadcast(m)
           \/ \E str \in Strings : prelude_connection_pool_set_connection_string(str)
  BY <1>7 DEF prelude_connection_pool_broadcast, prelude_connection_pool_set_connection_string, cnxs
<1> QED BY <1>1, <1>2, <1>3, <1>4, <1>5, <1>6, <1>7 DEF Elsewhere

\* The connection whose failover is flushed is up: nothing else happens to it
\* before the flush ends.
LEMMA FlushingStep ==
    ASSUME PoolInv, Shape, Flushing, Orderly, Elsewhere
    PROVE  Flushing'
<1>0. stack \in Seq(Known)
  BY DEF PoolInv
<1>1. ASSUME Free, stack' = stack PROVE Flushing'
  BY <1>1 DEF Flushing, Free, ToSet
<1>2. ASSUME alive' = alive, stack' = stack PROVE Flushing'
  BY <1>2 DEF Flushing
<1>3. ASSUME Free, NEW f, f.fn = "flush_cnx" => f.cnx \in alive', Call(f) PROVE Flushing'
  <2>1. ToSet(stack)' = {f} \union ToSet(stack) /\ ToSet(stack) = {}
    BY <1>0, <1>3, FrameSets DEF Free, ToSet
  <2> QED BY <1>3, <2>1 DEF Flushing
<1>4. ASSUME stack # <<>>, NEW f, f.fn # "flush_cnx", Return \/ Become(f) PROVE Flushing'
  <2>1. \A g \in ToSet(Tail(stack)) : g.fn # "flush_cnx"
    BY <1>0, <1>4, TailQuiet
  <2>2. CASE Return
    BY <2>1, <2>2 DEF Flushing, Return
  <2>3. CASE Become(f)
    <3>1. ToSet(stack)' = {f} \union ToSet(Tail(stack))
      BY <1>0, <1>4, <2>3, FrameSets
    <3> QED BY <1>4, <2>1, <3>1 DEF Flushing
  <2> QED BY <1>4, <2>2, <2>3
<1>5. CASE broadcast_message
  <2>1. PICK f, g : f = Broadcast(Top.msg, TRUE, Tail(Top.and)) /\ g = Broadcast(Top.msg, FALSE, Tail(Top.and))
    OBVIOUS
  <2>2. f.fn # "flush_cnx" /\ g.fn # "flush_cnx" /\ stack # <<>>
    BY <1>5, <2>1 DEF Broadcast, broadcast_message, In, Free
  <2>3. Return \/ Become(f) \/ Become(g)
    BY <1>5, <2>1, SomeSink DEF NextSink
  <2> QED BY <1>4, <2>2, <2>3
<1>6. CASE failover_flush_cnx
  <2>1. PICK f : f = FlushAll(parent(Top.cnx), Top.cnx)
    OBVIOUS
  <2>2. f.fn # "flush_cnx" /\ stack # <<>>
    BY <1>6, <2>1 DEF FlushAll, failover_flush_cnx, In, Free
  <2>3. Return \/ Become(f) \/ (stack' = stack /\ alive' = alive)
    BY <1>6, <2>1 DEF failover_flush_cnx, flush_cnx_ends, flush_cnx_sends, flush_cnx_fails, cnxs
  <2> QED BY <1>2, <1>4, <2>2, <2>3
<1>7. CASE failover_flush_all
  <2>1. PICK f : f = Broadcast(Head(global), TRUE, lists[Top.list])
    OBVIOUS
  <2>2. f.fn # "flush_cnx" /\ stack # <<>> /\ Top.fn = "flush_all"
    BY <1>7, <2>1 DEF Broadcast, failover_flush_all, In, Free, Top
  <2>3. Return \/ Call(f)
    BY <1>7, <2>1 DEF failover_flush_all, flush_all_fails, flush_all_ends, flush_all_sends
  <2>4. CASE Call(f)
    <3>1. ToSet(stack)' = {f} \union ToSet(stack) /\ ToSet(stack) = {Top} \union ToSet(Tail(stack))
      BY <1>0, <2>2, <2>4, FrameSets
    <3>2. \A g \in ToSet(Tail(stack)) : g.fn # "flush_cnx"
      BY <1>0, <2>2, TailQuiet
    <3> QED BY <2>2, <3>1, <3>2 DEF Flushing
  <2> QED BY <1>4, <2>2, <2>3, <2>4
<1>8. CASE check_connection_event \/ PollUnlock
  <2>1. PICK f : f = Handle(After(Top.rest))
    OBVIOUS
  <2>2. f.fn # "flush_cnx" /\ stack # <<>> /\ (Return \/ Become(f))
    BY <1>8, <2>1 DEF Handle, check_connection_event, PollUnlock, In, Free
  <2> QED BY <1>4, <2>2
<1>9. CASE add_connection_flushes
  <2>1. PICK f : f = FlushAll(Top.list, Nobody)
    OBVIOUS
  <2>2. f.fn # "flush_cnx" /\ stack # <<>> /\ (Return \/ Become(f))
    BY <1>9, <2>1 DEF FlushAll, add_connection_flushes, In, Free
  <2> QED BY <1>4, <2>2
<1>10. CASE PollLock
  <2>1. PICK f : f = Handle(lists)
    OBVIOUS
  <2>2. f.fn # "flush_cnx" /\ Free /\ Call(f)
    BY <1>10, <2>1 DEF Handle, PollLock
  <2> QED BY <1>3, <2>2
<1>11. CASE Timers
  <2>1. PICK f : f = FlushCnx(firing)
    OBVIOUS
  <2>2. f.cnx = firing
    BY <2>1 DEF FlushCnx
  <2>3. CASE connection_timer_expire
    <3>1. Free /\ (stack' = stack \/ (Call(f) /\ firing \in alive'))
      BY <2>1, <2>3 DEF connection_timer_expire, prelude_connection_connect
    <3> QED BY <1>1, <1>3, <2>2, <3>1
  <2> QED BY <1>2, <1>11, <2>3 DEF Timers, TimerExpires, cnxs
<1>12. ASSUME NEW m \in Msg, prelude_connection_pool_broadcast(m) PROVE Flushing'
  <2>1. Free
    BY <1>12 DEF prelude_connection_pool_broadcast
  <2>2. ASSUME NEW l \in DOMAIN lists, Call(Broadcast(m, TRUE, lists[l])) PROVE Flushing'
    <3>1. PICK f : f = Broadcast(m, TRUE, lists[l])
      OBVIOUS
    <3>2. f.fn # "flush_cnx" /\ Call(f)
      BY <2>2, <3>1 DEF Broadcast
    <3> QED BY <1>3, <2>1, <3>2
  <2> QED BY <1>1, <1>12, <2>1, <2>2 DEF prelude_connection_pool_broadcast, walk_manager_lists
<1>13. CASE \/ PollSelect \/ Network \/ UNCHANGED vars \/ (PollReturn /\ ~ connection_string_changed)
            \/ \E str \in Strings : prelude_connection_pool_set_connection_string(str)
            \/ \E c \in Cnx : prelude_connection_pool_set_connection_dead(c) \/ UserConnects(c)
  BY <1>1, <1>2, <1>13 DEF PollSelect, Network, LinkBreaks, ManagerStarts, vars, cnxs, PollReturn, UserConnects,
     prelude_connection_pool_set_connection_string, prelude_connection_pool_set_connection_dead
<1>14. ASSUME NEW c \in Cnx, prelude_connection_pool_set_connection_alive(c) PROVE Flushing'
  BY <1>14 DEF prelude_connection_pool_set_connection_alive, Orderly
<1> QED BY <1>5, <1>6, <1>7, <1>8, <1>9, <1>10, <1>11, <1>12, <1>13, <1>14 DEF Elsewhere

\* Outside of prelude_connection_pool_init.
LEMMA ElsewhereCounts ==
    ASSUME PoolInv, OverInv, Orderly, Elsewhere
    PROVE  Trials' /\ Flushing' /\ Counts'
<1>1. lists' = lists /\ initialized' = initialized /\ Tries' = Tries
  BY Untried
<1>2. \A c : Awaited(c)' <=> Awaited(c)
  BY <1>1 DEF Awaited
<1>3. Shape /\ Trials /\ Flushing /\ Counts
  BY DEF OverInv
<1>4. connection_string_changed => connection_string_changed'
  BY DEF Elsewhere, broadcast_message, failover_flush_cnx, failover_flush_all, add_connection_flushes,
     check_connection_event, PollUnlock, PollSelect, PollLock, PollReturn, Timers,
     connection_timer_expire, TimerExpires, Network, LinkBreaks, ManagerStarts,
     prelude_connection_pool_broadcast, prelude_connection_pool_set_connection_string,
     prelude_connection_pool_set_connection_dead, prelude_connection_pool_set_connection_alive,
     UserConnects, vars, conf
<1>5. Flushing'
  BY <1>3, FlushingStep
<1>6. \/ alive' \subseteq alive /\ dead' = dead
      \/ \E c \in Pooled : c \in alive /\ set_state_dead(c) /\ alive' = alive \ {c}
      \/ Free /\ \E c \in Pooled : set_state_alive(c) /\ alive' = alive \union {c}
  BY <1>3, Lives
<1>7. \A c \in alive' : ~ Awaited(c)
  <2>1. Free => \A c : ~ Awaited(c)
    BY DEF Free, Awaited, Tries, ToSet
  <2> QED BY <1>3, <1>6, <2>1 DEF Trials
<1>8. Trials'
  BY <1>1, <1>2, <1>3, <1>4, <1>7 DEF Trials, Initializing
<1>9. Once(lists) /\ \A c \in alive : ~ Awaited(c)
  BY <1>3 DEF Trials
<1>10. Counts'
  <2>1. CASE alive' \subseteq alive /\ dead' = dead
    BY <1>1, <1>2, <1>3, <2>1, CountsSame
  <2>2. ASSUME NEW c \in Pooled, c \in alive, set_state_dead(c), alive' = alive \ {c} PROVE Counts'
    <3>1. ~ Awaited(c)'
      BY <1>2, <1>9, <2>2
    <3> QED BY <1>1, <1>2, <1>3, <1>9, <2>2, <3>1, CountsDead
  <2>3. ASSUME NEW c \in Pooled, set_state_alive(c), alive' = alive \union {c} PROVE Counts'
    BY <1>1, <1>2, <1>3, <1>9, <2>3, CountsAlive
  <2> QED BY <1>6, <2>1, <2>2, <2>3
<1> QED BY <1>5, <1>8, <1>10


\* prelude_connection_pool_init begins: the lists are new, all of their
\* connections are down and nothing is counted.
LEMMA PoolInitCounts ==
    ASSUME PoolInv, Orderly, Free, connection_string_changed, pool_init
    PROVE  Trials' /\ Flushing' /\ Counts'
<1>1. PICK s, f : s = connection_string /\ f = Connect(s)
  OBVIOUS
<1>2. /\ f.fn = "init" /\ f.rest = s /\ lists' = s /\ Call(f)
      /\ alive' = alive \ (Pooled \union Members(s)) /\ dead' = [l \in DOMAIN s |-> 0]
  BY <1>1 DEF pool_init, Connect
<1>3. ToSet(stack)' = {f}
  <2>1. ToSet(stack)' = {f} \union ToSet(stack)
    BY <1>2, FrameSets DEF PoolInv
  <2> QED BY <2>1 DEF Free, ToSet
<1>4. Tries' = {f} /\ Initializing'
  BY <1>2, <1>3 DEF Tries, Initializing
<1>5. s \in Strings /\ Once(s) /\ s \in Lists(Cnx)
  BY <1>1, StringsAssumption DEF PoolInv, Configured, Orderly, Lists
<1>6. \A c : Awaited(c)' <=> c \in Members(s)
  BY <1>2, <1>4 DEF Awaited
<1>7. Trials'
  BY <1>2, <1>4, <1>5, <1>6 DEF Trials
<1>8. Flushing'
  BY <1>2, <1>3 DEF Flushing
<1>9. ASSUME NEW l \in DOMAIN s PROVE dead'[l] <= Cardinality(Down(l)')
  <2>1. PICK D, q : D = Down(l)' /\ q = s[l]
    OBVIOUS
  <2>2. q \in Seq(Cnx)
    BY <1>5, <2>1, ElementOfSeq, LenProperties DEF Lists
  <2>3. IsFiniteSet(ToSet(q))
    BY <2>2, ToSetFinite
  <2>4. D \subseteq ToSet(q)
    BY <1>2, <2>1 DEF Down
  <2>5. Cardinality(D) \in Nat
    BY <2>3, <2>4, FS_Subset, FS_CardinalityType
  <2> QED BY <1>2, <2>1, <2>5
<1> QED BY <1>2, <1>7, <1>8, <1>9 DEF Counts

\* prelude_connection_pool_init tries a connection that is down, once, and goes
\* on to the others.
InitTries(c) ==
    /\ c \notin alive /\ Awaited(c) /\ lists' = lists /\ Initializing
    /\ init_connects(c) \/ init_fails(c)
    /\ \A d : Awaited(d)' <=> Awaited(d) /\ d # c
    /\ \E g, h : /\ g.fn = "init" /\ Once(g.rest) /\ h.fn = "flush_cnx" /\ h.cnx = c
                 /\ ToSet(stack)' = {g} \/ (ToSet(stack)' = {h, g} /\ init_connects(c))

LEMMA InitTrial ==
    ASSUME PoolInv, OverInv, Orderly, init_connection
    PROVE  \E c \in Pooled : InitTries(c)
<1>1. PICK r : r = Top.rest
  OBVIOUS
<1>2. PICK c : c = At(r)
  OBVIOUS
<1>3. PICK g, h : g = Connect(After(r)) /\ h = FlushCnx(c)
  OBVIOUS
<1>4. g.fn = "init" /\ g.rest = After(r) /\ h.fn = "flush_cnx" /\ h.cnx = c
  BY <1>3 DEF Connect, FlushCnx
<1>5. /\ stack \in Seq(Known) /\ stack # <<>> /\ Top.fn = "init" /\ r # <<>> /\ lists' = lists
      /\ init_skips(c) \/ init_connects(c) \/ init_fails(c) \/ init_aborts(c)
  BY <1>1, <1>2 DEF init_connection, In, Free, Top, conf, PoolInv
<1>6. Shape /\ Trials /\ Counts
  BY DEF OverInv
<1>7. ToSet(stack) = {Top}
  <2>1. ToSet(stack) = {Top} \union ToSet(Tail(stack)) /\ ToSet(Tail(stack)) = {}
    BY <1>5, <1>6, FrameSets, TailQuiet
  <2> QED BY <2>1
<1>8. Tries = {Top} /\ Once(r)
  BY <1>1, <1>5, <1>6, <1>7 DEF Tries, Trials
<1>9. r \in Lists(Pooled)
  BY <1>1, <1>5, TopType
<1>10. /\ c \in Pooled /\ Members(r) = {c} \union Members(After(r))
       /\ Once(After(r)) /\ c \notin Members(After(r))
  BY <1>2, <1>5, <1>8, <1>9, Walk, OnceWalk
<1>11. \A d : Awaited(d) <=> d \in Members(r)
  BY <1>1, <1>5, <1>8 DEF Awaited
<1>12. c \notin alive
  BY <1>6, <1>10, <1>11 DEF Trials
<1>13. init_connects(c) \/ init_fails(c)
  BY <1>5, <1>12 DEF init_skips, init_aborts, Orderly
<1>14. ToSet(stack)' = {g} \/ (ToSet(stack)' = {h, g} /\ init_connects(c))
  <2>1. ToSet(Tail(stack)) = {}
    BY <1>5, <1>6, TailQuiet
  <2>2. CASE init_connects(c)
    <3>1. stack' = <<h, g>> \o Tail(stack)
      BY <1>1, <1>3, <2>2 DEF init_connects
    <3>2. ToSet(stack)' = {h, g} \union ToSet(Tail(stack))
      BY <1>5, <3>1, FrameSets
    <3> QED BY <2>1, <2>2, <3>2
  <2>3. CASE init_fails(c)
    <3>1. Become(g)
      BY <1>1, <1>3, <2>3 DEF init_fails
    <3>2. ToSet(stack)' = {g} \union ToSet(Tail(stack))
      BY <1>5, <3>1, FrameSets
    <3> QED BY <2>1, <3>2
  <2> QED BY <1>13, <2>2, <2>3
<1>15. Tries' = {g}
  BY <1>4, <1>14 DEF Tries
<1>16. \A d : Awaited(d)' <=> d \in Members(After(r))
  BY <1>4, <1>15 DEF Awaited
<1>17. \A d : Awaited(d)' <=> Awaited(d) /\ d # c
  BY <1>10, <1>11, <1>16
<1>18. Initializing /\ Awaited(c)
  BY <1>5, <1>8, <1>10, <1>11 DEF Initializing
<1>19. InitTries(c)
  BY <1>4, <1>5, <1>10, <1>12, <1>13, <1>14, <1>17, <1>18 DEF InitTries
<1> QED BY <1>10, <1>19

\* It is counted when it is down.
LEMMA InitConnectionCounts ==
    ASSUME PoolInv, OverInv, Orderly, init_connection
    PROVE  Trials' /\ Flushing' /\ Counts'
<1>1. PICK c \in Pooled : InitTries(c)
  BY InitTrial
<1>2. Awaited(c) /\ lists' = lists /\ (init_connects(c) \/ init_fails(c))
  BY <1>1 DEF InitTries
<1>3. ~ Awaited(c)' /\ \A d : Awaited(d)' => Awaited(d)
  BY <1>1 DEF InitTries
<1>4. PICK g, h : /\ g.fn = "init" /\ Once(g.rest) /\ h.fn = "flush_cnx" /\ h.cnx = c
                  /\ ToSet(stack)' = {g} \/ (ToSet(stack)' = {h, g} /\ init_connects(c))
  BY <1>1 DEF InitTries
<1>5. Tries' = {g} /\ Initializing'
  BY <1>4 DEF Tries, Initializing
<1>6. Shape /\ Trials /\ Counts /\ Once(lists)
  BY DEF OverInv, Trials
<1>7. alive' = alive \union {c} \/ alive' \subseteq alive
  BY <1>2 DEF init_connects, init_fails, prelude_connection_connect, set_state_dead, Orderly
<1>8. Trials'
  <2>1. \A d \in alive' : ~ Awaited(d)'
    BY <1>3, <1>6, <1>7 DEF Trials
  <2> QED BY <1>2, <1>4, <1>5, <1>6, <2>1 DEF Trials
<1>9. Flushing'
  <2>1. init_connects(c) => c \in alive'
    BY DEF init_connects, prelude_connection_connect
  <2> QED BY <1>4, <2>1 DEF Flushing
<1>10. CASE init_connects(c)
  <2>1. set_state_alive(c) /\ alive' = alive \union {c}
    BY <1>10 DEF init_connects, prelude_connection_connect
  <2>2. Counts'
    BY <1>2, <1>3, <1>6, <2>1, CountsAlive
  <2> QED BY <1>8, <1>9, <2>2
<1>11. CASE init_fails(c)
  <2>1. set_state_dead(c) /\ alive' = alive \ {c}
    BY <1>11 DEF init_fails, set_state_dead, Orderly
  <2>2. Counts'
    BY <1>2, <1>3, <1>6, <2>1, CountsDead
  <2> QED BY <1>8, <1>9, <2>2
<1> QED BY <1>2, <1>10, <1>11

\* prelude_connection_pool_init returns.
LEMMA InitReturnsCounts ==
    ASSUME PoolInv, OverInv, init_returns
    PROVE  Trials' /\ Flushing' /\ Counts'
<1>1. /\ stack \in Seq(Known) /\ stack # <<>> /\ Top.fn = "init" /\ Top.rest = <<>> /\ Return
      /\ lists' = lists /\ initialized' /\ dead' = dead /\ alive' = alive
  BY DEF init_returns, In, Free, Top, cnxs, PoolInv
<1>2. Shape /\ Trials /\ Counts
  BY DEF OverInv
<1>3. ToSet(stack)' = {}
  BY <1>1, <1>2, TailQuiet DEF Return
<1>4. Tries' = {} /\ \A d : ~ Awaited(d)'
  BY <1>3 DEF Tries, Awaited
<1>5. Trials'
  BY <1>1, <1>2, <1>4 DEF Trials
<1>6. Flushing'
  BY <1>3 DEF Flushing
<1>7. Counts'
  BY <1>1, <1>2, <1>4, CountsSame
<1> QED BY <1>5, <1>6, <1>7

\* The steps there are.
LEMMA OverCases ==
    ASSUME PoolInv, OverInv, Orderly, [Next]_vars
    PROVE  \/ Elsewhere \/ init_connection \/ init_returns
           \/ Free /\ connection_string_changed /\ pool_init
<1> DEFINE Goal == Elsewhere \/ init_connection \/ init_returns \/ (Free /\ connection_string_changed /\ pool_init)
<1>1. CASE prelude_connection_pool_init
  <2>1. Free /\ ~ initialized /\ pool_init
    BY <1>1 DEF prelude_connection_pool_init, Orderly
  <2>2. ~ Initializing
    BY <2>1 DEF Initializing, Tries, Free, ToSet
  <2>3. connection_string_changed
    BY <2>1, <2>2 DEF OverInv, Trials
  <2> QED BY <2>1, <2>3
<1>2. ~ add_connection_connects
  <2>1. ASSUME add_connection_connects PROVE FALSE
    <3>1. stack \in Seq(Known) /\ stack # <<>> /\ Top.fn = "add"
      BY <2>1 DEF PoolInv, add_connection_connects, In, Free, Top
    <3>2. Top \in Tries
      BY <3>1, FrameSets DEF Tries
    <3> QED BY <3>1, <3>2 DEF OverInv, Trials
  <2> QED BY <2>1
<1>3. \A c \in Cnx : ~ prelude_connection_pool_add_connection(c)
  BY DEF prelude_connection_pool_add_connection, Orderly
<1>4. CASE Held
  BY <1>2, <1>4 DEF Held, Elsewhere
<1>5. CASE Poller
  BY <1>5 DEF Poller, PollReturn, Elsewhere
<1>6. CASE Application
  BY <1>1, <1>3, <1>6 DEF Application, Elsewhere
<1>7. CASE Timers \/ Network \/ UNCHANGED vars
  BY <1>7 DEF Elsewhere
<1> QED BY <1>4, <1>5, <1>6, <1>7 DEF Next

\* Every step keeps the invariant.
LEMMA OverStep ==
    ASSUME PoolInv, OverInv, Orderly, [Next]_vars
    PROVE  OverInv'
<1>1. Shape'
  BY ShapeStep DEF OverInv
<1>2. Trials' /\ Flushing' /\ Counts'
  BY OverCases, ElsewhereCounts, InitConnectionCounts, InitReturnsCounts, PoolInitCounts
<1> QED BY <1>1, <1>2 DEF OverInv

\* It holds at first.
LEMMA OverInitially ==
    ASSUME Init, Orderly
    PROVE  OverInv
<1>1. connection_string_changed
  BY DEF Init, Orderly
<1>2. lists = <<>> /\ ToSet(stack) = {} /\ Tries = {} /\ alive = {} /\ stack = <<>>
  BY DEF Init, Tries, ToSet
<1>3. Trials
  BY <1>1, <1>2 DEF Trials, Once
<1>4. Shape /\ Flushing /\ Counts
  BY <1>2 DEF Shape, Flushing, Counts
<1> QED BY <1>3, <1>4 DEF OverInv

\* The counter of a list never exceeds the number of its connections that are
\* down, in whichever order connections die, are reported dead, come back and
\* are replaced: each is counted when it goes down, once.
THEOREM PoolNeverOvercounts == Orderly => (Spec => []NeverOvercounts)
<1> SUFFICES ASSUME Orderly PROVE Spec => []NeverOvercounts
  OBVIOUS
<1>1. ASSUME Init PROVE OverInv
  BY <1>1, OverInitially
<1>2. ASSUME PoolInv, OverInv, [Next]_vars PROVE OverInv'
  BY <1>2, OverStep
<1>3. ASSUME PoolInv, OverInv PROVE NeverOvercounts
  <2>1. ASSUME NEW l \in DOMAIN lists PROVE dead[l] <= Cardinality(ToSet(lists[l]) \ alive)
    <3>1. PICK U, S, T : U = ToSet(lists[l]) /\ S = Down(l) /\ T = U \ alive
      OBVIOUS
    <3>2. IsFiniteSet(U)
      <4>1. lists[l] \in Seq(Pooled)
        BY <1>3, PooledType DEF PoolInv
      <4> QED BY <3>1, <4>1, ToSetFinite
    <3>3. S \subseteq U /\ T \subseteq U /\ S \subseteq T
      BY <3>1 DEF Down
    <3>4. Cardinality(S) \in Nat /\ Cardinality(T) \in Nat /\ Cardinality(S) <= Cardinality(T)
      BY ONLY <3>2, <3>3, Sizes
    <3>5. dead[l] \in Nat /\ dead[l] <= Cardinality(S)
      BY <1>3, <3>1, PooledType DEF PoolInv, OverInv, Counts
    <3> QED BY <3>1, <3>4, <3>5
  <2> QED BY <2>1 DEF NeverOvercounts
<1> QED BY PoolInvariant, <1>1, <1>2, <1>3, PTL DEF Spec

-----------------------------------------------------------------------------
(* No connection is left without a timer.                                  *)

\* A connection that is up or still to be tried has no timer: init_cnx_timer
\* never finds the timer in the list already.
Unarmed == \A c \in armed : c \notin alive /\ ~ Awaited(c)

\* A connection that is down has a timer or is about to be tried, also while
\* the mutex is held.
Watched ==
    initialized \/ Initializing => \A c \in Pooled : c \in alive \/ c \in armed \/ Awaited(c)

\* Nobody tries connections while the mutex is free.
LEMMA FreeAwaits ==
    ASSUME Free, NEW c
    PROVE  ~ Awaited(c)
  BY DEF Free, Awaited, Tries, ToSet

\* What can happen to a timer outside of prelude_connection_pool_init: it comes
\* when its connection goes, goes when it comes, or is set again.
LEMMA Timing ==
    ASSUME PoolInv, OverInv, Orderly, RECONNECT, Unarmed, Elsewhere
    PROVE  \/ alive' = alive /\ armed' = armed
           \/ \E c : ~ Awaited(c) /\ alive' = alive \ {c} /\ armed' = armed \union {c}
           \/ \E c : ~ Awaited(c) /\ alive' = alive \union {c} /\ armed' = armed \ {c}
<1> DEFINE Goes(c)  == ~ Awaited(c) /\ alive' = alive \ {c} /\ armed' = armed \union {c}
           Comes(c) == ~ Awaited(c) /\ alive' = alive \union {c} /\ armed' = armed \ {c}
           Goal     == (alive' = alive /\ armed' = armed) \/ (\E c : Goes(c)) \/ (\E c : Comes(c))
<1> SUFFICES Goal
  OBVIOUS
<1>0. CASE alive' = alive /\ armed' = armed
  BY <1>0
<1>1. ASSUME NEW c \in alive, set_state_dead(c) PROVE Goal
  <2>1. c \notin armed /\ ~ Awaited(c)
    BY DEF Unarmed, OverInv, Trials
  <2>2. armed' = armed \union {c}
    BY <1>1, <2>1, TimerLinked DEF set_state_dead
  <2>3. alive' = alive \ {c}
    BY <1>1 DEF set_state_dead, Orderly
  <2>4. Goes(c)
    BY <2>1, <2>2, <2>3
  <2> QED BY <2>4
<1>2. CASE broadcast_message
  <2>1. PICK c : broadcast_sends(c) \/ broadcast_fails(c) \/ broadcast_saves(c)
    BY <1>2 DEF broadcast_message
  <2> QED BY <1>0, <1>1, <2>1 DEF broadcast_sends, broadcast_fails, broadcast_saves, cnxs
<1>3. CASE failover_flush_cnx
  <2>1. PICK c : c = Top.cnx
    OBVIOUS
  <2>2. stack \in Seq(Known) /\ stack # <<>> /\ Top.fn = "flush_cnx"
    BY <1>3 DEF PoolInv, failover_flush_cnx, In, Free, Top
  <2>3. c \in alive
    BY <2>1, <2>2, FrameSets DEF OverInv, Flushing
  <2>4. flush_cnx_ends(c) \/ flush_cnx_sends(c) \/ flush_cnx_fails(c)
    BY <1>3, <2>1 DEF failover_flush_cnx
  <2> QED BY <1>0, <1>1, <2>3, <2>4 DEF flush_cnx_ends, flush_cnx_sends, flush_cnx_fails, cnxs
<1>4. CASE check_connection_event
  <2>1. PICK c : event_skips(c) \/ event_is_handled(c) \/ event_fails(c)
    BY <1>4 DEF check_connection_event, event_kills, Orderly
  <2> QED BY <1>0, <1>1, <2>1 DEF event_skips, event_is_handled, event_fails, HasEvent, cnxs
<1>5. CASE connection_timer_expire
  <2>1. PICK c : c = firing
    OBVIOUS
  <2>2. ~ Awaited(c)
    BY <1>5, FreeAwaits DEF connection_timer_expire
  <2>3. Comes(c) \/ Goes(c)
    BY <1>5, <2>1, <2>2 DEF connection_timer_expire, prelude_connection_connect, connect_fails, set_state_alive
  <2> QED BY <2>3
<1>6. CASE \E c \in Cnx : \/ prelude_connection_pool_set_connection_dead(c)
                          \/ prelude_connection_pool_set_connection_alive(c)
                          \/ UserConnects(c)
  BY <1>1, <1>6 DEF Orderly, prelude_connection_pool_set_connection_dead,
     prelude_connection_pool_set_connection_alive, UserConnects
<1>7. CASE \/ failover_flush_all \/ add_connection_flushes \/ PollUnlock \/ PollSelect \/ PollLock \/ Network
           \/ (PollReturn /\ ~ connection_string_changed) \/ UNCHANGED vars
           \/ \E c \in Cnx : TimerExpires(c)
  BY <1>0, <1>7 DEF failover_flush_all, add_connection_flushes, PollUnlock, PollSelect, PollLock, PollReturn,
     Network, LinkBreaks, ManagerStarts, TimerExpires, vars, cnxs
<1>8. CASE \/ \E m \in Msg : prelude_connection_pool_broadcast(m)
           \/ \E str \in Strings : prelude_connection_pool_set_connection_string(str)
  BY <1>0, <1>8 DEF prelude_connection_pool_broadcast, prelude_connection_pool_set_connection_string, cnxs
<1> QED BY <1>2, <1>3, <1>4, <1>5, <1>6, <1>7, <1>8 DEF Elsewhere, Timers

\* Outside of prelude_connection_pool_init.
LEMMA ElsewhereWatched ==
    ASSUME PoolInv, OverInv, Orderly, RECONNECT, Unarmed, Watched, Elsewhere
    PROVE  Unarmed' /\ Watched'
<1>1. lists' = lists /\ initialized' = initialized /\ Tries' = Tries
  BY Untried
<1>2. Pooled' = Pooled /\ (Initializing' <=> Initializing) /\ \A c : Awaited(c)' <=> Awaited(c)
  BY <1>1, KnownSame DEF Initializing, Awaited
<1>3. \/ alive' = alive /\ armed' = armed
      \/ \E c : ~ Awaited(c) /\ alive' = alive \ {c} /\ armed' = armed \union {c}
      \/ \E c : ~ Awaited(c) /\ alive' = alive \union {c} /\ armed' = armed \ {c}
  BY Timing
<1>4. Unarmed'
  BY <1>2, <1>3 DEF Unarmed
<1>5. \A c : c \in alive \/ c \in armed => c \in alive' \/ c \in armed'
  BY <1>3
<1>6. Watched'
  BY <1>1, <1>2, <1>5 DEF Watched
<1> QED BY <1>4, <1>6

\* prelude_connection_pool_init tries a connection: it has no timer before, and
\* it is up or has one afterwards.
LEMMA InitConnectionWatched ==
    ASSUME PoolInv, OverInv, Orderly, RECONNECT, Unarmed, Watched, init_connection
    PROVE  Unarmed' /\ Watched'
<1>1. PICK c \in Pooled : InitTries(c)
  BY InitTrial
<1>2. /\ c \notin alive /\ Awaited(c) /\ lists' = lists /\ Initializing
      /\ init_connects(c) \/ init_fails(c)
      /\ \A d : Awaited(d)' <=> Awaited(d) /\ d # c
  BY <1>1 DEF InitTries
<1>3. c \notin armed /\ Pooled' = Pooled
  BY <1>2, KnownSame DEF Unarmed
<1>4. \/ alive' = alive \union {c} /\ armed' = armed \ {c}
      \/ alive' = alive \ {c} /\ armed' = armed \union {c}
  BY <1>2, <1>3, TimerLinked DEF init_connects, init_fails, prelude_connection_connect, set_state_alive,
     set_state_dead, Orderly
<1>5. Unarmed'
  BY <1>2, <1>4 DEF Unarmed
<1>6. ASSUME NEW d \in Pooled PROVE d \in alive' \/ d \in armed' \/ Awaited(d)'
  BY <1>2, <1>4 DEF Watched
<1> QED BY <1>3, <1>5, <1>6 DEF Watched

\* prelude_connection_pool_init returns: it has tried them all.
LEMMA InitReturnsWatched ==
    ASSUME PoolInv, OverInv, Unarmed, Watched, init_returns
    PROVE  Unarmed' /\ Watched'
<1>1. /\ stack \in Seq(Known) /\ stack # <<>> /\ Top.fn = "init" /\ Top.rest = <<>> /\ Return
      /\ lists' = lists /\ alive' = alive /\ armed' = armed
  BY DEF init_returns, In, Free, Top, cnxs, PoolInv
<1>2. ToSet(stack) = {Top} /\ ToSet(stack)' = {}
  <2>1. ToSet(stack) = {Top} \union ToSet(Tail(stack)) /\ ToSet(Tail(stack)) = {}
    BY <1>1, FrameSets, TailQuiet DEF OverInv
  <2> QED BY <1>1, <2>1 DEF Return
<1>3. \A d : ~ Awaited(d)'
  BY <1>2 DEF Tries, Awaited
<1>4. Initializing /\ \A d : ~ Awaited(d)
  <2>1. Tries = {Top} /\ Members(Top.rest) = {}
    BY <1>1, <1>2 DEF Tries, Members
  <2> QED BY <1>1, <2>1 DEF Awaited, Initializing
<1>5. Pooled' = Pooled
  BY <1>1, KnownSame
<1> QED BY <1>1, <1>3, <1>4, <1>5 DEF Unarmed, Watched

\* prelude_connection_pool_init begins: the timers are destroyed, and all
\* connections of the new lists are to be tried.
LEMMA PoolInitWatched ==
    ASSUME PoolInv, Free, connection_string_changed, pool_init
    PROVE  Unarmed' /\ Watched'
<1>1. PICK f : f = Connect(connection_string)
  OBVIOUS
<1>2. f.fn = "init" /\ f.rest = lists' /\ Call(f) /\ armed' = armed \ Pooled
  BY <1>1 DEF pool_init, Connect
<1>3. armed' = {}
  BY <1>2 DEF PoolInv, Connections
<1>4. ToSet(stack)' = {f}
  <2>1. ToSet(stack)' = {f} \union ToSet(stack)
    BY <1>2, FrameSets DEF PoolInv
  <2> QED BY <2>1 DEF Free, ToSet
<1>5. Tries' = {f}
  BY <1>2, <1>4 DEF Tries
<1>6. ASSUME NEW c \in Pooled' PROVE Awaited(c)'
  BY <1>2, <1>5, <1>6 DEF Awaited, Pooled
<1> QED BY <1>3, <1>6 DEF Unarmed, Watched

\* No order of failures, reconnections, reports of dead connections and changes
\* of the connection string leaves a connection that is down and that nobody
\* retries.  The assumptions rule out what would initialize a timer that is
\* listed already, or destroy that of a connection that is down: a second
\* initialization, handlers that report a connection dead once more, connections
\* that are not closed, and prelude_connection_pool_set_connection_alive.
THEOREM PoolRetried == Orderly => (Spec => []Retried)
<1> SUFFICES ASSUME Orderly PROVE Spec => []Retried
  OBVIOUS
<1> DEFINE TimedInv == RECONNECT => Unarmed /\ Watched
<1>1. ASSUME Init PROVE OverInv /\ TimedInv
  <2>1. armed = {} /\ Pooled = {}
    BY <1>1 DEF Init, Pooled, Members
  <2>2. Unarmed /\ Watched
    BY <2>1 DEF Unarmed, Watched
  <2> QED BY <1>1, <2>2, OverInitially
<1>2. ASSUME PoolInv, OverInv, TimedInv, [Next]_vars PROVE OverInv' /\ TimedInv'
  <2>1. OverInv'
    BY <1>2, OverStep
  <2>2. ASSUME RECONNECT PROVE Unarmed' /\ Watched'
    <3>1. Unarmed /\ Watched
      BY <1>2, <2>2
    <3>2. CASE Elsewhere
      BY <1>2, <2>2, <3>1, <3>2, ElsewhereWatched
    <3>3. CASE init_connection
      BY <1>2, <2>2, <3>1, <3>3, InitConnectionWatched
    <3>4. CASE init_returns
      BY <1>2, <3>1, <3>4, InitReturnsWatched
    <3>5. CASE Free /\ connection_string_changed /\ pool_init
      BY <1>2, <3>5, PoolInitWatched
    <3> QED BY <1>2, <3>2, <3>3, <3>4, <3>5, OverCases
  <2> QED BY <2>1, <2>2
<1>3. ASSUME TimedInv PROVE Retried
  <2>1. Free => \A c : ~ Awaited(c)
    BY FreeAwaits
  <2> QED BY <1>3, <2>1 DEF Watched, Retried
<1> QED BY PoolInvariant, <1>1, <1>2, <1>3, PTL DEF Spec



-----------------------------------------------------------------------------
(* No message is sent or kept twice.                                       *)

\* No connection is twice in the AND list.
Single(a) == \A i, j \in DOMAIN a : a[i] = a[j] => i = j

\* The broadcast that runs has still to come to the connection, whether or not
\* the message is whole.
Pending(m, c) == \E f \in Sends : f.msg = m /\ c \in ToSet(f.and)

Charge(m, c) == IF Pending(m, c) THEN 1 ELSE 0

Due(m) == IF m \in sent THEN 1 ELSE 0

\* There is at most one copy of a message that was broadcast, for each
\* connection, and none of one that was not.
AtMostOnce ==
    \A m \in Msg, c \in Cnx :
        got[c][m] + Copies(saved[c], m) + Copies(global, m) + Charge(m, c) <= Due(m)

Singles ==
    /\ \A l \in DOMAIN lists : Single(lists[l])
    /\ \A f \in Sends : Single(f.and)

TwiceInv == Shape /\ Singles /\ AtMostOnce

\* A sequence without repetition loses its head.
LEMMA SingleTail ==
    ASSUME NEW S, NEW a \in Seq(S), a # <<>>, Single(a)
    PROVE  Single(Tail(a)) /\ Head(a) \notin ToSet(Tail(a))
<1>1. PICK t, n : t = Tail(a) /\ n = Len(a)
  OBVIOUS
<1>2. n \in Nat /\ n # 0 /\ DOMAIN a = 1 .. n
  BY <1>1, LenProperties, EmptySeq
<1>3. t \in Seq(S) /\ Len(t) = n - 1 /\ Head(a) = a[1] /\ \A i \in 1 .. n - 1 : t[i] = a[i + 1]
  BY <1>1, HeadTailProperties
<1>4. DOMAIN t = 1 .. n - 1
  BY <1>3, LenProperties
<1>5. ASSUME NEW i \in DOMAIN t PROVE t[i] = a[i + 1] /\ i + 1 \in DOMAIN a /\ i + 1 # 1 /\ i \in Int
  BY <1>2, <1>3, <1>4, <1>5
<1>6. ASSUME NEW i \in DOMAIN t, NEW j \in DOMAIN t, t[i] = t[j] PROVE i = j
  <2>1. a[i + 1] = a[j + 1] /\ i + 1 \in DOMAIN a /\ j + 1 \in DOMAIN a
    BY <1>5, <1>6
  <2>2. i + 1 = j + 1
    BY <2>1 DEF Single
  <2> QED BY <1>5, <2>2
<1>7. ASSUME Head(a) \in ToSet(t) PROVE FALSE
  <2>1. PICK i \in DOMAIN t : a[1] = t[i]
    BY <1>3, <1>7 DEF ToSet
  <2>2. a[i + 1] = a[1] /\ i + 1 \in DOMAIN a /\ 1 \in DOMAIN a
    BY <1>2, <1>5, <2>1
  <2>3. i + 1 = 1
    BY <2>2 DEF Single
  <2> QED BY <1>5, <2>3
<1> QED BY <1>1, <1>6, <1>7 DEF Single

\* The copies of a message in a sequence are finitely many.
LEMMA CopiesType ==
    ASSUME NEW S, NEW q \in Seq(S), NEW m
    PROVE  /\ IsFiniteSet({i \in DOMAIN q : q[i] = m}) /\ Copies(q, m) \in Nat
<1>1. PICK n : n = Len(q)
  OBVIOUS
<1>2. n \in Nat /\ DOMAIN q = 1 .. n
  BY <1>1, LenProperties
<1>3. IsFiniteSet(1 .. n)
  BY <1>2, FS_Interval
<1>4. {i \in DOMAIN q : q[i] = m} \in SUBSET (1 .. n)
  BY <1>2
<1>5. IsFiniteSet({i \in DOMAIN q : q[i] = m})
  BY <1>3, <1>4, FS_Subset
<1> QED BY <1>5, FS_CardinalityType DEF Copies

\* A message is appended.
LEMMA CopiesAppend ==
    ASSUME NEW S, NEW q \in Seq(S), NEW x \in S, NEW m
    PROVE  Copies(Append(q, x), m) = Copies(q, m) + IF x = m THEN 1 ELSE 0
<1>1. PICK t, n : t = Append(q, x) /\ n = Len(q)
  OBVIOUS
<1>2. /\ n \in Nat /\ DOMAIN q = 1 .. n
      /\ t \in Seq(S) /\ Len(t) = n + 1 /\ t[n + 1] = x /\ \A i \in 1 .. n : t[i] = q[i]
  BY <1>1, LenProperties, AppendProperties
<1>3. DOMAIN t = 1 .. n + 1
  BY <1>2, LenProperties
<1>4. PICK A, B : A = {i \in DOMAIN q : q[i] = m} /\ B = {i \in DOMAIN t : t[i] = m}
  OBVIOUS
<1>5. IsFiniteSet(A) /\ Cardinality(A) \in Nat
  BY <1>4, CopiesType, FS_CardinalityType
<1>6. n + 1 \notin A
  BY <1>2, <1>4
<1>7. CASE x = m
  <2>1. B = A \union {n + 1}
    BY <1>2, <1>3, <1>4, <1>7
  <2>2. Cardinality(B) = Cardinality(A) + 1
    BY <1>5, <1>6, <2>1, FS_AddElement
  <2> QED BY <1>1, <1>4, <1>7, <2>2 DEF Copies
<1>8. CASE x # m
  <2>1. B = A
    BY <1>2, <1>3, <1>4, <1>8
  <2>2. Copies(t, m) = Cardinality(A) /\ Copies(q, m) = Cardinality(A)
    BY <1>4, <2>1 DEF Copies
  <2>3. Copies(t, m) = Copies(q, m) + 0
    BY ONLY <1>5, <2>2
  <2> QED BY <1>1, <1>8, <2>3
<1> QED BY <1>7, <1>8

\* The first message leaves a sequence.
LEMMA CopiesTail ==
    ASSUME NEW S, NEW q \in Seq(S), q # <<>>, NEW m
    PROVE  Copies(q, m) = Copies(Tail(q), m) + IF Head(q) = m THEN 1 ELSE 0
<1>1. PICK t, n : t = Tail(q) /\ n = Len(q)
  OBVIOUS
<1>2. /\ n \in Nat /\ n # 0 /\ DOMAIN q = 1 .. n
      /\ t \in Seq(S) /\ Len(t) = n - 1 /\ Head(q) = q[1] /\ \A i \in 1 .. n - 1 : t[i] = q[i + 1]
  BY <1>1, LenProperties, EmptySeq, HeadTailProperties
<1>3. DOMAIN t = 1 .. n - 1
  BY <1>2, LenProperties
<1>4. PICK A, B, C : A = {i \in DOMAIN q : q[i] = m} /\ B = {i \in DOMAIN t : t[i] = m} /\ C = A \ {1}
  OBVIOUS
<1>5. IsFiniteSet(A) /\ IsFiniteSet(B)
  BY <1>2, <1>4, CopiesType
<1>6. ExistsBijection(B, C)
  <2> DEFINE f == [i \in B |-> i + 1]
  <2>1. ASSUME NEW i \in B PROVE i + 1 \in C /\ i \in Int
    BY <1>2, <1>3, <1>4, <2>1
  <2>2. ASSUME NEW j \in C PROVE \E i \in B : i + 1 = j
    <3>1. j \in 1 .. n /\ j # 1 /\ q[j] = m
      BY <1>2, <1>4
    <3>2. j - 1 \in 1 .. n - 1 /\ (j - 1) + 1 = j
      BY <1>2, <3>1
    <3>3. t[j - 1] = m
      BY <1>2, <3>1, <3>2
    <3> QED BY <1>3, <1>4, <3>2, <3>3
  <2>3. f \in [B -> C]
    BY <2>1
  <2>4. \A i, j \in B : f[i] = f[j] => i = j
    BY <2>1
  <2>5. f \in Injection(B, C)
    BY <2>3, <2>4 DEF Injection, IsInjective
  <2>6. f \in Surjection(B, C)
    BY <2>2, <2>3 DEF Surjection
  <2> QED BY <2>5, <2>6 DEF ExistsBijection, Bijection
<1>7. Cardinality(C) = Cardinality(B) /\ Cardinality(B) \in Nat /\ Cardinality(A) \in Nat
  BY <1>5, <1>6, FS_Bijection, FS_CardinalityType
<1>8. Cardinality(C) = IF 1 \in A THEN Cardinality(A) - 1 ELSE Cardinality(A)
  BY <1>4, <1>5, FS_RemoveElement
<1>9. 1 \in A <=> Head(q) = m
  BY <1>2, <1>4
<1>10. Cardinality(A) = Cardinality(B) + IF Head(q) = m THEN 1 ELSE 0
  BY ONLY <1>7, <1>8, <1>9
<1> QED BY <1>1, <1>4, <1>10 DEF Copies

\* A manager gets one more copy of a message.
LEMMA DeliverExact ==
    ASSUME Stored, NEW c \in Cnx, NEW m \in Msg, Deliver(c, m)
    PROVE  \A d \in Cnx, n \in Msg : got'[d][n] = got[d][n] + IF d = c /\ n = m THEN 1 ELSE 0
<1>1. PICK k : k = got[c][m] + 1
  OBVIOUS
<1>2. got \in [Cnx -> [Msg -> Nat]] /\ k \in Nat
  BY <1>1 DEF Stored
<1>3. got' = [got EXCEPT ![c] = [got[c] EXCEPT ![m] = k]]
  BY <1>1 DEF Deliver, Stored
<1>4. got'[c][m] = k
  BY <1>2, <1>3
<1>5. ASSUME NEW d \in Cnx, NEW n \in Msg, d # c \/ n # m PROVE got'[d][n] = got[d][n] /\ got[d][n] \in Nat
  BY <1>2, <1>3, <1>5
<1> QED BY <1>1, <1>4, <1>5

\* A failover gets at most one more copy of a message.
LEMMA SaveExact ==
    ASSUME Stored, NEW c \in Cnx, NEW m \in Msg, NEW ok, NEW w \in BOOLEAN,
           failover_save_msg(ok, c, m, w)
    PROVE  \A d \in Cnx, n \in Msg :
              /\ Copies(saved'[d], n) \in Nat /\ Copies(saved[d], n) \in Nat
              /\ Copies(saved'[d], n) <= Copies(saved[d], n) + IF d = c /\ n = m THEN 1 ELSE 0
<1>1. PICK M, q, x : M = Msg \union {Torn} /\ q = saved[c] /\ x = IF w THEN m ELSE Torn
  OBVIOUS
<1>2. saved \in [Cnx -> Seq(M)] /\ q \in Seq(M) /\ x \in M
  BY <1>1 DEF Stored
<1>3. \A d \in Cnx : \A n : Copies(saved[d], n) \in Nat
  BY <1>2, CopiesType
<1>4. CASE ~ ok
  BY <1>3, <1>4 DEF failover_save_msg
<1>5. CASE ok
  <2>1. saved' = [saved EXCEPT ![c] = Append(q, x)]
    BY <1>1, <1>5 DEF failover_save_msg
  <2>2. saved'[c] = Append(q, x) /\ \A d \in Cnx \ {c} : saved'[d] = saved[d]
    BY <1>2, <2>1
  <2>3. \A n : Copies(saved'[c], n) = Copies(q, n) + IF x = n THEN 1 ELSE 0
    BY <1>2, <2>2, CopiesAppend
  <2>4. \A n \in Msg : x = n => n = m
    BY <1>1, TornAssumption
  <2>5. ASSUME NEW d \in Cnx, NEW n \in Msg
        PROVE  /\ Copies(saved'[d], n) \in Nat /\ Copies(saved[d], n) \in Nat
               /\ Copies(saved'[d], n) <= Copies(saved[d], n) + IF d = c /\ n = m THEN 1 ELSE 0
    <3>1. CASE d = c
      <4>1. Copies(saved'[d], n) = Copies(saved[d], n) + IF x = n THEN 1 ELSE 0
        BY <1>1, <2>3, <3>1
      <4>2. x = n => (d = c /\ n = m)
        BY <2>4, <3>1
      <4>3. Copies(saved[d], n) \in Nat
        BY <1>3
      <4> QED BY ONLY <4>1, <4>2, <4>3
    <3>2. CASE d # c
      <4>1. Copies(saved'[d], n) = Copies(saved[d], n) /\ Copies(saved[d], n) \in Nat
        BY <1>3, <2>2, <3>2
      <4> QED BY ONLY <3>2, <4>1
    <3> QED BY <3>1, <3>2
  <2> QED BY <2>5
<1> QED BY <1>4, <1>5


\* At most one broadcast runs, and only while nothing else does.
LEMMA OneSend ==
    ASSUME stack \in Seq(Known), Shape
    PROVE  /\ Free => Sends = {}
           /\ ~ Free /\ Top.fn # "broadcast" => Sends = {}
           /\ ~ Free /\ Top.fn = "broadcast" => Sends = {Top}
<1>1. Free => Sends = {}
  BY DEF Free, Sends, ToSet
<1>2. ASSUME ~ Free
      PROVE  /\ ToSet(stack) = {Top} \union ToSet(Tail(stack))
             /\ \A f \in ToSet(Tail(stack)) : f.fn # "broadcast"
  BY <1>2, FrameSets, TailQuiet DEF Free
<1> QED BY <1>1, <1>2 DEF Sends

\* The counts are numbers.
LEMMA CountType ==
    ASSUME Stored, NEW c \in Cnx, NEW m \in Msg
    PROVE  got[c][m] \in Nat /\ Copies(saved[c], m) \in Nat /\ Copies(global, m) \in Nat
<1>1. PICK M : M = Msg \union {Torn}
  OBVIOUS
<1>2. saved[c] \in Seq(M) /\ global \in Seq(Msg) /\ got[c][m] \in Nat
  BY <1>1 DEF Stored
<1> QED BY <1>2, CopiesType

\* broadcast_message goes on with the rest of its list.
LEMMA SinkOnce ==
    ASSUME PoolInv, Shape, Singles, In("broadcast"), NEW w \in BOOLEAN, NextSink(w)
    PROVE  /\ \A n, d : Pending(n, d) <=> n = Top.msg /\ d \in ToSet(Top.and)
           /\ \A n, d : Pending(n, d)' <=> n = Top.msg /\ d \in ToSet(Top.and) /\ d # Head(Top.and)
           /\ Head(Top.and) \in ToSet(Top.and)
           /\ \A f \in Sends' : Single(f.and)
<1>1. PICK a, m, c : a = Top.and /\ m = Top.msg /\ c = Head(a)
  OBVIOUS
<1>2. stack \in Seq(Known) /\ stack # <<>> /\ ~ Free /\ Top.fn = "broadcast"
  BY DEF PoolInv, In, Free, Top
<1>3. Sends = {Top}
  BY <1>2, OneSend
<1>4. a \in Seq(Pooled) /\ a # <<>>
  BY <1>1, SinkFacts
<1>5. Single(a)
  BY <1>1, <1>3 DEF Singles
<1>6. ToSet(a) = {c} \union ToSet(Tail(a)) /\ Single(Tail(a)) /\ c \notin ToSet(Tail(a))
  BY <1>1, <1>4, <1>5, ToSetTail, SingleTail
<1>7. \A f \in ToSet(Tail(stack)) : f.fn # "broadcast"
  BY <1>2, TailQuiet DEF Shape
<1>8. CASE Len(a) = 1
  <2>1. Sends' = {}
    BY <1>1, <1>7, <1>8 DEF NextSink, Return, Sends
  <2>2. PICK t : t = Tail(a)
    OBVIOUS
  <2>3. Len(t) = 0 /\ t \in Seq(Pooled)
    BY <1>4, <1>8, <2>2, HeadTailProperties
  <2>4. DOMAIN t = 1 .. Len(t)
    BY <2>3, LenProperties
  <2>5. ToSet(t) = {}
    <3>1. DOMAIN t = {}
      BY <2>3, <2>4
    <3> QED BY <3>1 DEF ToSet
  <2> QED BY <1>1, <1>3, <1>6, <2>1, <2>2, <2>5 DEF Pending
<1>9. CASE Len(a) # 1
  <2>1. PICK f : f = Broadcast(m, w, Tail(a))
    OBVIOUS
  <2>2. Become(f) /\ f.fn = "broadcast" /\ f.msg = m /\ f.and = Tail(a)
    BY <1>1, <1>9, <2>1 DEF NextSink, Broadcast
  <2>3. ToSet(stack)' = {f} \union ToSet(Tail(stack))
    BY <1>2, <2>2, FrameSets
  <2>4. Sends' = {f}
    BY <1>7, <2>2, <2>3 DEF Sends
  <2> QED BY <1>1, <1>3, <1>6, <2>2, <2>4 DEF Pending
<1> QED BY <1>8, <1>9

\* broadcast_message: the connection gets the message, or its failover does.
LEMMA BroadcastOnce ==
    ASSUME PoolInv, TwiceInv, "late" \notin Faults, broadcast_message
    PROVE  Singles' /\ AtMostOnce'
<1>1. PICK a, m, c : a = Top.and /\ m = Top.msg /\ c = Head(a)
  OBVIOUS
<1>2. /\ In("broadcast") /\ global' = global /\ sent' = sent /\ lists' = lists
      /\ broadcast_sends(c) \/ broadcast_fails(c) \/ broadcast_saves(c)
  BY <1>1 DEF broadcast_message, conf
<1>3. Stored /\ m \in Msg /\ c \in Cnx /\ Top.whole \in BOOLEAN
  <2>1. stack \in Seq(Known) /\ stack # <<>> /\ Top.fn = "broadcast"
    BY <1>2 DEF In, Free, Top, PoolInv
  <2> QED BY <1>1, <1>2, <2>1, SinkFacts, TopType, PooledType DEF PoolInv
<1>4. PICK w \in BOOLEAN : NextSink(w)
  BY SomeSink
<1>5. /\ \A n, d : Pending(n, d) <=> n = m /\ d \in ToSet(a)
      /\ \A n, d : Pending(n, d)' <=> n = m /\ d \in ToSet(a) /\ d # c
      /\ c \in ToSet(a) /\ \A f \in Sends' : Single(f.and)
  BY <1>1, <1>2, <1>4, SinkOnce DEF TwiceInv
<1>6. Singles'
  BY <1>2, <1>5 DEF TwiceInv, Singles
<1>7. \A d \in Cnx, n \in Msg :
         /\ got'[d][n] \in Nat /\ Copies(saved'[d], n) \in Nat
         /\ got'[d][n] + Copies(saved'[d], n)
              <= got[d][n] + Copies(saved[d], n) + IF d = c /\ n = m THEN 1 ELSE 0
  <2>1. \A d \in Cnx, n \in Msg : got[d][n] \in Nat /\ Copies(saved[d], n) \in Nat
    BY <1>3, CountType
  <2>2. CASE broadcast_sends(c)
    <3>1. saved' = saved /\ (Deliver(c, m) \/ got' = got)
      BY <1>1, <2>2 DEF broadcast_sends
    <3>2. CASE Deliver(c, m)
      <4>1. \A d \in Cnx, n \in Msg : got'[d][n] = got[d][n] + IF d = c /\ n = m THEN 1 ELSE 0
        BY <1>3, <3>2, DeliverExact
      <4> QED BY <2>1, <3>1, <4>1
    <3>3. CASE got' = got
      BY <2>1, <3>1, <3>3
    <3> QED BY <3>1, <3>2, <3>3
  <2>3. ASSUME NEW ok, NEW v \in BOOLEAN, failover_save_msg(ok, c, m, v), got' = got
        PROVE  \A d \in Cnx, n \in Msg :
                  /\ got'[d][n] \in Nat /\ Copies(saved'[d], n) \in Nat
                  /\ got'[d][n] + Copies(saved'[d], n)
                       <= got[d][n] + Copies(saved[d], n) + IF d = c /\ n = m THEN 1 ELSE 0
    <3>1. \A d \in Cnx, n \in Msg :
              /\ Copies(saved'[d], n) \in Nat /\ Copies(saved[d], n) \in Nat
              /\ Copies(saved'[d], n) <= Copies(saved[d], n) + IF d = c /\ n = m THEN 1 ELSE 0
      BY <1>3, <2>3, SaveExact
    <3> QED BY <2>1, <2>3, <3>1
  <2>4. CASE broadcast_fails(c)
    <3>1. PICK f \in SendFailures(c), ok \in Saves :
            /\ IF f.sent /\ Top.whole THEN Deliver(c, m) ELSE UNCHANGED got
            /\ failover_save_msg(ok, c, m, Top.whole /\ f.whole)
      BY <1>1, <2>4 DEF broadcast_fails
    <3>2. ~ f.sent
      BY DEF SendFailures
    <3>3. PICK v \in BOOLEAN : v = (Top.whole /\ f.whole)
      OBVIOUS
    <3>4. got' = got /\ failover_save_msg(ok, c, m, v)
      BY <3>1, <3>2, <3>3
    <3> QED BY <2>3, <3>4
  <2>5. CASE broadcast_saves(c)
    <3>1. PICK ok \in Saves : failover_save_msg(ok, c, m, Top.whole) /\ got' = got
      BY <1>1, <2>5 DEF broadcast_saves
    <3> QED BY <1>3, <2>3, <3>1
  <2> QED BY <1>2, <2>2, <2>4, <2>5
<1>8. ASSUME NEW n \in Msg, NEW d \in Cnx
      PROVE  got'[d][n] + Copies(saved'[d], n) + Copies(global', n) + Charge(n, d)' <= Due(n)'
  <2>1. got[d][n] + Copies(saved[d], n) + Copies(global, n) + Charge(n, d) <= Due(n)
    BY DEF TwiceInv, AtMostOnce
  <2>2. got[d][n] \in Nat /\ Copies(saved[d], n) \in Nat /\ Copies(global, n) \in Nat
    BY <1>3, CountType
  <2>3. global' = global /\ Due(n)' = Due(n) /\ Due(n) \in Nat
    BY <1>2 DEF Due
  <2>4. Charge(n, d) = Charge(n, d)' + IF d = c /\ n = m THEN 1 ELSE 0
    BY <1>5 DEF Charge
  <2>5. Charge(n, d)' \in Nat /\ Charge(n, d) \in Nat
    BY DEF Charge
  <2>6. /\ got'[d][n] \in Nat /\ Copies(saved'[d], n) \in Nat
        /\ got'[d][n] + Copies(saved'[d], n)
             <= got[d][n] + Copies(saved[d], n) + IF d = c /\ n = m THEN 1 ELSE 0
    BY <1>7
  <2> QED BY ONLY <2>1, <2>2, <2>3, <2>4, <2>5, <2>6
<1> QED BY <1>6, <1>8 DEF AtMostOnce


\* Steps that make no copy of a message.
LEMMA OnceKept ==
    ASSUME Stored, AtMostOnce, sent' = sent, global' = global, Sends' = Sends,
           \A d \in Cnx, n \in Msg :
               /\ got'[d][n] \in Nat /\ Copies(saved'[d], n) \in Nat
               /\ got'[d][n] + Copies(saved'[d], n) <= got[d][n] + Copies(saved[d], n)
    PROVE  AtMostOnce'
<1>1. ASSUME NEW n \in Msg, NEW d \in Cnx
      PROVE  got'[d][n] + Copies(saved'[d], n) + Copies(global', n) + Charge(n, d)' <= Due(n)'
  <2>1. got[d][n] + Copies(saved[d], n) + Copies(global, n) + Charge(n, d) <= Due(n)
    BY DEF AtMostOnce
  <2>2. got[d][n] \in Nat /\ Copies(saved[d], n) \in Nat /\ Copies(global, n) \in Nat
    BY CountType
  <2>3. Copies(global', n) = Copies(global, n) /\ Due(n)' = Due(n) /\ Due(n) \in Nat
    BY DEF Due
  <2>4. Charge(n, d)' = Charge(n, d) /\ Charge(n, d) \in Nat
    BY DEF Charge, Pending
  <2>5. /\ got'[d][n] \in Nat /\ Copies(saved'[d], n) \in Nat
        /\ got'[d][n] + Copies(saved'[d], n) <= got[d][n] + Copies(saved[d], n)
    OBVIOUS
  <2> QED BY ONLY <2>1, <2>2, <2>3, <2>4, <2>5
<1> QED BY <1>1 DEF AtMostOnce

\* failover_flush for a connection: what is sent leaves the failover, what
\* could not be sent is put back, once.
LEMMA FlushCnxOnce ==
    ASSUME PoolInv, TwiceInv, "late" \notin Faults, failover_flush_cnx
    PROVE  Singles' /\ AtMostOnce'
<1>1. PICK c, q, M : c = Top.cnx /\ q = saved[c] /\ M = Msg \union {Torn}
  OBVIOUS
<1>2. /\ In("flush_cnx") /\ global' = global /\ sent' = sent /\ lists' = lists
      /\ flush_cnx_ends(c) \/ flush_cnx_sends(c) \/ flush_cnx_fails(c)
  BY <1>1 DEF failover_flush_cnx, conf
<1>3. stack \in Seq(Known) /\ stack # <<>> /\ Top.fn = "flush_cnx" /\ c \in Cnx /\ Stored
  BY <1>1, <1>2, TopType, PooledType DEF In, Free, Top, PoolInv
<1>4. Sends' = Sends
  <2>1. PICK f : f = FlushAll(parent(c), c)
    OBVIOUS
  <2>2. f.fn # "broadcast" /\ Top.fn # "broadcast"
    BY <1>3, <2>1 DEF FlushAll
  <2>3. stack' = stack \/ Return \/ Become(f)
    BY <1>2, <2>1 DEF flush_cnx_ends, flush_cnx_sends, flush_cnx_fails
  <2> QED BY <1>3, <2>2, <2>3, QuietSends
<1>5. Singles'
  BY <1>2, <1>4 DEF TwiceInv, Singles
<1>6. \A d \in Cnx, n \in Msg : got[d][n] \in Nat /\ Copies(saved[d], n) \in Nat
  BY <1>3, CountType
<1>7. CASE flush_cnx_ends(c)
  <2>1. saved' = saved /\ got' = got
    BY <1>7 DEF flush_cnx_ends
  <2>2. AtMostOnce'
    BY <1>2, <1>3, <1>4, <1>6, <2>1, OnceKept DEF TwiceInv
  <2> QED BY <1>5, <2>2
<1>8. CASE flush_cnx_sends(c) \/ flush_cnx_fails(c)
  <2>1. saved \in [Cnx -> Seq(M)] /\ q \in Seq(M) /\ q # <<>> /\ Head(q) # Torn
    BY <1>1, <1>3, <1>8 DEF Stored, flush_cnx_sends, flush_cnx_fails
  <2>2. PICK t, h : t = Tail(q) /\ h = Head(q)
    OBVIOUS
  <2>3. t \in Seq(M) /\ h \in Msg /\ h \in M
    BY <1>1, <2>1, <2>2, HeadTailProperties
  <2>4. \A n \in Msg : /\ Copies(q, n) = Copies(t, n) + IF h = n THEN 1 ELSE 0
                       /\ Copies(t, n) \in Nat
    <3>1. \A n : Copies(q, n) = Copies(t, n) + IF h = n THEN 1 ELSE 0
      BY <2>1, <2>2, CopiesTail
    <3>2. \A n : Copies(t, n) \in Nat
      BY <2>3, CopiesType
    <3> QED BY <3>1, <3>2
  <2>5. \A d \in Cnx, n \in Msg :
           /\ got'[d][n] \in Nat /\ Copies(saved'[d], n) \in Nat
           /\ got'[d][n] + Copies(saved'[d], n) <= got[d][n] + Copies(saved[d], n)
    <3>1. CASE flush_cnx_sends(c)
      <4>1. Deliver(c, h) /\ saved' = [saved EXCEPT ![c] = t]
        BY <1>1, <2>2, <3>1 DEF flush_cnx_sends
      <4>2. \A d \in Cnx, n \in Msg : got'[d][n] = got[d][n] + IF d = c /\ n = h THEN 1 ELSE 0
        BY <1>3, <2>3, <4>1, DeliverExact
      <4>3. saved'[c] = t /\ \A d \in Cnx \ {c} : saved'[d] = saved[d]
        BY <1>3, <2>1, <4>1
      <4>4. ASSUME NEW d \in Cnx, NEW n \in Msg
            PROVE  /\ got'[d][n] \in Nat /\ Copies(saved'[d], n) \in Nat
                   /\ got'[d][n] + Copies(saved'[d], n) <= got[d][n] + Copies(saved[d], n)
        <5>1. CASE d = c
          <6>1. Copies(saved'[d], n) = Copies(t, n) /\ Copies(saved[d], n) = Copies(q, n)
            BY <1>1, <4>3, <5>1
          <6>2. got'[d][n] = got[d][n] + IF h = n THEN 1 ELSE 0
            BY <4>2, <5>1
          <6>3. got[d][n] \in Nat /\ Copies(q, n) = Copies(t, n) + (IF h = n THEN 1 ELSE 0) /\ Copies(t, n) \in Nat
            BY <1>6, <2>4
          <6> QED BY ONLY <6>1, <6>2, <6>3
        <5>2. CASE d # c
          <6>1. got'[d][n] = got[d][n] + 0 /\ saved'[d] = saved[d]
            BY <4>2, <4>3, <5>2
          <6> QED BY <1>6, <6>1
        <5> QED BY <5>1, <5>2
      <4> QED BY <4>4
    <3>2. CASE flush_cnx_fails(c)
      <4>1. PICK f \in SendFailures(c), ok \in Saves :
              /\ IF f.sent THEN Deliver(c, Head(saved[c])) ELSE UNCHANGED got
              /\ saved' = [saved EXCEPT ![c] =
                              IF ok THEN Append(Tail(@), IF f.whole THEN Head(@) ELSE Torn) ELSE Tail(@)]
        BY <3>2 DEF flush_cnx_fails
      <4>2. ~ f.sent
        BY DEF SendFailures
      <4>3. PICK x, s : x = (IF f.whole THEN h ELSE Torn) /\ s = IF ok THEN Append(t, x) ELSE t
        OBVIOUS
      <4>4. got' = got /\ saved' = [saved EXCEPT ![c] = s] /\ x \in M
        BY <1>1, <2>2, <2>3, <4>1, <4>2, <4>3
      <4>5. saved'[c] = s /\ \A d \in Cnx \ {c} : saved'[d] = saved[d]
        BY <1>3, <2>1, <4>4
      <4>6. \A n \in Msg : Copies(s, n) = Copies(t, n) + IF ok /\ x = n THEN 1 ELSE 0
        <5>1. \A n : Copies(Append(t, x), n) = Copies(t, n) + IF x = n THEN 1 ELSE 0
          BY <2>3, <4>4, CopiesAppend
        <5> QED BY <2>4, <4>3, <5>1
      <4>7. \A n \in Msg : x = n => h = n
        BY <4>3, TornAssumption
      <4>8. ASSUME NEW d \in Cnx, NEW n \in Msg
            PROVE  /\ got'[d][n] \in Nat /\ Copies(saved'[d], n) \in Nat
                   /\ got'[d][n] + Copies(saved'[d], n) <= got[d][n] + Copies(saved[d], n)
        <5>1. CASE d = c
          <6>1. Copies(saved'[d], n) = Copies(s, n) /\ Copies(saved[d], n) = Copies(q, n)
            BY <1>1, <4>5, <5>1
          <6>2. Copies(s, n) = Copies(t, n) + (IF ok /\ x = n THEN 1 ELSE 0) /\ (x = n => h = n)
            BY <4>6, <4>7
          <6>3. got[d][n] \in Nat /\ Copies(q, n) = Copies(t, n) + (IF h = n THEN 1 ELSE 0) /\ Copies(t, n) \in Nat
            BY <1>6, <2>4
          <6>4. got'[d][n] = got[d][n]
            BY <4>4
          <6> QED BY ONLY <6>1, <6>2, <6>3, <6>4
        <5>2. CASE d # c
          BY <1>6, <4>4, <4>5, <5>2
        <5> QED BY <5>1, <5>2
      <4> QED BY <4>8
    <3> QED BY <1>8, <3>1, <3>2
  <2>6. AtMostOnce'
    BY <1>2, <1>3, <1>4, <2>5, OnceKept DEF TwiceInv
  <2> QED BY <1>5, <2>6
<1> QED BY <1>2, <1>7, <1>8

\* A message is addressed to a list, by a broadcast that begins: one copy.
LEMMA AddressedOnce ==
    ASSUME PoolInv, TwiceInv, NEW l \in DOMAIN lists, NEW m \in Msg, Sends = {},
           Call(Broadcast(m, TRUE, lists[l])), lists' = lists, saved' = saved, got' = got,
           \A n \in Msg : /\ Copies(global', n) \in Nat
                          /\ Copies(global', n) + (IF n = m THEN 1 ELSE 0) + Due(n)
                                <= Copies(global, n) + Due(n)'
    PROVE  Singles' /\ AtMostOnce'
<1>1. PICK f : f = Broadcast(m, TRUE, lists[l])
  OBVIOUS
<1>2. f.fn = "broadcast" /\ f.msg = m /\ f.and = lists[l]
  BY <1>1 DEF Broadcast
<1>3. ToSet(stack)' = {f} \union ToSet(stack)
  BY <1>1, FrameSets DEF PoolInv
<1>4. Sends' = {f}
  BY <1>2, <1>3 DEF Sends
<1>5. Singles'
  BY <1>2, <1>4 DEF TwiceInv, Singles
<1>6. ASSUME NEW n \in Msg, NEW d \in Cnx
      PROVE  got'[d][n] + Copies(saved'[d], n) + Copies(global', n) + Charge(n, d)' <= Due(n)'
  <2>1. got[d][n] + Copies(saved[d], n) + Copies(global, n) + Charge(n, d) <= Due(n)
    BY DEF TwiceInv, AtMostOnce
  <2>2. got[d][n] \in Nat /\ Copies(saved[d], n) \in Nat /\ Copies(global, n) \in Nat
    BY CountType DEF PoolInv
  <2>3. got'[d][n] = got[d][n] /\ Copies(saved'[d], n) = Copies(saved[d], n) /\ Due(n) \in Nat /\ Due(n)' \in Nat
    BY DEF Due
  <2>4. Charge(n, d) = 0
    BY DEF Charge, Pending
  <2>5. Charge(n, d)' \in Nat /\ Charge(n, d)' <= IF n = m THEN 1 ELSE 0
    BY <1>2, <1>4 DEF Charge, Pending
  <2>6. /\ Copies(global', n) \in Nat
        /\ Copies(global', n) + (IF n = m THEN 1 ELSE 0) + Due(n) <= Copies(global, n) + Due(n)'
    OBVIOUS
  <2> QED BY ONLY <2>1, <2>2, <2>3, <2>4, <2>5, <2>6
<1> QED BY <1>5, <1>6 DEF AtMostOnce

\* failover_flush for the pool: what is broadcast leaves the failover.
LEMMA FlushAllOnce ==
    ASSUME PoolInv, TwiceInv, failover_flush_all
    PROVE  Singles' /\ AtMostOnce'
<1>1. PICK l : l = Top.list
  OBVIOUS
<1>2. /\ In("flush_all") /\ saved' = saved /\ got' = got /\ sent' = sent /\ lists' = lists
      /\ flush_all_fails(l) \/ flush_all_ends(l) \/ flush_all_sends(l)
  BY <1>1 DEF failover_flush_all, conf
<1>3. stack \in Seq(Known) /\ stack # <<>> /\ ~ Free /\ Top.fn = "flush_all" /\ l \in DOMAIN lists /\ Stored
  BY <1>1, <1>2, TopType DEF In, Free, Top, PoolInv
<1>4. Sends = {}
  BY <1>3, OneSend DEF TwiceInv
<1>5. CASE flush_all_fails(l) \/ flush_all_ends(l)
  <2>1. Return /\ global' = global
    BY <1>5 DEF flush_all_fails, flush_all_ends
  <2>2. PICK f : f = Added(l)
    OBVIOUS
  <2>3. f.fn # "broadcast" /\ Top.fn # "broadcast"
    BY <1>3, <2>2 DEF Added
  <2>4. Sends' = Sends
    BY <1>3, <2>1, <2>3, QuietSends
  <2>5. Singles'
    BY <1>2, <2>4 DEF TwiceInv, Singles
  <2>6. \A d \in Cnx, n \in Msg : got[d][n] \in Nat /\ Copies(saved[d], n) \in Nat
    BY <1>3, CountType
  <2>7. AtMostOnce'
    BY <1>2, <1>3, <2>1, <2>4, <2>6, OnceKept DEF TwiceInv
  <2> QED BY <2>5, <2>7
<1>6. CASE flush_all_sends(l)
  <2>1. PICK m, t : m = Head(global) /\ t = Tail(global)
    OBVIOUS
  <2>2. global # <<>> /\ global \in Seq(Msg) /\ global' = t /\ Call(Broadcast(m, TRUE, lists[l]))
    BY <1>3, <1>6, <2>1 DEF flush_all_sends, Stored
  <2>3. m \in Msg /\ t \in Seq(Msg)
    BY <2>1, <2>2, HeadTailProperties
  <2>4. \A n \in Msg : Copies(t, n) \in Nat /\ Copies(global, n) = Copies(t, n) + IF m = n THEN 1 ELSE 0
    BY <2>1, <2>2, <2>3, CopiesTail, CopiesType
  <2>5. \A n \in Msg : /\ Copies(global', n) \in Nat
                       /\ Copies(global', n) + (IF n = m THEN 1 ELSE 0) + Due(n) <= Copies(global, n) + Due(n)'
    <3>1. ASSUME NEW n \in Msg
          PROVE  /\ Copies(global', n) \in Nat
                 /\ Copies(global', n) + (IF n = m THEN 1 ELSE 0) + Due(n) <= Copies(global, n) + Due(n)'
      <4>1. Due(n)' = Due(n) /\ Due(n) \in Nat
        BY <1>2 DEF Due
      <4>2. Copies(global', n) = Copies(t, n)
        BY <2>2
      <4> QED BY <2>4, <4>1, <4>2
    <3> QED BY <3>1
  <2> QED BY <1>2, <1>3, <1>4, <2>2, <2>3, <2>5, AddressedOnce
<1> QED BY <1>2, <1>5, <1>6

\* prelude_connection_pool_broadcast: the message goes to a list or to the
\* failover of the pool, and nobody had it.
LEMMA AppBroadcastOnce ==
    ASSUME PoolInv, TwiceInv, NEW m \in Msg, prelude_connection_pool_broadcast(m)
    PROVE  Singles' /\ AtMostOnce'
<1>1. /\ Free /\ saved' = saved /\ got' = got /\ lists' = lists
      /\ m \notin sent /\ sent' = sent \union {m} /\ walk_manager_lists(m)
  BY DEF prelude_connection_pool_broadcast, conf
<1>2. Sends = {} /\ Stored /\ global \in Seq(Msg)
  BY <1>1, OneSend DEF TwiceInv, PoolInv, Stored
<1>3. \A n : Due(n) \in Nat /\ Due(n)' = Due(n) + IF n = m THEN 1 ELSE 0
  <2>1. ASSUME NEW n PROVE Due(n) \in Nat /\ Due(n)' = Due(n) + IF n = m THEN 1 ELSE 0
    BY <1>1 DEF Due
  <2> QED BY <2>1
<1>4. \A n : Copies(global, n) \in Nat
  BY <1>2, CopiesType
<1>5. ASSUME NEW l \in DOMAIN lists, Call(Broadcast(m, TRUE, lists[l])), global' = global
      PROVE  Singles' /\ AtMostOnce'
  <2>1. ASSUME NEW n \in Msg
        PROVE  /\ Copies(global', n) \in Nat
               /\ Copies(global', n) + (IF n = m THEN 1 ELSE 0) + Due(n) <= Copies(global, n) + Due(n)'
    <3>1. Copies(global', n) = Copies(global, n) /\ Copies(global, n) \in Nat
      BY <1>4, <1>5
    <3>2. Due(n) \in Nat /\ Due(n)' = Due(n) + IF n = m THEN 1 ELSE 0
      BY <1>3
    <3> QED BY ONLY <3>1, <3>2
  <2> QED BY <1>1, <1>2, <1>5, <2>1, AddressedOnce
<1>6. CASE (\E ok \in Saves : global' = IF ok THEN Append(global, m) ELSE global) /\ stack' = stack
  <2>1. Sends' = Sends
    BY <1>6 DEF Sends
  <2>2. Singles'
    BY <1>1, <2>1 DEF TwiceInv, Singles
  <2>3. ASSUME NEW n \in Msg
        PROVE  /\ Copies(global', n) \in Nat
               /\ Copies(global', n) <= Copies(global, n) + IF n = m THEN 1 ELSE 0
    <3>1. CASE global' = Append(global, m)
      <4>1. global' = Append(global, m)
        BY <3>1
      <4>2. Copies(Append(global, m), n) = Copies(global, n) + IF m = n THEN 1 ELSE 0
        BY <1>2, CopiesAppend
      <4>3. Copies(global', n) = Copies(global, n) + (IF m = n THEN 1 ELSE 0) /\ Copies(global, n) \in Nat
        BY <1>4, <4>1, <4>2
      <4> QED BY ONLY <4>3
    <3>2. CASE global' = global
      <4>1. Copies(global', n) = Copies(global, n) /\ Copies(global, n) \in Nat
        BY <1>4, <3>2
      <4> QED BY ONLY <4>1
    <3> QED BY <1>6, <3>1, <3>2
  <2>4. ASSUME NEW n \in Msg, NEW d \in Cnx
        PROVE  got'[d][n] + Copies(saved'[d], n) + Copies(global', n) + Charge(n, d)' <= Due(n)'
    <3>1. got[d][n] + Copies(saved[d], n) + Copies(global, n) + Charge(n, d) <= Due(n)
      BY DEF TwiceInv, AtMostOnce
    <3>2. got[d][n] \in Nat /\ Copies(saved[d], n) \in Nat /\ Copies(global, n) \in Nat
      BY <1>2, CountType
    <3>3. got'[d][n] = got[d][n] /\ Copies(saved'[d], n) = Copies(saved[d], n)
      BY <1>1
    <3>4. Charge(n, d)' = Charge(n, d) /\ Charge(n, d) \in Nat
      BY <2>1 DEF Charge, Pending
    <3>5. Due(n) \in Nat /\ Due(n)' = Due(n) + IF n = m THEN 1 ELSE 0
      BY <1>3
    <3>6. /\ Copies(global', n) \in Nat
          /\ Copies(global', n) <= Copies(global, n) + IF n = m THEN 1 ELSE 0
      BY <2>3
    <3> QED BY ONLY <3>1, <3>2, <3>3, <3>4, <3>5, <3>6
  <2> QED BY <2>2, <2>4 DEF AtMostOnce
<1> QED BY <1>1, <1>5, <1>6 DEF walk_manager_lists

\* The connection strings name no connection twice in an AND list.
Plain == \A s \in Strings : \A l \in DOMAIN s : Single(s[l])

\* Lists change when they are replaced, and when a connection is added.
LEMMA ListsOnce ==
    ASSUME PoolInv, [Next]_vars
    PROVE  \/ lists' = lists \/ (lists' = connection_string /\ connection_string \in Strings)
           \/ \E c \in Cnx : prelude_connection_pool_add_connection(c)
<1>1. CASE pool_init
  BY <1>1 DEF pool_init, conf, PoolInv, Configured
<1>2. CASE Held
  BY <1>2 DEF Held, broadcast_message, failover_flush_cnx, failover_flush_all, init_connection, init_returns,
     check_connection_event, PollUnlock, add_connection_connects, add_connection_flushes, conf
<1>3. CASE Timers \/ Network \/ UNCHANGED vars
  BY <1>3 DEF Timers, Network, connection_timer_expire, TimerExpires, LinkBreaks, ManagerStarts, conf, vars
<1>4. CASE Poller
  BY <1>1, <1>4 DEF Poller, PollSelect, PollLock, PollReturn, conf
<1>5. CASE Application
  <2>1. CASE prelude_connection_pool_init
    BY <1>1, <2>1 DEF prelude_connection_pool_init
  <2>2. CASE \/ \E m \in Msg : prelude_connection_pool_broadcast(m)
             \/ \E str \in Strings : prelude_connection_pool_set_connection_string(str)
             \/ \E c \in Cnx : \/ prelude_connection_pool_set_connection_dead(c)
                               \/ prelude_connection_pool_set_connection_alive(c)
                               \/ UserConnects(c)
    BY <2>2 DEF prelude_connection_pool_broadcast, prelude_connection_pool_set_connection_string,
       prelude_connection_pool_set_connection_dead, prelude_connection_pool_set_connection_alive, UserConnects, conf
  <2> QED BY <1>5, <2>1, <2>2 DEF Application
<1> QED BY <1>2, <1>3, <1>4, <1>5 DEF Next

\* A connection put behind a list that lacks it.
LEMMA SingleAppend ==
    ASSUME NEW S, NEW a \in Seq(S), NEW c \in S, Single(a), c \notin ToSet(a)
    PROVE  Single(Append(a, c))
<1>1. PICK t, n : t = Append(a, c) /\ n = Len(a)
  OBVIOUS
<1>2. n \in Nat /\ DOMAIN a = 1 .. n
  BY <1>1, LenProperties
<1>3. t \in Seq(S) /\ Len(t) = n + 1 /\ t[n + 1] = c /\ \A i \in 1 .. n : t[i] = a[i]
  BY <1>1, AppendProperties
<1>4. DOMAIN t = 1 .. n + 1
  BY <1>3, LenProperties
<1>5. \A i \in DOMAIN a : t[i] = a[i] /\ a[i] # c
  BY <1>2, <1>3 DEF ToSet
<1>6. ASSUME NEW i \in DOMAIN t, NEW j \in DOMAIN t, t[i] = t[j] PROVE i = j
  <2>1. (i \in DOMAIN a \/ i = n + 1) /\ (j \in DOMAIN a \/ j = n + 1)
    BY <1>2, <1>4
  <2>2. CASE i \in DOMAIN a /\ j \in DOMAIN a
    BY <1>5, <1>6, <2>2 DEF Single
  <2>3. CASE i = n + 1 \/ j = n + 1
    BY <1>3, <1>5, <1>6, <2>1, <2>3
  <2> QED BY <2>1, <2>2, <2>3
<1> QED BY <1>1, <1>6 DEF Single

\* The lists still have no repetitions.
LEMMA SinglesStep ==
    ASSUME PoolInv, Plain, Singles, [Next]_vars
    PROVE  \A l \in DOMAIN lists' : Single(lists'[l])
<1>1. CASE lists' = lists
  BY <1>1 DEF Singles
<1>2. CASE lists' = connection_string /\ connection_string \in Strings
  BY <1>2 DEF Plain
<1>3. ASSUME NEW c \in Cnx, prelude_connection_pool_add_connection(c)
      PROVE  \A l \in DOMAIN lists' : Single(lists'[l])
  <2>1. CASE lists = <<>>
    <3>1. lists' = <<<<c>>>>
      BY <1>3, <2>1 DEF prelude_connection_pool_add_connection
    <3>2. Single(<<c>>)
      BY DEF Single
    <3> QED BY <3>1, <3>2
  <2>2. CASE lists # <<>>
    <3>1. PICK a : a = lists[1]
      OBVIOUS
    <3>2. /\ DOMAIN lists' = DOMAIN lists /\ 1 \in DOMAIN lists
          /\ lists'[1] = Append(a, c) /\ \A l \in DOMAIN lists : l # 1 => lists'[l] = lists[l]
      BY <1>3, <2>2, <3>1, AddFirst
    <3>3. c \notin ToSet(a)
      BY <1>3, <3>1, <3>2 DEF prelude_connection_pool_add_connection, Pooled, Members
    <3>4. a \in Seq(Cnx)
      BY <3>1, <3>2, ElementOfSeq, LenProperties DEF PoolInv, Configured, Lists
    <3>5. Single(a)
      BY <3>1, <3>2 DEF Singles
    <3>6. Single(Append(a, c))
      BY ONLY <1>3, <3>3, <3>4, <3>5, c \in Cnx, SingleAppend
    <3> QED BY <3>2, <3>6 DEF Singles
  <2> QED BY <2>1, <2>2
<1> QED BY <1>1, <1>2, <1>3, ListsOnce

\* Every step keeps at most one copy.
LEMMA TwiceStep ==
    ASSUME PoolInv, TwiceInv, "late" \notin Faults, Plain, [Next]_vars
    PROVE  TwiceInv'
<1>1. Shape'
  BY ShapeStep DEF TwiceInv
<1> SUFFICES Singles' /\ AtMostOnce'
  BY <1>1 DEF TwiceInv
<1>2. CASE broadcast_message
  BY <1>2, BroadcastOnce
<1>3. CASE failover_flush_cnx
  BY <1>3, FlushCnxOnce
<1>4. CASE failover_flush_all
  BY <1>4, FlushAllOnce
<1>5. ASSUME NEW m \in Msg, prelude_connection_pool_broadcast(m) PROVE Singles' /\ AtMostOnce'
  BY <1>5, AppBroadcastOnce
<1>6. CASE UNCHANGED store /\ Sends' = Sends
  <2>1. saved' = saved /\ got' = got /\ global' = global /\ sent' = sent
    BY <1>6 DEF store
  <2>2. Stored
    BY DEF PoolInv
  <2>3. \A d \in Cnx, n \in Msg :
           /\ got'[d][n] \in Nat /\ Copies(saved'[d], n) \in Nat
           /\ got'[d][n] + Copies(saved'[d], n) <= got[d][n] + Copies(saved[d], n)
    <3>1. ASSUME NEW d \in Cnx, NEW n \in Msg
          PROVE  /\ got'[d][n] \in Nat /\ Copies(saved'[d], n) \in Nat
                 /\ got'[d][n] + Copies(saved'[d], n) <= got[d][n] + Copies(saved[d], n)
      <4>1. got'[d][n] = got[d][n] /\ Copies(saved'[d], n) = Copies(saved[d], n)
        BY <2>1
      <4>2. got[d][n] \in Nat /\ Copies(saved[d], n) \in Nat
        BY <2>2, CountType
      <4> QED BY ONLY <4>1, <4>2
    <3> QED BY <3>1
  <2>4. AtMostOnce'
    BY <1>6, <2>1, <2>2, <2>3, OnceKept DEF TwiceInv
  <2>5. \A l \in DOMAIN lists' : Single(lists'[l])
    BY SinglesStep DEF TwiceInv
  <2>6. Singles'
    BY <1>6, <2>5 DEF TwiceInv, Singles
  <2> QED BY <2>4, <2>6
<1>7. \/ broadcast_message \/ failover_flush_cnx \/ failover_flush_all
      \/ \E m \in Msg : prelude_connection_pool_broadcast(m)
      \/ UNCHANGED store /\ Sends' = Sends
  BY Silent DEF Next, Held, Timers, Application
<1> QED BY <1>2, <1>3, <1>4, <1>5, <1>6, <1>7

\* No manager gets a message twice and no failover keeps one that was sent or
\* is kept elsewhere, whichever connections die, come back and are flushed,
\* unless a message was sent when its failure is noticed; a connection may be in
\* several lists, but is once in each.
THEOREM PoolNothingTwice == ("late" \notin Faults /\ Plain) => (Spec => []NothingTwice)
<1> SUFFICES ASSUME "late" \notin Faults, Plain PROVE Spec => []NothingTwice
  OBVIOUS
<1>1. ASSUME Init PROVE TwiceInv
  <2>1. /\ lists = <<>> /\ stack = <<>> /\ saved = [c \in Cnx |-> <<>>] /\ global = <<>>
        /\ got = [c \in Cnx |-> [m \in Msg |-> 0]]
    BY <1>1 DEF Init
  <2>2. ToSet(stack) = {} /\ Sends = {}
    BY <2>1 DEF Sends, ToSet
  <2>3. Shape /\ Singles
    BY <2>1, <2>2 DEF Shape, Singles
  <2>4. \A m : Copies(<<>>, m) = 0
    <3>1. ASSUME NEW m PROVE Copies(<<>>, m) = 0
      <4>1. {i \in DOMAIN <<>> : <<>>[i] = m} = {}
        OBVIOUS
      <4> QED BY <4>1, FS_EmptySet DEF Copies
    <3> QED BY <3>1
  <2>5. ASSUME NEW m \in Msg, NEW c \in Cnx
        PROVE  got[c][m] + Copies(saved[c], m) + Copies(global, m) + Charge(m, c) <= Due(m)
    <3>1. got[c][m] = 0 /\ saved[c] = <<>>
      BY <2>1
    <3>2. Copies(saved[c], m) = 0 /\ Copies(global, m) = 0
      BY <2>1, <2>4, <3>1
    <3>3. Charge(m, c) = 0
      BY <2>2 DEF Charge, Pending
    <3>4. Due(m) \in Nat
      BY DEF Due
    <3> QED BY ONLY <3>1, <3>2, <3>3, <3>4
  <2> QED BY <2>3, <2>5 DEF TwiceInv, AtMostOnce
<1>2. ASSUME PoolInv, TwiceInv, [Next]_vars PROVE TwiceInv'
  BY <1>2, TwiceStep
<1>3. ASSUME PoolInv, TwiceInv PROVE NothingTwice
  <2>1. ASSUME NEW m \in Msg, NEW c \in Cnx
        PROVE  got[c][m] + Copies(saved[c], m) + Copies(global, m)
                 + (IF InFlight(m, c) THEN 1 ELSE 0) <= 1
    <3>1. got[c][m] + Copies(saved[c], m) + Copies(global, m) + Charge(m, c) <= Due(m)
      BY <1>3 DEF TwiceInv, AtMostOnce
    <3>2. got[c][m] \in Nat /\ Copies(saved[c], m) \in Nat /\ Copies(global, m) \in Nat
      BY <1>3, CountType DEF PoolInv
    <3>3. Due(m) \in {0, 1}
      BY DEF Due
    <3>4. InFlight(m, c) => Pending(m, c)
      BY DEF InFlight, Pending, Sends, ToSet
    <3>5. PICK v \in BOOLEAN : v = InFlight(m, c)
      BY DEF InFlight
    <3>6. Charge(m, c) \in Nat /\ (v => Charge(m, c) = 1)
      BY <3>4, <3>5 DEF Charge
    <3>7. got[c][m] + Copies(saved[c], m) + Copies(global, m) + (IF v THEN 1 ELSE 0) <= 1
      BY ONLY <3>1, <3>2, <3>3, <3>6
    <3> QED BY <3>5, <3>7
  <2> QED BY <2>1 DEF NothingTwice
<1> QED BY PoolInvariant, <1>1, <1>2, <1>3, PTL DEF Spec

=============================================================================
