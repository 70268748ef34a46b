------------------------------ MODULE IdentProofs ------------------------------
(* Proofs about Ident. *)
EXTENDS Ident, SequenceTheorems, TLAPS

\* A microsecond has at least one unit; timestamps are positive.
IdentConstants ==
    /\ UUIDS_PER_TICK \in Nat \ {0} /\ TimeOffset \in Nat \ {0} /\ ClockSeq \in Nat \ {0}

Idents == [time : Nat, seq : Nat, tick : Nat]

\* What is known of the identifiers generated so far: the last one is the time
\* last + tick, the others are before it, or the one before it was the last of
\* its microsecond.
LastIdent ==
    idents # <<>> =>
        /\ last # 0
        /\ idents[Len(idents)].time = last + tick /\ idents[Len(idents)].tick = tick
        /\ \A i \in 1 .. Len(idents) - 1 :
              idents[i].time < last + tick \/ (idents[i].time = last /\ tick = 0)

\* The inductive invariant.  The counter is at most UUIDS_PER_TICK, so that
\* last + tick is at most the first timestamp of the next microsecond.
IdentInv ==
    /\ clock \in Nat /\ tick \in Nat /\ last \in Nat /\ clockseq \in Nat
    /\ idents \in Seq(Idents)
    /\ tick <= UUIDS_PER_TICK
    /\ last # 0 => \E c \in Nat : c <= clock /\ last = UUIDS_PER_TICK * c + TimeOffset
    /\ LastIdent
    /\ IncreasingButForTheLast

\* The invariant holds at first,
LEMMA IdentInit ==
    ASSUME IdentConstants
    PROVE  Init => IdentInv
<1> SUFFICES ASSUME Init PROVE IdentInv
  OBVIOUS
<1>1. clock = 0 /\ last = 0 /\ tick = 0 /\ clockseq \in Nat /\ tick <= UUIDS_PER_TICK
  BY DEF Init, IdentConstants
<1>2. idents = <<>> /\ Len(idents) = 0 /\ idents \in Seq(Idents)
  BY DEF Init
<1> QED BY <1>1, <1>2 DEF IdentInv, LastIdent, IncreasingButForTheLast

\* The timestamps of an earlier microsecond are at most this one's.
LEMMA Microsecond ==
    ASSUME IdentConstants, NEW c \in Nat, NEW d \in Nat, c < d
    PROVE  UUIDS_PER_TICK * c + UUIDS_PER_TICK <= UUIDS_PER_TICK * d
<1>1. PICK e \in Nat : d = c + 1 + e
  <2>1. d - c - 1 \in Nat /\ d = c + 1 + (d - c - 1)
    OBVIOUS
  <2> QED BY <2>1
<1>2. UUIDS_PER_TICK * d = UUIDS_PER_TICK * c + UUIDS_PER_TICK + UUIDS_PER_TICK * e
  BY <1>1 DEF IdentConstants
<1>3. UUIDS_PER_TICK * e \in Nat /\ UUIDS_PER_TICK * c \in Nat /\ UUIDS_PER_TICK \in Nat
  BY DEF IdentConstants
<1> QED BY <1>2, <1>3

\* Appending an identifier keeps the order when it is greater than all, or
\* equal to the last one only, which was the last of its microsecond.
LEMMA AppendIdent ==
    ASSUME IdentInv, NEW x \in Idents,
           \A i \in 1 .. Len(idents) :
              \/ idents[i].time < x.time
              \/ /\ idents[i].time = x.time /\ i = Len(idents)
                 /\ idents[i].tick = UUIDS_PER_TICK /\ x.tick = 0,
           idents' = Append(idents, x)
    PROVE  /\ idents' \in Seq(Idents) /\ idents' # <<>> /\ idents'[Len(idents')] = x
           /\ \A i \in 1 .. Len(idents') - 1 :
                 idents'[i].time < x.time \/ (idents'[i].time = x.time /\ x.tick = 0)
           /\ IncreasingButForTheLast'
<1>1. idents \in Seq(Idents) /\ Len(idents) \in Nat /\ IncreasingButForTheLast
  BY DEF IdentInv
<1>2. /\ idents' \in Seq(Idents) /\ Len(idents') = Len(idents) + 1
      /\ idents'[Len(idents) + 1] = x
      /\ \A i \in 1 .. Len(idents) : idents'[i] = idents[i]
  BY <1>1
<1>3. idents' # <<>>
  BY <1>1, <1>2
<1>4. ASSUME NEW i \in 1 .. Len(idents') - 1
      PROVE  idents'[i].time < x.time \/ (idents'[i].time = x.time /\ x.tick = 0)
  <2>1. i \in 1 .. Len(idents)
    BY <1>1, <1>2
  <2> QED BY <1>2, <2>1
<1>5. ASSUME NEW i \in 1 .. Len(idents'), NEW j \in 1 .. Len(idents'), i < j
      PROVE  \/ idents'[i].time < idents'[j].time
             \/ /\ idents'[i].time = idents'[j].time /\ j = i + 1
                /\ idents'[i].tick = UUIDS_PER_TICK /\ idents'[j].tick = 0
  <2>1. i \in 1 .. Len(idents)
    BY <1>1, <1>2, <1>5
  <2>2. CASE j = Len(idents) + 1
    BY <1>1, <1>2, <2>1, <2>2
  <2>3. CASE j # Len(idents) + 1
    <3>1. j \in 1 .. Len(idents)
      BY <1>1, <1>2, <2>3
    <3> QED BY <1>1, <1>2, <1>5, <2>1, <3>1 DEF IncreasingButForTheLast
  <2> QED BY <2>2, <2>3
<1>6. IncreasingButForTheLast'
  BY <1>5 DEF IncreasingButForTheLast
<1> QED BY <1>2, <1>3, <1>4, <1>6

\* and every step keeps it.
LEMMA IdentStep ==
    ASSUME IdentConstants
    PROVE  IdentInv /\ [Next]_vars => IdentInv'
<1> SUFFICES ASSUME IdentInv, [Next]_vars PROVE IdentInv'
  OBVIOUS
<1> DEFINE P == UUIDS_PER_TICK
           Now == get_system_time
<1>1. /\ P \in Nat \ {0} /\ TimeOffset \in Nat \ {0} /\ clock \in Nat /\ last \in Nat
      /\ tick \in Nat /\ tick <= P /\ Now = P * clock + TimeOffset /\ Now \in Nat \ {0}
      /\ idents \in Seq(Idents) /\ Len(idents) \in Nat
  BY DEF IdentInv, IdentConstants, get_system_time
<1>2. CASE prelude_ident_generate
  <2> DEFINE x == [time |-> last' + tick', seq |-> clockseq', tick |-> tick']
  <2>1. /\ get_current_time /\ clock' = clock /\ idents' = Append(idents, x)
        /\ clockseq' = IF last' + tick' < last' THEN (clockseq + 1) % ClockSeq ELSE clockseq
    BY <1>2 DEF prelude_ident_generate, uuidgen
  <2>2. clockseq' \in Nat
    BY <2>1 DEF IdentInv, IdentConstants
  <2>3. CASE Now # last /\ last' = Now /\ tick' = 0
    <3>1. ASSUME NEW i \in 1 .. Len(idents)
          PROVE  \/ idents[i].time < Now
                 \/ idents[i].time = Now /\ i = Len(idents) /\ idents[i].tick = P
      <4>1. idents # <<>>
        BY <1>1
      <4>2. PICK c \in Nat : c <= clock /\ last = P * c + TimeOffset
        BY <4>1 DEF IdentInv, LastIdent
      <4>3. c < clock
        <5>1. c # clock
          <6>1. SUFFICES ASSUME c = clock PROVE last = Now
            BY <2>3
          <6> QED BY <1>1, <4>2, <6>1
        <5> QED BY <1>1, <4>2, <5>1
      <4>4. P * c + P <= P * clock /\ P * c \in Nat /\ P * clock \in Nat
        BY <1>1, <4>3, Microsecond
      <4> DEFINE A == P * c
                 B == P * clock
      <4>5. /\ A \in Nat /\ B \in Nat /\ A + P <= B
            /\ last = A + TimeOffset /\ Now = B + TimeOffset
        BY <1>1, <4>2, <4>4
      <4> HIDE DEF A, B
      <4>6. last + P <= Now
        BY <1>1, <4>5
      <4>7. idents[i] \in Idents
        BY <1>1, ElementOfSeq
      <4>8. idents[i].time \in Nat
        BY <4>7 DEF Idents
      <4> HIDE DEF P, Now
      <4>9. CASE i = Len(idents)
        <5>1. idents[i].time = last + tick /\ idents[i].tick = tick
          BY <4>1, <4>9 DEF IdentInv, LastIdent
        <5> QED BY <1>1, <4>6, <4>9, <5>1
      <4>10. CASE i # Len(idents)
        <5>1. i \in 1 .. Len(idents) - 1
          BY <1>1, <4>10
        <5>2. idents[i].time < last + tick \/ (idents[i].time = last /\ tick = 0)
          BY <4>1, <5>1 DEF IdentInv, LastIdent
        <5> QED BY <1>1, <4>6, <4>8, <5>2
      <4> QED BY <4>9, <4>10
    <3>2. x \in Idents /\ x.time = Now /\ x.tick = 0
      BY <1>1, <2>2, <2>3 DEF Idents
    <3> HIDE DEF x, P, Now
    <3>3. /\ idents' \in Seq(Idents) /\ idents' # <<>> /\ idents'[Len(idents')] = x
          /\ \A i \in 1 .. Len(idents') - 1 :
                idents'[i].time < x.time \/ (idents'[i].time = x.time /\ x.tick = 0)
          /\ IncreasingButForTheLast'
      BY <2>1, <3>1, <3>2, AppendIdent DEF P
    <3>4. last' + tick' = Now /\ last' # 0
      BY <1>1, <2>3
    <3>5. LastIdent'
      BY <2>3, <3>2, <3>3, <3>4 DEF LastIdent
    <3>6. \E c \in Nat : c <= clock' /\ last' = UUIDS_PER_TICK * c + TimeOffset
      <4>1. clock \in Nat /\ clock <= clock' /\ last' = UUIDS_PER_TICK * clock + TimeOffset
        BY <1>1, <2>1, <2>3 DEF P
      <4> QED BY <4>1
    <3>7. clock' \in Nat /\ tick' \in Nat /\ last' \in Nat /\ tick' <= UUIDS_PER_TICK
      BY <1>1, <2>1, <2>3 DEF P
    <3> QED BY <2>2, <3>3, <3>5, <3>6, <3>7 DEF IdentInv
  <2>4. CASE Now = last /\ tick < P /\ tick' = tick + 1 /\ last' = last
    <3>1. ASSUME NEW i \in 1 .. Len(idents) PROVE idents[i].time < last + tick + 1
      <4>1. idents # <<>>
        BY <1>1
      <4>2. idents[i] \in Idents
        BY <1>1, ElementOfSeq
      <4>3. idents[i].time \in Nat
        BY <4>2 DEF Idents
      <4>4. CASE i = Len(idents)
        <5>1. idents[i].time = last + tick
          BY <4>1, <4>4 DEF IdentInv, LastIdent
        <5> QED BY <1>1, <5>1
      <4>5. CASE i # Len(idents)
        <5>1. i \in 1 .. Len(idents) - 1
          BY <1>1, <4>5
        <5>2. idents[i].time < last + tick \/ (idents[i].time = last /\ tick = 0)
          BY <4>1, <5>1 DEF IdentInv, LastIdent
        <5> QED BY <1>1, <4>3, <5>2
      <4> QED BY <4>4, <4>5
    <3>2. /\ x \in Idents /\ x.time = last + tick + 1 /\ x.time = last' + tick'
          /\ x.tick = tick' /\ tick' # 0
      BY <1>1, <2>2, <2>4 DEF Idents
    <3> HIDE DEF x
    <3>3. /\ idents' \in Seq(Idents) /\ idents' # <<>> /\ idents'[Len(idents')] = x
          /\ \A i \in 1 .. Len(idents') - 1 :
                idents'[i].time < x.time \/ (idents'[i].time = x.time /\ x.tick = 0)
          /\ IncreasingButForTheLast'
      BY <2>1, <3>1, <3>2, AppendIdent
    <3>4. last' # 0 /\ LastIdent'
      BY <1>1, <2>4, <3>2, <3>3 DEF LastIdent
    <3>5. \E c \in Nat : c <= clock' /\ last' = UUIDS_PER_TICK * c + TimeOffset
      BY <1>1, <2>1, <2>4 DEF IdentInv
    <3>6. clock' \in Nat /\ tick' \in Nat /\ last' \in Nat /\ tick' <= UUIDS_PER_TICK
      BY <1>1, <2>1, <2>4
    <3> QED BY <2>2, <3>3, <3>4, <3>5, <3>6 DEF IdentInv
  <2> QED BY <2>1, <2>3, <2>4 DEF get_current_time
<1>3. CASE Tick
  <2>1. /\ clock' = clock + 1 /\ last' = last /\ tick' = tick
        /\ clockseq' = clockseq /\ idents' = idents
    BY <1>3 DEF Tick
  <2>2. last # 0 => \E c \in Nat : c <= clock' /\ last = P * c + TimeOffset
    <3> SUFFICES ASSUME last # 0 PROVE \E c \in Nat : c <= clock' /\ last = P * c + TimeOffset
      OBVIOUS
    <3>1. PICK c \in Nat : c <= clock /\ last = P * c + TimeOffset
      BY DEF IdentInv
    <3>2. c <= clock'
      BY <1>1, <2>1, <3>1
    <3> QED BY <3>1, <3>2
  <2>3. LastIdent' /\ IncreasingButForTheLast'
    BY <2>1 DEF IdentInv, LastIdent, IncreasingButForTheLast
  <2> QED BY <1>1, <2>1, <2>2, <2>3 DEF IdentInv
<1>4. CASE UNCHANGED vars
  BY <1>4 DEF vars, IdentInv, LastIdent, IncreasingButForTheLast
<1> QED BY <1>2, <1>3, <1>4 DEF Next

\* Identifiers grow at any speed, for ever, except that the last one a
\* microsecond has room for may equal the first of the next: no other two of an
\* analyzer are equal, as long as the clock does not go back.
THEOREM AlwaysIncreasingButForTheLast ==
    ASSUME IdentConstants
    PROVE  Spec => []IncreasingButForTheLast
<1>1. IdentInv => IncreasingButForTheLast
  BY DEF IdentInv
<1> QED BY <1>1, IdentInit, IdentStep, PTL DEF Spec
=============================================================================
