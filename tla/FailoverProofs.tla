---------------------------- MODULE FailoverProofs ----------------------------
(***************************************************************************)
(* Theorems about Failover, for every number of messages, fragments and    *)
(* crashes.                                                                *)
(***************************************************************************)
EXTENDS Failover, SequenceTheorems, FiniteSetTheorems, TLAPS

-----------------------------------------------------------------------------
(* The operators on files. *)

\* What prelude_msg_write writes is a header and Body units of payload.
LEMMA RecordProperties ==
    ASSUME NEW m \in Msgs, NEW p \in Nat
    PROVE  /\ Record(m, p) \in Seq(Units)
           /\ Len(Record(m, p)) = 1 + Body
           /\ Record(m, p)[1] = Header(m, Body, p + 1 < Parts[m])
           /\ \A j \in 1 .. Body : Record(m, p)[1 + j] = Payload(m, p * Body + j)
<1> DEFINE h == <<Header(m, Body, p + 1 < Parts[m])>>
           b == [j \in 1 .. Body |-> Payload(m, p * Body + j)]
<1>1. Body \in Nat \ {0}
  BY BodyAssumption
<1>2. p * Body \in Nat
  BY <1>1
<1>3. h \in Seq(Units) /\ Len(h) = 1 /\ h[1] = Header(m, Body, p + 1 < Parts[m])
  BY <1>1 DEF Header, Units
<1>4. b \in Seq(Units) /\ Len(b) = Body
  <2>1. \A j \in 1 .. Body : Payload(m, p * Body + j) \in Units
    BY <1>1, <1>2 DEF Payload, Units
  <2> QED BY <2>1, <1>1, IsASeq
<1>5. /\ h \o b \in Seq(Units) /\ Len(h \o b) = 1 + Body
      /\ \A i \in 1 .. 1 + Body : (h \o b)[i] = IF i <= 1 THEN h[i] ELSE b[i - 1]
  BY <1>1, <1>3, <1>4, ConcatProperties
<1>6. Record(m, p) = h \o b
  BY DEF Record
<1>7. (h \o b)[1] = h[1]
  BY <1>1, <1>5
<1>8. ASSUME NEW j \in 1 .. Body PROVE (h \o b)[1 + j] = b[j]
  <2>1. 1 + j \in 1 .. 1 + Body /\ ~ (1 + j <= 1) /\ (1 + j) - 1 = j
    BY <1>1
  <2> QED BY <2>1, <1>5
<1> HIDE DEF h, b
<1>9. \A j \in 1 .. Body : b[j] = Payload(m, p * Body + j)
  BY DEF b
<1> QED BY <1>3, <1>5, <1>6, <1>7, <1>8, <1>9

\* A message that was read and is written again: one header, then its payload.
LEMMA RewrittenProperties ==
    ASSUME NEW c \in Seq(Units), c # <<>>
    PROVE  /\ Rewritten(c) \in Seq(Units)
           /\ Len(Rewritten(c)) = 1 + Len(c)
           /\ Rewritten(c)[1] = Header(c[1].msg, Len(c), FALSE)
           /\ \A j \in 1 .. Len(c) : Rewritten(c)[1 + j] = c[j]
<1> DEFINE h == <<Header(c[1].msg, Len(c), FALSE)>>
<1>1. c[1] \in Units
  BY ElementOfSeq, EmptySeq
<1>2. h \in Seq(Units) /\ Len(h) = 1 /\ h[1] = Header(c[1].msg, Len(c), FALSE)
  BY <1>1 DEF Header, Units
<1>3. /\ h \o c \in Seq(Units) /\ Len(h \o c) = 1 + Len(c)
      /\ \A i \in 1 .. 1 + Len(c) : (h \o c)[i] = IF i <= 1 THEN h[i] ELSE c[i - 1]
  BY <1>2, ConcatProperties
<1>4. Rewritten(c) = h \o c
  BY DEF Rewritten
<1> HIDE DEF h
<1>5. Len(c) \in Nat
  OBVIOUS
<1>6. (h \o c)[1] = h[1]
  BY <1>3, <1>5
<1>7. ASSUME NEW j \in 1 .. Len(c) PROVE (h \o c)[1 + j] = c[j]
  <2>1. 1 + j \in 1 .. 1 + Len(c) /\ ~ (1 + j <= 1) /\ (1 + j) - 1 = j
    BY <1>5
  <2> QED BY <2>1, <1>3
<1> QED BY <1>2, <1>3, <1>4, <1>6, <1>7

\* A write inside or at the end of a file keeps it a sequence, and it reaches
\* at least as far as what was written.
LEMMA WriteAtType ==
    ASSUME NEW T, NEW f \in Seq(T), NEW cells \in Seq(T),
           NEW pos \in Nat, pos <= Len(f)
    PROVE  /\ WriteAt(f, pos, cells) \in Seq(T)
           /\ Len(WriteAt(f, pos, cells)) >= pos + Len(cells)
<1>1. Len(f) \in Nat /\ Len(cells) \in Nat
  OBVIOUS
<1>2. SubSeq(f, 1, pos) \in Seq(T) /\ Len(SubSeq(f, 1, pos)) = pos
  BY <1>1, SubSeqProperties
<1> DEFINE rest == SubSeq(f, pos + Len(cells) + 1, Len(f))
<1>3. rest \in Seq(T) /\ Len(rest) \in Nat
  BY <1>1, SubSeqProperties
<1> HIDE DEF rest
<1>4. /\ SubSeq(f, 1, pos) \o cells \in Seq(T)
      /\ Len(SubSeq(f, 1, pos) \o cells) = pos + Len(cells)
  BY <1>2, ConcatProperties
<1>5. /\ (SubSeq(f, 1, pos) \o cells) \o rest \in Seq(T)
      /\ Len((SubSeq(f, 1, pos) \o cells) \o rest) = pos + Len(cells) + Len(rest)
  BY <1>3, <1>4, ConcatProperties
<1>6. WriteAt(f, pos, cells) = (SubSeq(f, 1, pos) \o cells) \o rest
  BY DEF WriteAt, rest
<1> QED BY <1>1, <1>3, <1>5, <1>6

\* A write at the end of a file appends.
LEMMA WriteAtEnd ==
    ASSUME NEW T, NEW f \in Seq(T), NEW cells \in Seq(T)
    PROVE  WriteAt(f, Len(f), cells) = f \o cells
<1>1. Len(f) \in Nat /\ Len(cells) \in Nat
  OBVIOUS
<1>2. SubSeq(f, 1, Len(f)) = f
  BY SubSeqFull
<1>3. SubSeq(f, Len(f) + Len(cells) + 1, Len(f)) = <<>>
  BY <1>1, SubSeqEmpty
<1>4. f \o cells \in Seq(T)
  BY ConcatProperties
<1>5. (f \o cells) \o <<>> = f \o cells
  BY <1>4, ConcatEmptySeq
<1> QED BY <1>2, <1>3, <1>5 DEF WriteAt

\* A journal entry is two half entries with the same content.
LEMMA EntryType ==
    ASSUME NEW c \in Nat, NEW r \in Nat
    PROVE  /\ Entry(c, r) \in Seq(HalfEntries) /\ Len(Entry(c, r)) = 2
           /\ Entry(c, r)[1] = Half(1, c, r) /\ Entry(c, r)[2] = Half(2, c, r)
           /\ <<Half(1, c, r)>> \in Seq(HalfEntries) /\ Len(<<Half(1, c, r)>>) = 1
BY DEF Entry, Half, HalfEntries

\* An aligned journal entry lies within the file.
LEMMA EntryAtType ==
    ASSUME journal \in Seq(HalfEntries), NEW k \in WholeEntries
    PROVE  /\ k \in Nat /\ 2 * k <= Len(journal) /\ k >= 1
           /\ EntryAt(k) \in [count : Nat, rindex : Nat]
           /\ EntryAt(k).rindex = journal[2 * k].rindex
<1>1. Len(journal) \in Nat
  OBVIOUS
<1>2. k \in Nat /\ k >= 1 /\ 2 * k <= Len(journal)
  BY <1>1 DEF WholeEntries
<1>3. 2 * k - 1 \in 1 .. Len(journal) /\ 2 * k \in 1 .. Len(journal)
  BY <1>1, <1>2
<1>4. journal[2 * k - 1] \in HalfEntries /\ journal[2 * k] \in HalfEntries
  BY <1>3, ElementOfSeq
<1> QED BY <1>2, <1>4 DEF EntryAt, HalfEntries

-----------------------------------------------------------------------------
(* Type correctness, for every choice of fragments, modes and faults. *)

\* Why the types hold: the journal offset is inside the file, no header is
\* empty, a message in hand is not empty and was read from before the read
\* offset.
Sane ==
    /\ jpos <= Len(journal)
    /\ \A i \in 1 .. Len(data) : data[i].kind = "H" => data[i].n >= 1
    /\ part > 0 => next \in Msgs
    /\ pc = "journal" /\ ret = "saved" => next >= 2
    /\ pc = "read" => Len(cur) <= rpos
    /\ pc = "got" /\ transaction => 1 + Len(cur) <= rpos
    /\ pc = "journal" /\ ret = "got" => ~ transaction
    /\ pc \in {"truncate_data", "truncate_journal"} => ret \in {"load", "idle"}
    /\ \A i \in 1 .. Len(cur) : cur[i].kind = "H" => cur[i].n >= 1
    /\ pc \in {"commit", "got"} \/ (pc = "journal" /\ ret = "got") => cur # <<>>

TypeInv == TypeOK /\ Sane

\* Appending units whose headers are not empty keeps headers not empty.
LEMMA AppendUnits ==
    ASSUME NEW d \in Seq(Units), NEW r \in Seq(Units),
           \A i \in 1 .. Len(d) : d[i].kind = "H" => d[i].n >= 1,
           \A i \in 1 .. Len(r) : r[i].kind = "H" => r[i].n >= 1
    PROVE  /\ d \o r \in Seq(Units) /\ Len(d \o r) = Len(d) + Len(r)
           /\ \A i \in 1 .. Len(d \o r) : (d \o r)[i].kind = "H" => (d \o r)[i].n >= 1
<1>1. /\ d \o r \in Seq(Units) /\ Len(d \o r) = Len(d) + Len(r)
      /\ \A i \in 1 .. Len(d) + Len(r) :
            (d \o r)[i] = IF i <= Len(d) THEN d[i] ELSE r[i - Len(d)]
  BY ConcatProperties
<1>2. Len(d) \in Nat /\ Len(r) \in Nat
  OBVIOUS
<1>3. ASSUME NEW i \in 1 .. Len(d) + Len(r), (d \o r)[i].kind = "H"
      PROVE  (d \o r)[i].n >= 1
  <2>1. CASE i <= Len(d)
    BY <1>1, <1>2, <1>3, <2>1
  <2>2. CASE i > Len(d)
    <3>1. i - Len(d) \in 1 .. Len(r) /\ (d \o r)[i] = r[i - Len(d)]
      BY <1>1, <1>2, <2>2
    <3> QED BY <3>1, <1>3
  <2> QED BY <1>2, <2>1, <2>2
<1> QED BY <1>1, <1>3

\* The record of a fragment, or the beginning of one, has a header that is not
\* empty.
LEMMA RecordHeaders ==
    ASSUME NEW m \in Msgs, NEW p \in Nat, NEW n \in 0 .. 1 + Body
    PROVE  /\ SubSeq(Record(m, p), 1, n) \in Seq(Units)
           /\ Len(SubSeq(Record(m, p), 1, n)) = n
           /\ \A i \in 1 .. n : /\ SubSeq(Record(m, p), 1, n)[i] = Record(m, p)[i]
                                /\ Record(m, p)[i].kind = "H" => Record(m, p)[i].n >= 1
<1>1. Body \in Nat \ {0}
  BY BodyAssumption
<1>2. /\ Record(m, p) \in Seq(Units) /\ Len(Record(m, p)) = 1 + Body
      /\ Record(m, p)[1] = Header(m, Body, p + 1 < Parts[m])
      /\ \A j \in 1 .. Body : Record(m, p)[1 + j] = Payload(m, p * Body + j)
  BY RecordProperties
<1>3. \A i \in 1 .. n : Record(m, p)[i] \in Units
  BY <1>1, <1>2, ElementOfSeq
<1>4. /\ SubSeq(Record(m, p), 1, n) \in Seq(Units) /\ Len(SubSeq(Record(m, p), 1, n)) = n
      /\ \A i \in 1 .. n : SubSeq(Record(m, p), 1, n)[i] = Record(m, p)[i]
  BY <1>1, <1>3, SubSeqProperties
<1>5. ASSUME NEW i \in 1 .. n PROVE Record(m, p)[i].kind = "H" => Record(m, p)[i].n >= 1
  <2>1. CASE i = 1
    BY <1>1, <1>2, <2>1 DEF Header
  <2>2. CASE i # 1
    <3>1. i - 1 \in 1 .. Body /\ i = 1 + (i - 1)
      BY <1>1, <2>2
    <3>2. Record(m, p)[i] = Payload(m, p * Body + (i - 1))
      BY <1>2, <3>1
    <3> QED BY <3>2 DEF Payload
  <2> QED BY <2>1, <2>2
<1> QED BY <1>4, <1>5

\* The types hold at first.
LEMMA TypeInit == Init => TypeInv
<1> SUFFICES ASSUME Init PROVE TypeInv
  OBVIOUS
<1>1. <<>> \in Seq(Units) /\ <<>> \in Seq(HalfEntries) /\ <<>> \in Seq(Seq(Units))
      /\ Len(<<>>) = 0
  BY EmptySeq
<1>2. TypeOK
  <2>1. /\ data \in Seq(Units) /\ journal \in Seq(HalfEntries)
        /\ cur \in Seq(Units) /\ delivered \in Seq(Seq(Units))
    BY <1>1 DEF Init
  <2>2. next \in 1 .. MaxMsg + 1
    BY MaxMsgAssumption DEF Init
  <2>3. jent \in [count : Nat, rindex : Nat]
    BY DEF Init, ZeroEntry
  <2> QED BY <2>1, <2>2, <2>3 DEF Init, TypeOK
<1>3. Sane
  BY <1>1 DEF Init, Sane
<1> QED BY <1>2, <1>3 DEF TypeInv

\* A step keeps the types.
LEMMA TypeStep == TypeInv /\ [Next]_vars => TypeInv'
<1> SUFFICES ASSUME TypeInv, [Next]_vars PROVE TypeInv'
  OBVIOUS
<1>a. /\ Len(journal) \in Nat /\ Len(data) \in Nat /\ Len(cur) \in Nat
      /\ MaxMsg \in Nat \ {0} /\ Body \in Nat \ {0}
      /\ \A m \in Msgs : Parts[m] \in Nat \ {0}
  BY MaxMsgAssumption, BodyAssumption, PartsAssumption DEF TypeInv, TypeOK
<1>e. /\ <<>> \in Seq(Units) /\ <<>> \in Seq(HalfEntries) /\ Len(<<>>) = 0
  BY EmptySeq
<1>1. CASE prelude_failover_new
  <2>1. jent' \in [count : Nat, rindex : Nat] /\ jpos' \in Nat /\ jpos' <= Len(journal)
        /\ pc' \in {"load", "truncate_data", "failed"}
    <3>1. CASE journal = <<>>
      BY <1>1, <1>e, <3>1 DEF prelude_failover_new, ZeroEntry, WholeEntries, ValidEntries
    <3>2. CASE journal # <<>> /\ WholeEntries = {}
      BY <1>1, <1>a, <3>2 DEF prelude_failover_new, TypeInv, TypeOK, Sane, ValidEntries
    <3>3. CASE WholeEntries # {} /\ ValidEntries = {} /\ journal # <<>>
      <4>1. 1 \in WholeEntries
        BY <1>a, <3>3 DEF WholeEntries
      <4>2. 2 <= Len(journal) /\ EntryAt(1) \in [count : Nat, rindex : Nat]
        <5>1. journal \in Seq(HalfEntries)
          BY DEF TypeInv, TypeOK
        <5>2. 2 * 1 <= Len(journal) /\ EntryAt(1) \in [count : Nat, rindex : Nat]
          BY <4>1, <5>1, EntryAtType
        <5> QED BY <5>2
      <4>3. jent' = EntryAt(1) /\ jpos' = 2 /\ pc' = "truncate_data"
        BY <1>1, <3>3 DEF prelude_failover_new
      <4> QED BY <4>2, <4>3
    <3>4. CASE ValidEntries # {} /\ journal # <<>>
      <4>1. PICK k \in ValidEntries :
              /\ jpos' = 2 * k /\ jent' = Recovered(EntryAt(k))
              /\ pc' \in {"load", "truncate_data"}
        BY <1>1, <3>4 DEF prelude_failover_new, ValidEntries
      <4>2. k \in WholeEntries
        BY DEF ValidEntries
      <4>3. /\ k \in Nat /\ 2 * k <= Len(journal)
            /\ EntryAt(k) \in [count : Nat, rindex : Nat]
        BY <4>2, EntryAtType DEF TypeInv, TypeOK
      <4> QED BY <4>1, <4>3, <1>a DEF Recovered, ZeroEntry
    <3> QED BY <3>1, <3>2, <3>3, <3>4
  <2>2. /\ count' = 0 /\ rindex' = 0 /\ rpos' = 0 /\ transaction' = FALSE
        /\ cur' = <<>> /\ part' = 0 /\ flushing' = FALSE /\ ret' = "load"
        /\ UNCHANGED <<data, journal, next, acked, delivered, crashes, exposed>>
    BY <1>1 DEF prelude_failover_new, disk, hist
  <2>3. TypeOK'
    BY <1>e, <2>1, <2>2 DEF TypeInv, TypeOK
  <2>4. Sane'
    BY <1>e, <2>1, <2>2 DEF TypeInv, Sane
  <2> QED BY <2>3, <2>4 DEF TypeInv
<1>2. CASE JournalLoad
  BY <1>2 DEF JournalLoad, TypeInv, TypeOK, Sane, disk, app, hist
<1>3. CASE SetTransaction
  BY <1>3, ModesAssumption DEF SetTransaction, TypeInv, TypeOK, Sane, disk, call, app, hist
<1>4. CASE journal_write
  <2>1. Entry(count, rindex) \in Seq(HalfEntries) /\ Len(Entry(count, rindex)) = 2
    BY EntryType DEF TypeInv, TypeOK
  <2>2. journal' \in Seq(HalfEntries) /\ jpos' \in Nat /\ jpos' <= Len(journal')
    <3>1. /\ WriteAt(journal, jpos, Entry(count, rindex)) \in Seq(HalfEntries)
          /\ Len(WriteAt(journal, jpos, Entry(count, rindex))) >= jpos + 2
      BY <2>1, WriteAtType DEF TypeInv, TypeOK, Sane
    <3> QED BY <1>4, <3>1 DEF journal_write, TypeInv, TypeOK
  <2> QED BY <1>4, <1>a, <2>2 DEF journal_write, Return, TypeInv, TypeOK, Sane, Msgs, app
<1>5. CASE JournalShort
  <2>1. <<Half(1, count, rindex)>> \in Seq(HalfEntries) /\ Len(<<Half(1, count, rindex)>>) = 1
    BY EntryType DEF TypeInv, TypeOK
  <2>2. journal' \in Seq(HalfEntries) /\ jpos' \in Nat /\ jpos' <= Len(journal')
    <3>1. /\ WriteAt(journal, jpos, <<Half(1, count, rindex)>>) \in Seq(HalfEntries)
          /\ Len(WriteAt(journal, jpos, <<Half(1, count, rindex)>>)) >= jpos + 1
      BY <2>1, WriteAtType DEF TypeInv, TypeOK, Sane
    <3> QED BY <1>5, <3>1 DEF JournalShort, TypeInv, TypeOK
  <2> QED BY <1>5, <1>a, <2>2 DEF JournalShort, Return, TypeInv, TypeOK, Sane, Msgs, app
<1>6. CASE TruncateData
  BY <1>6, <1>e DEF TruncateData, TypeInv, TypeOK, Sane, handle, app, hist
<1>7. CASE TruncateJournal
  BY <1>7, <1>e DEF TruncateJournal, TypeInv, TypeOK, Sane, app, hist
<1>8. CASE prelude_failover_save_msg
  <2>1. next \in Msgs /\ part \in Nat
    BY <1>8 DEF prelude_failover_save_msg, TypeInv, TypeOK
  <2>2. /\ Record(next, part) \in Seq(Units) /\ Len(Record(next, part)) = 1 + Body
        /\ \A i \in 1 .. 1 + Body : Record(next, part)[i].kind = "H" => Record(next, part)[i].n >= 1
    <3>1. 1 + Body \in 0 .. 1 + Body
      BY <1>a
    <3> QED BY <2>1, <3>1, RecordProperties, RecordHeaders
  <2>3. /\ data' \in Seq(Units)
        /\ \A i \in 1 .. Len(data') : data'[i].kind = "H" => data'[i].n >= 1
    <3>1. data' = data \o Record(next, part)
      BY <1>8 DEF prelude_failover_save_msg
    <3>2. data \in Seq(Units) /\ \A i \in 1 .. Len(data) : data[i].kind = "H" => data[i].n >= 1
      BY DEF TypeInv, TypeOK, Sane
    <3>3. PICK r : r = Record(next, part)
      OBVIOUS
    <3>4. r \in Seq(Units) /\ \A i \in 1 .. Len(r) : r[i].kind = "H" => r[i].n >= 1
      BY ONLY <2>2, <3>3
    <3>5. data \o r \in Seq(Units) /\ \A i \in 1 .. Len(data \o r) : (data \o r)[i].kind = "H" => (data \o r)[i].n >= 1
      BY ONLY <3>2, <3>4, AppendUnits, ZenonT(60)
    <3> QED BY ONLY <3>1, <3>3, <3>5
  <2>4. /\ next' \in 1 .. MaxMsg + 1 /\ part' \in Nat /\ (part' > 0 => next' \in Msgs)
        /\ pc' \in {"journal", "idle"} /\ ret' \in {"down", "load", "idle", "saved", "got"}
        /\ (pc' = "journal" => ret' = "saved" /\ next' >= 2) /\ count' \in Nat
    BY <1>8, <1>a, <2>1, SMTT(90) DEF prelude_failover_save_msg, Advance, LastPart, TypeInv, TypeOK, Msgs
  <2>5. UNCHANGED <<journal, rindex, rpos, jpos, transaction, jent, cur, flushing,
                    acked, delivered, crashes, exposed>>
    BY <1>8 DEF prelude_failover_save_msg, hist
  <2>6. TypeOK'
    BY <2>3, <2>4, <2>5 DEF TypeInv, TypeOK
  <2>7. Sane'
    BY <2>3, <2>4, <2>5 DEF TypeInv, Sane
  <2> QED BY <2>6, <2>7 DEF TypeInv
<1>9. CASE SaveShort
  <2>1. next \in Msgs /\ part \in Nat
    BY <1>9 DEF SaveShort, TypeInv, TypeOK
  <2>2. PICK n \in 0 .. Body : data' = data \o SubSeq(Record(next, part), 1, n)
    BY <1>9 DEF SaveShort
  <2>3. n \in 0 .. 1 + Body
    BY <1>a
  <2> DEFINE r == SubSeq(Record(next, part), 1, n)
  <2>4. r \in Seq(Units) /\ Len(r) = n /\ \A i \in 1 .. n : r[i].kind = "H" => r[i].n >= 1
    BY <2>1, <2>3, RecordHeaders
  <2>5. /\ data' \in Seq(Units)
        /\ \A i \in 1 .. Len(data') : data'[i].kind = "H" => data'[i].n >= 1
    <3>1. data \in Seq(Units) /\ \A i \in 1 .. Len(data) : data[i].kind = "H" => data[i].n >= 1
      BY DEF TypeInv, TypeOK, Sane
    <3> HIDE DEF r
    <3>2. data' = data \o r
      BY <2>2 DEF r
    <3>3. \A i \in 1 .. Len(r) : r[i].kind = "H" => r[i].n >= 1
      BY ONLY <2>4
    <3>4. data \o r \in Seq(Units) /\ \A i \in 1 .. Len(data \o r) : (data \o r)[i].kind = "H" => (data \o r)[i].n >= 1
      BY ONLY <2>4, <3>1, <3>3, AppendUnits, ZenonT(60)
    <3> QED BY ONLY <3>2, <3>4
  <2> QED BY <1>9, <1>a, <2>1, <2>5, SMTT(90)
        DEF SaveShort, Advance, LastPart, TypeInv, TypeOK, Sane, Msgs, handle, call, hist
<1>10. CASE failover_flush
  BY <1>10 DEF failover_flush, TypeInv, TypeOK, Sane, disk, handle, call, hist
<1>11. CASE prelude_failover_get_saved_msg
  BY <1>11, <1>e DEF prelude_failover_get_saved_msg, TypeInv, TypeOK, Sane, disk, handle, app, hist
<1>12. CASE ReadRecord
  <2> DEFINE h == data[rpos + 1]
             s == SubSeq(data, rpos + 2, rpos + 1 + h.n)
  <2>1. /\ rpos \in Nat /\ rpos < Len(data) /\ h.kind = "H"
        /\ rpos + 1 + h.n <= Len(data)
    BY <1>12 DEF ReadRecord, Readable, TypeInv, TypeOK
  <2>2. h \in Units /\ h.n \in Nat /\ h.n >= 1 /\ h.frag \in BOOLEAN
    <3>1. rpos + 1 \in 1 .. Len(data)
      BY <2>1, <1>a
    <3>2. h \in Units
      BY <3>1, ElementOfSeq DEF TypeInv, TypeOK
    <3> QED BY <2>1, <3>1, <3>2 DEF TypeInv, Sane, Units
  <2>3. \A i \in rpos + 2 .. rpos + 1 + h.n : data[i] \in Units
    BY <2>1, <2>2, <1>a, ElementOfSeq, SMTT(60) DEF TypeInv, TypeOK
  <2>4. s \in Seq(Units) /\ Len(s) = h.n
    BY <2>1, <2>2, <2>3, SubSeqProperties
  <2>5. /\ cur' = cur \o s /\ rpos' = rpos + 1 + h.n
        /\ pc' = IF h.frag THEN "read" ELSE IF transaction THEN "got" ELSE "commit"
        /\ pc = "read"
        /\ UNCHANGED <<disk, count, rindex, jpos, transaction, ret, jent, app, hist>>
    BY <1>12 DEF ReadRecord
  <2>7. cur \in Seq(Units)
    BY DEF TypeInv, TypeOK
  <2> HIDE DEF s, h
  <2>8. cur \o s \in Seq(Units) /\ Len(cur \o s) = Len(cur) + Len(s)
    BY <2>4, <2>7, ConcatProperties
  <2>6. cur' \in Seq(Units) /\ Len(cur') = Len(cur) + h.n /\ cur' # <<>>
    BY <2>2, <2>4, <2>5, <2>8, <1>a, <1>e
  <2>9. \A i \in 1 .. Len(cur') : cur'[i].kind = "H" => cur'[i].n >= 1
    <3>1. ASSUME NEW i \in 1 .. Len(s)
          PROVE  s[i] = data[rpos + 1 + i] /\ rpos + 1 + i \in 1 .. Len(data)
      <4>1. s = SubSeq(data, rpos + 2, rpos + 1 + h.n)
        BY DEF s
      <4>2. i \in 1 .. h.n
        BY <2>4
      <4>3. /\ rpos + 1 + i \in 1 .. Len(data) /\ rpos + 2 + i - 1 = rpos + 1 + i
            /\ i \in 1 .. (rpos + 1 + h.n) - (rpos + 2) + 1
        BY <1>a, <2>1, <2>2, <4>2
      <4>4. rpos + 2 \in Int /\ rpos + 1 + h.n \in Int
        BY <2>1, <2>2
      <4>5. s[i] = data[rpos + 2 + i - 1]
        BY <2>3, <4>1, <4>3, <4>4, SubSeqProperties
      <4> QED BY <4>3, <4>5
    <3>2. \A i \in 1 .. Len(s) : s[i].kind = "H" => s[i].n >= 1
      BY <3>1 DEF TypeInv, Sane
    <3>3. \A i \in 1 .. Len(cur) : cur[i].kind = "H" => cur[i].n >= 1
      BY DEF TypeInv, Sane
    <3> QED BY <2>4, <2>5, <2>7, <3>2, <3>3, AppendUnits
  <2>10. TypeOK'
    <3>1. rpos' \in Nat /\ pc' \in {"read", "got", "commit"}
      BY <2>1, <2>2, <2>5
    <3>2. UNCHANGED <<data, journal, count, rindex, jpos, transaction, ret, jent,
                      next, part, flushing, acked, delivered, crashes, exposed>>
      BY <2>5 DEF disk, app, hist
    <3> QED BY <2>6, <3>1, <3>2 DEF TypeInv, TypeOK
  <2>11. Sane'
    <3>1. Len(cur) <= rpos
      BY <2>5 DEF TypeInv, Sane
    <3>2. Len(cur') <= rpos' /\ 1 + Len(cur') <= rpos'
      BY <1>a, <2>1, <2>2, <2>5, <2>6, <3>1
    <3>3. pc' \in {"read", "got", "commit"}
      BY <2>5
    <3>4. UNCHANGED <<data, journal, jpos, next, part>>
      BY <2>5 DEF disk, app
    <3> QED BY <2>6, <2>9, <3>2, <3>3, <3>4 DEF TypeInv, Sane
  <2> QED BY <2>10, <2>11 DEF TypeInv
<1>13. CASE ReadFails
  <2>1. TypeOK'
    BY <1>13, <1>e DEF ReadFails, TypeInv, TypeOK, disk, handle, hist
  <2>2. Sane'
    BY <1>13, <1>e DEF ReadFails, TypeInv, Sane, disk, handle, hist
  <2> QED BY <2>1, <2>2 DEF TypeInv
<1>14. CASE prelude_failover_commit
  BY <1>14, <1>a DEF prelude_failover_commit, GetLen, TypeInv, TypeOK, Sane, disk, app, hist
<1>15. CASE Deliver
  <2>1. delivered' \in Seq(Seq(Units))
    BY <1>15, AppendProperties DEF Deliver, TypeInv, TypeOK
  <2> QED BY <1>15, <2>1 DEF Deliver, TypeInv, TypeOK, Sane, disk, handle, app
<1>16. CASE SendFails
  <2>1. cur \in Seq(Units) /\ cur # <<>>
    BY <1>16 DEF SendFails, TypeInv, TypeOK, Sane
  <2>2. /\ Rewritten(cur) \in Seq(Units) /\ Len(Rewritten(cur)) = 1 + Len(cur)
        /\ Rewritten(cur)[1] = Header(cur[1].msg, Len(cur), FALSE)
        /\ \A j \in 1 .. Len(cur) : Rewritten(cur)[1 + j] = cur[j]
    BY <2>1, RewrittenProperties
  <2>3. \A i \in 1 .. 1 + Len(cur) : Rewritten(cur)[i].kind = "H" => Rewritten(cur)[i].n >= 1
    <3> SUFFICES ASSUME NEW i \in 1 .. 1 + Len(cur), Rewritten(cur)[i].kind = "H"
                 PROVE  Rewritten(cur)[i].n >= 1
      OBVIOUS
    <3>1. CASE i = 1
      BY <2>1, <2>2, <3>1, EmptySeq DEF Header
    <3>2. CASE i # 1
      <4>1. i - 1 \in 1 .. Len(cur) /\ i = 1 + (i - 1)
        BY <1>a, <3>2
      <4>2. Rewritten(cur)[i] = cur[i - 1]
        BY <2>2, <4>1
      <4> QED BY <4>1, <4>2 DEF TypeInv, Sane
    <3> QED BY <3>1, <3>2
  <2>4. /\ data' \in Seq(Units)
        /\ \A i \in 1 .. Len(data') : data'[i].kind = "H" => data'[i].n >= 1
    BY <1>16, <2>2, <2>3, AppendUnits DEF SendFails, TypeInv, TypeOK, Sane
  <2>5. TypeOK'
    <3>1. count' \in Nat /\ flushing' = FALSE
          /\ pc' = "journal" /\ ret' = "idle"
          /\ UNCHANGED <<journal, rindex, rpos, jpos, transaction, jent, cur, next,
                         part, acked, delivered, crashes, exposed>>
      BY <1>16 DEF SendFails, TypeInv, TypeOK, hist
    <3> QED BY <2>4, <3>1 DEF TypeInv, TypeOK
  <2>6. Sane'
    BY <1>16, <2>4 DEF SendFails, TypeInv, Sane, hist
  <2> QED BY <2>5, <2>6 DEF TypeInv
<1>17. CASE prelude_failover_rollback
  <2>1. rpos' \in Nat
    BY <1>17, <1>a DEF prelude_failover_rollback, GetLen, TypeInv, TypeOK, Sane
  <2>2. flushing' = FALSE /\ pc' = "idle"
        /\ UNCHANGED <<data, journal, count, rindex, jpos, transaction, ret, jent, cur,
                       next, part, acked, delivered, crashes, exposed>>
    BY <1>17 DEF prelude_failover_rollback, disk, hist
  <2>3. TypeOK'
    BY <2>1, <2>2 DEF TypeInv, TypeOK
  <2>4. Sane'
    BY <2>2 DEF TypeInv, Sane
  <2> QED BY <2>3, <2>4 DEF TypeInv
<1>18. CASE Crash
  <2>1. next' \in 1 .. MaxMsg + 1
    BY <1>18, <1>a DEF Crash, TypeInv, TypeOK, Sane, Msgs
  <2>2. TypeOK'
    <3>1. /\ count' = 0 /\ rindex' = 0 /\ rpos' = 0 /\ jpos' = 0 /\ transaction' = FALSE
          /\ pc' = "down" /\ ret' = "down" /\ jent' = [count |-> 0, rindex |-> 0]
          /\ cur' = <<>> /\ part' = 0 /\ flushing' = FALSE
          /\ crashes' \in Nat /\ exposed' \in Nat
          /\ UNCHANGED <<data, journal, acked, delivered>>
      BY <1>18 DEF Crash, TypeInv, TypeOK, ZeroEntry, disk
    <3> QED BY <1>e, <2>1, <3>1 DEF TypeInv, TypeOK
  <2>3. Sane'
    BY <1>18, <1>e, <1>a DEF Crash, TypeInv, Sane, disk
  <2> QED BY <2>2, <2>3 DEF TypeInv
<1>19. CASE UNCHANGED vars
  BY <1>19 DEF vars, disk, handle, call, app, hist, TypeInv, TypeOK, Sane
<1> QED BY <1>1, <1>2, <1>3, <1>4, <1>5, <1>6, <1>7, <1>8, <1>9, <1>10, <1>11, <1>12,
           <1>13, <1>14, <1>15, <1>16, <1>17, <1>18, <1>19 DEF Next, Step

\* Type correctness of the failover: in particular count and the two offsets
\* never become negative, whatever was cut short and whenever it crashed.
THEOREM TypeCorrect == Spec => []TypeOK
<1>1. TypeInv => TypeOK
  BY DEF TypeInv
<1> QED BY <1>1, TypeInit, TypeStep, PTL DEF Spec

-----------------------------------------------------------------------------
(* Records are read whole when no message is fragmented and no write is    *)
(* cut short, however often the process crashes.  Both conditions are      *)
(* needed: section 3 of README.md says what happens without them.          *)

OneFragment   == \A m \in Msgs : Parts[m] = 1
NoShortWrites == Faults \subseteq {"crash"}

\* d is a sequence of whole records, each of an unfragmented message.
WellFormed(d) ==
    \A i \in 1 .. Len(d) : d[i].kind = "H" =>
        /\ d[i].n = Body /\ d[i].frag = FALSE /\ i + Body <= Len(d)
        /\ \A j \in 1 .. Body : d[i + j] = Payload(d[i].msg, j)
        /\ i + Body < Len(d) => d[i + Body + 1].kind = "H"

\* Offset p is the beginning of a record of d, or its end.
Boundary(d, p) == p <= Len(d) /\ (p < Len(d) => d[p + 1].kind = "H")

\* The journal is made of whole entries and its offset is at the end.
JournalInv ==
    /\ \E q \in 0 .. Len(journal) : Len(journal) = 2 * q
    /\ \A k \in WholeEntries : CrcOk(k)
    /\ pc # "down" => jpos = Len(journal)
    /\ pc # "failed"

\* Every read index in the journal is a boundary, except while the journal
\* still describes data that was just truncated.
JournalIndexInv ==
    data # <<>> \/ pc \notin {"down", "truncate_data", "truncate_journal"}
        => \A i \in 1 .. Len(journal) : Boundary(data, journal[i].rindex)

\* What recovery is about to use.
RecoveryInv ==
    /\ pc = "load" \/ (pc = "journal" /\ ret = "load") => Boundary(data, jent.rindex)
    /\ pc \in {"truncate_data", "truncate_journal"} /\ ret = "load" => jent = ZeroEntry
    /\ pc = "truncate_journal" => data = <<>>

\* The read index against the read offset and the message in hand.
IndexInv ==
    /\ pc \in {"idle", "read", "commit", "got", "journal"} => Boundary(data, rindex)
    /\ pc \in {"idle", "read", "journal"} \/ (pc = "got" /\ ~ transaction) => rpos = rindex
    /\ pc = "read" => cur = <<>>
    /\ pc = "commit" \/ (pc = "got" /\ transaction) =>
          rpos = rindex + 1 + Body /\ Boundary(data, rpos)
    /\ pc \in {"commit", "got"} \/ (pc = "journal" /\ ret = "got")
          => \E m \in Msgs : cur = Whole(m)

FileInv ==
    /\ TypeInv /\ WellFormed(data) /\ JournalInv /\ JournalIndexInv
    /\ RecoveryInv /\ IndexInv /\ DeliveredWhole /\ part = 0

\* What is appended: a header and the payload of an unfragmented message.
IsRecord(r) ==
    /\ r \in Seq(Units) /\ Len(r) = 1 + Body
    /\ r[1].kind = "H" /\ r[1].n = Body /\ r[1].frag = FALSE
    /\ \A j \in 1 .. Body : r[1 + j] = Payload(r[1].msg, j)

\* An unfragmented message has Body units of payload.
LEMMA WholeProperties ==
    ASSUME OneFragment, NEW m \in Msgs
    PROVE  /\ Whole(m) \in Seq(Units) /\ Len(Whole(m)) = Body
           /\ \A j \in 1 .. Body : Whole(m)[j] = Payload(m, j)
           /\ Whole(m) # <<>>
<1>1. Body \in Nat \ {0} /\ Parts[m] * Body = Body
  BY BodyAssumption DEF OneFragment
<1>2. Whole(m) = [j \in 1 .. Body |-> Payload(m, j)]
  BY <1>1 DEF Whole
<1>3. \A j \in 1 .. Body : Payload(m, j) \in Units
  BY <1>1 DEF Payload, Units
<1> DEFINE w == [j \in 1 .. Body |-> Payload(m, j)]
<1>4. w \in Seq(Units) /\ Len(w) = Body /\ \A j \in 1 .. Body : w[j] = Payload(m, j)
  BY <1>1, <1>3
<1> HIDE DEF w
<1>5. w # <<>>
  BY <1>1, <1>4, EmptySeq
<1>6. w = Whole(m)
  BY <1>2 DEF w
<1> QED BY <1>4, <1>5, <1>6

\* save_msg of an unfragmented message appends such a record ...
LEMMA SavedIsRecord ==
    ASSUME OneFragment, NEW m \in Msgs
    PROVE  IsRecord(Record(m, 0))
<1>1. /\ Record(m, 0) \in Seq(Units) /\ Len(Record(m, 0)) = 1 + Body
      /\ Record(m, 0)[1] = Header(m, Body, 0 + 1 < Parts[m])
      /\ \A j \in 1 .. Body : Record(m, 0)[1 + j] = Payload(m, 0 * Body + j)
  BY RecordProperties
<1>2. Body \in Nat /\ (0 + 1 < Parts[m]) = FALSE /\ \A j \in 1 .. Body : 0 * Body + j = j
  BY BodyAssumption DEF OneFragment
<1>3. Record(m, 0)[1] = Header(m, Body, FALSE)
  BY <1>1, <1>2
<1>4. \A j \in 1 .. Body : Record(m, 0)[1 + j] = Payload(m, j)
  BY <1>1, <1>2
<1> QED BY <1>1, <1>3, <1>4 DEF IsRecord, Header

\* ... and so does saving again a message that was read back whole.
LEMMA RewrittenIsRecord ==
    ASSUME OneFragment, NEW m \in Msgs
    PROVE  IsRecord(Rewritten(Whole(m)))
<1> DEFINE w == Whole(m)
<1>1. /\ w \in Seq(Units) /\ Len(w) = Body /\ w # <<>>
      /\ \A j \in 1 .. Body : w[j] = Payload(m, j)
  BY WholeProperties
<1> HIDE DEF w
<1>2. /\ Rewritten(w) \in Seq(Units) /\ Len(Rewritten(w)) = 1 + Len(w)
      /\ Rewritten(w)[1] = Header(w[1].msg, Len(w), FALSE)
      /\ \A j \in 1 .. Len(w) : Rewritten(w)[1 + j] = w[j]
  BY <1>1, RewrittenProperties
<1>3. w[1].msg = m
  BY <1>1, BodyAssumption DEF Payload
<1>4. IsRecord(Rewritten(w))
  BY <1>1, <1>2, <1>3 DEF IsRecord, Header
<1> QED BY <1>4 DEF w

\* Appending a record keeps the file well formed and its boundaries where
\* they were; the old end becomes the beginning of the new record.
LEMMA AppendRecord ==
    ASSUME NEW d \in Seq(Units), NEW r, WellFormed(d), IsRecord(r)
    PROVE  /\ WellFormed(d \o r)
           /\ \A p \in Nat : Boundary(d, p) => Boundary(d \o r, p)
<1> DEFINE e == d \o r
<1>1. Body \in Nat \ {0} /\ Len(d) \in Nat /\ Len(r) = 1 + Body
  BY BodyAssumption DEF IsRecord
<1>2. /\ e \in Seq(Units) /\ Len(e) = Len(d) + 1 + Body
      /\ \A i \in 1 .. Len(d) : e[i] = d[i]
      /\ \A i \in 1 .. 1 + Body : e[Len(d) + i] = r[i]
  <2>1. /\ e \in Seq(Units) /\ Len(e) = Len(d) + Len(r)
        /\ \A i \in 1 .. Len(d) + Len(r) : e[i] = IF i <= Len(d) THEN d[i] ELSE r[i - Len(d)]
    BY ConcatProperties DEF IsRecord
  <2> HIDE DEF e
  <2>2. Len(e) = Len(d) + 1 + Body
    BY <1>1, <2>1
  <2>3. ASSUME NEW i \in 1 .. Len(d) PROVE e[i] = d[i]
    <3>1. i \in 1 .. Len(d) + Len(r) /\ i <= Len(d)
      BY <1>1
    <3> QED BY <2>1, <3>1
  <2>4. ASSUME NEW i \in 1 .. 1 + Body PROVE e[Len(d) + i] = r[i]
    <3>1. /\ Len(d) + i \in 1 .. Len(d) + Len(r) /\ ~(Len(d) + i <= Len(d))
          /\ Len(d) + i - Len(d) = i
      BY <1>1
    <3> QED BY <2>1, <3>1
  <2> QED BY <2>1, <2>2, <2>3, <2>4
<1> HIDE DEF e
<1>3. e[Len(d) + 1] = r[1] /\ \A j \in 1 .. Body : e[Len(d) + 1 + j] = r[1 + j]
  <2>1. 1 \in 1 .. 1 + Body
    BY <1>1
  <2>2. ASSUME NEW j \in 1 .. Body
        PROVE  1 + j \in 1 .. 1 + Body /\ Len(d) + (1 + j) = Len(d) + 1 + j
    BY <1>1
  <2> QED BY <1>2, <2>1, <2>2
<1>4. WellFormed(e)
  <2> SUFFICES ASSUME NEW i \in 1 .. Len(e), e[i].kind = "H"
               PROVE  /\ e[i].n = Body /\ e[i].frag = FALSE /\ i + Body <= Len(e)
                      /\ \A j \in 1 .. Body : e[i + j] = Payload(e[i].msg, j)
                      /\ i + Body < Len(e) => e[i + Body + 1].kind = "H"
    BY DEF WellFormed
  <2>1. CASE i <= Len(d)
    <3>1. i \in 1 .. Len(d) /\ e[i] = d[i] /\ d[i].kind = "H"
      BY <1>1, <1>2, <2>1
    <3>2. /\ d[i].n = Body /\ d[i].frag = FALSE /\ i + Body <= Len(d)
          /\ \A j \in 1 .. Body : d[i + j] = Payload(d[i].msg, j)
          /\ i + Body < Len(d) => d[i + Body + 1].kind = "H"
      BY <3>1 DEF WellFormed
    <3>3. ASSUME NEW j \in 1 .. Body PROVE e[i + j] = d[i + j]
      <4>1. i \in Nat /\ i >= 1 /\ i + Body <= Len(d)
        BY <3>1, <3>2
      <4>2. i + j \in 1 .. Len(d)
        BY <1>1, <4>1
      <4> QED BY <1>2, <4>2
    <3>4. e[i + Body + 1].kind = "H"
      <4>1. CASE i + Body < Len(d)
        <5>1. i + Body + 1 \in 1 .. Len(d)
          BY <1>1, <4>1
        <5>2. e[i + Body + 1] = d[i + Body + 1]
          BY <1>2, <5>1
        <5>3. d[i + Body + 1].kind = "H"
          BY <3>2, <4>1
        <5> QED BY <5>2, <5>3
      <4>2. CASE i + Body = Len(d)
        BY <1>3, <4>2 DEF IsRecord
      <4> QED BY <1>1, <3>2, <4>1, <4>2
    <3>5. i + Body <= Len(e)
      BY <1>1, <1>2, <3>2
    <3> QED BY <3>1, <3>2, <3>3, <3>4, <3>5
  <2>2. CASE i = Len(d) + 1
    BY <1>1, <1>2, <1>3, <2>2 DEF IsRecord
  <2>3. CASE i > Len(d) + 1
    <3>1. i - Len(d) - 1 \in 1 .. Body /\ i = Len(d) + 1 + (i - Len(d) - 1)
      BY <1>1, <1>2, <2>3
    <3>2. e[i] = Payload(r[1].msg, i - Len(d) - 1)
      BY <1>3, <3>1 DEF IsRecord
    <3> QED BY <3>2 DEF Payload
  <2>4. i <= Len(d) \/ i = Len(d) + 1 \/ i > Len(d) + 1
    BY <1>1
  <2> QED BY <2>1, <2>2, <2>3, <2>4
<1>5. ASSUME NEW p \in Nat, Boundary(d, p) PROVE Boundary(e, p)
  <2>1. CASE p < Len(d)
    BY <1>1, <1>2, <1>5, <2>1 DEF Boundary
  <2>2. CASE p = Len(d)
    BY <1>1, <1>2, <1>3, <2>2 DEF Boundary, IsRecord
  <2> QED BY <1>1, <1>5, <2>1, <2>2 DEF Boundary
<1> QED BY <1>4, <1>5 DEF e

\* The invariant of the files holds at first.
LEMMA FileInit == Init => FileInv
<1> SUFFICES ASSUME Init PROVE FileInv
  OBVIOUS
<1>1. Len(<<>>) = 0
  BY EmptySeq
<1>2. TypeInv
  BY TypeInit
<1>3. WellFormed(data) /\ DeliveredWhole /\ part = 0
  BY <1>1 DEF Init, WellFormed, DeliveredWhole
<1>4. JournalInv
  BY <1>1 DEF Init, JournalInv, WholeEntries
<1>5. JournalIndexInv /\ RecoveryInv /\ IndexInv
  BY <1>1 DEF Init, JournalIndexInv, RecoveryInv, IndexInv
<1> QED BY <1>2, <1>3, <1>4, <1>5 DEF FileInv

\* The counters that are read back from the journal are numbers.
LEMMA JournalRindexType ==
    ASSUME journal \in Seq(HalfEntries)
    PROVE  \A i \in 1 .. Len(journal) : journal[i].rindex \in Nat
<1> SUFFICES ASSUME NEW i \in 1 .. Len(journal) PROVE journal[i].rindex \in Nat
  OBVIOUS
<1>1. journal[i] \in HalfEntries
  BY ElementOfSeq
<1> QED BY <1>1 DEF HalfEntries

\* The journal, whole entries only, grows by one: its entries stay good.
LEMMA AppendEntry ==
    ASSUME journal \in Seq(HalfEntries), NEW c \in Nat, NEW r \in Nat,
           \E q \in 0 .. Len(journal) : Len(journal) = 2 * q,
           \A k \in WholeEntries : CrcOk(k),
           journal' = journal \o Entry(c, r)
    PROVE  /\ journal' \in Seq(HalfEntries) /\ Len(journal') = Len(journal) + 2
           /\ \A i \in 1 .. Len(journal) : journal'[i] = journal[i]
           /\ journal'[Len(journal) + 1] = Half(1, c, r)
           /\ journal'[Len(journal) + 2] = Half(2, c, r)
           /\ \E q \in 0 .. Len(journal') : Len(journal') = 2 * q
           /\ (\A k \in WholeEntries : CrcOk(k))'
<1>1. Len(journal) \in Nat
  OBVIOUS
<1>2. /\ Entry(c, r) \in Seq(HalfEntries) /\ Len(Entry(c, r)) = 2
      /\ Entry(c, r)[1] = Half(1, c, r) /\ Entry(c, r)[2] = Half(2, c, r)
  BY EntryType
<1>3. /\ journal' \in Seq(HalfEntries) /\ Len(journal') = Len(journal) + 2
      /\ \A i \in 1 .. Len(journal) + 2 :
            journal'[i] = IF i <= Len(journal) THEN journal[i] ELSE Entry(c, r)[i - Len(journal)]
  <2> DEFINE e == Entry(c, r)
  <2> HIDE DEF e
  <2>1. e \in Seq(HalfEntries) /\ Len(e) = 2
    BY <1>2 DEF e
  <2>2. /\ journal \o e \in Seq(HalfEntries) /\ Len(journal \o e) = Len(journal) + Len(e)
        /\ \A i \in 1 .. Len(journal) + Len(e) :
              (journal \o e)[i] = IF i <= Len(journal) THEN journal[i] ELSE e[i - Len(journal)]
    BY <2>1, ConcatProperties
  <2>3. journal' = journal \o e
    BY DEF e
  <2>4. e = Entry(c, r)
    BY DEF e
  <2> QED BY <2>1, <2>2, <2>3, <2>4
<1>4. /\ \A i \in 1 .. Len(journal) : journal'[i] = journal[i]
      /\ journal'[Len(journal) + 1] = Half(1, c, r)
      /\ journal'[Len(journal) + 2] = Half(2, c, r)
  <2>1. \A i \in 1 .. Len(journal) : journal'[i] = journal[i]
    BY <1>1, <1>3
  <2>2. journal'[Len(journal) + 1] = Entry(c, r)[1]
    <3>1. /\ Len(journal) + 1 \in 1 .. Len(journal) + 2 /\ ~ (Len(journal) + 1 <= Len(journal))
          /\ (Len(journal) + 1) - Len(journal) = 1
      BY <1>1
    <3> QED BY <1>3, <3>1
  <2>3. journal'[Len(journal) + 2] = Entry(c, r)[2]
    <3>1. /\ Len(journal) + 2 \in 1 .. Len(journal) + 2 /\ ~ (Len(journal) + 2 <= Len(journal))
          /\ (Len(journal) + 2) - Len(journal) = 2
      BY <1>1
    <3> QED BY <1>3, <3>1
  <2> QED BY <1>2, <2>1, <2>2, <2>3
<1>5. PICK q \in 0 .. Len(journal) : Len(journal) = 2 * q
  OBVIOUS
<1>6. q + 1 \in 0 .. Len(journal') /\ Len(journal') = 2 * (q + 1)
  BY <1>1, <1>3, <1>5
<1>7. ASSUME NEW k \in 1 .. Len(journal') \div 2 PROVE CrcOk(k)'
  <2>1. k \in 1 .. q + 1
    BY <1>6
  <2>2. CASE k <= q
    <3>1. k \in WholeEntries
      BY <1>1, <1>5, <2>1, <2>2 DEF WholeEntries
    <3>2. 2 * k - 1 \in 1 .. Len(journal) /\ 2 * k \in 1 .. Len(journal)
      BY <1>1, <1>5, <2>1, <2>2
    <3>3. journal'[2 * k - 1] = journal[2 * k - 1] /\ journal'[2 * k] = journal[2 * k]
      BY <1>4, <3>2
    <3> QED BY <3>1, <3>3 DEF CrcOk
  <2>3. CASE k = q + 1
    <3>1. 2 * k - 1 = Len(journal) + 1 /\ 2 * k = Len(journal) + 2
      BY <1>1, <1>5, <2>3
    <3>2. journal'[2 * k - 1] = Half(1, c, r) /\ journal'[2 * k] = Half(2, c, r)
      BY <1>4, <3>1
    <3> QED BY <3>2 DEF CrcOk, Half
  <2> QED BY <1>1, <2>1, <2>2, <2>3
<1> QED BY <1>3, <1>4, <1>6, <1>7 DEF WholeEntries

\* A step keeps the records whole.
LEMMA FileStep ==
    ASSUME OneFragment, NoShortWrites
    PROVE  FileInv /\ [Next]_vars => FileInv'
<1> SUFFICES ASSUME FileInv, [Next]_vars PROVE FileInv'
  OBVIOUS
<1>a. /\ Len(journal) \in Nat /\ Len(data) \in Nat /\ Len(cur) \in Nat
      /\ Body \in Nat \ {0} /\ TypeOK /\ TypeInv
      /\ \A m \in Msgs : Parts[m] = 1
  BY BodyAssumption DEF FileInv, TypeInv, TypeOK, OneFragment
<1>e. Len(<<>>) = 0 /\ 0 \in Nat
  BY EmptySeq
<1>t. TypeInv'
  BY <1>a, TypeStep
<1>b. WellFormed(<<>>) /\ Boundary(<<>>, 0)
  BY <1>e DEF WellFormed, Boundary
<1>1. CASE prelude_failover_new
  <2>1. /\ pc = "down" /\ ret' = "load" /\ cur' = <<>> /\ part' = 0
        /\ UNCHANGED <<data, journal, delivered>>
    BY <1>1 DEF prelude_failover_new, disk, hist
  <2>2. PICK q \in 0 .. Len(journal) : Len(journal) = 2 * q
    BY DEF FileInv, JournalInv
  <2>3. WholeEntries = 1 .. q /\ ValidEntries = 1 .. q
    <3>1. Len(journal) \div 2 = q
      BY <1>a, <2>2
    <3>2. WholeEntries = 1 .. q
      BY <3>1 DEF WholeEntries
    <3> QED BY <3>2 DEF FileInv, JournalInv, ValidEntries
  <2>4. /\ jpos' = Len(journal)
        /\ \/ pc' = "truncate_data" /\ jent' = ZeroEntry
           \/ pc' = "load" /\ jent' = ZeroEntry /\ data = <<>> /\ journal = <<>>
           \/ pc' = "load" /\ data # <<>> /\ Boundary(data, jent'.rindex)
    <3>1. CASE journal = <<>>
      <4>1. q = 0
        BY <1>e, <2>2, <3>1
      <4>2. WholeEntries = {} /\ ValidEntries = {}
        BY <2>3, <4>1
      <4> QED BY <1>1, <1>e, <3>1, <4>2 DEF prelude_failover_new
    <3>2. CASE journal # <<>>
      <4>1. q >= 1
        BY <1>a, <2>2, <3>2, EmptySeq
      <4>2. WholeEntries # {} /\ ValidEntries # {}
        BY <2>2, <2>3, <4>1
      <4>3. PICK k \in ValidEntries :
              /\ IsLastValid(k) /\ jpos' = 2 * k /\ jent' = Recovered(EntryAt(k))
              /\ pc' = IF EntryAt(k).rindex < Len(data) THEN "load" ELSE "truncate_data"
        BY <1>1, <3>2, <4>2 DEF prelude_failover_new
      <4>4. k = q
        BY <2>2, <2>3, <4>1, <4>3 DEF IsLastValid
      <4>5. /\ k \in WholeEntries /\ journal \in Seq(HalfEntries)
        BY <1>a, <2>3 DEF TypeOK
      <4>6. /\ EntryAt(k).rindex \in Nat /\ EntryAt(k).rindex = journal[2 * k].rindex
            /\ 2 * k \in 1 .. Len(journal)
        BY <1>a, <4>1, <4>4, <4>5, <2>2, EntryAtType
      <4>7. CASE EntryAt(k).rindex < Len(data)
        <5>1. data # <<>>
          BY <1>a, <1>e, <4>6, <4>7
        <5>2. Boundary(data, journal[2 * k].rindex)
          BY <4>6, <5>1 DEF FileInv, JournalIndexInv
        <5>3. pc' = "load" /\ jent' = EntryAt(k)
          BY <1>a, <4>3, <4>6, <4>7 DEF Recovered
        <5> QED BY <2>2, <4>3, <4>4, <4>6, <5>1, <5>2, <5>3
      <4>8. CASE ~ (EntryAt(k).rindex < Len(data))
        <5>1. pc' = "truncate_data" /\ jent' = ZeroEntry
          BY <1>a, <4>3, <4>6, <4>8 DEF Recovered
        <5> QED BY <2>2, <4>3, <4>4, <5>1
      <4> QED BY <4>7, <4>8
    <3> QED BY <3>1, <3>2
  <2>5. WellFormed(data)' /\ DeliveredWhole' /\ part' = 0
    BY <2>1 DEF FileInv, WellFormed, DeliveredWhole
  <2>6. JournalInv'
    BY <2>1, <2>4 DEF FileInv, JournalInv, WholeEntries, CrcOk
  <2>7. JournalIndexInv'
    BY <1>e, <2>1, <2>4 DEF FileInv, JournalIndexInv, Boundary
  <2>8. RecoveryInv' /\ IndexInv'
    BY <1>b, <2>1, <2>4 DEF RecoveryInv, IndexInv, ZeroEntry, Boundary
  <2> QED BY <1>t, <2>5, <2>6, <2>7, <2>8 DEF FileInv
<1>2. CASE JournalLoad
  <2>1. /\ pc = "load" /\ pc' = "idle" /\ rindex' = jent.rindex /\ rpos' = jent.rindex
        /\ UNCHANGED <<data, journal, jpos, transaction, ret, jent, cur, part, delivered>>
    BY <1>2 DEF JournalLoad, disk, app, hist
  <2>2. WellFormed(data)' /\ DeliveredWhole' /\ part' = 0
    BY <2>1 DEF FileInv, WellFormed, DeliveredWhole
  <2>3. JournalInv'
    BY <2>1 DEF FileInv, JournalInv, WholeEntries, CrcOk
  <2>4. JournalIndexInv'
    BY <2>1 DEF FileInv, JournalIndexInv, Boundary
  <2>5. RecoveryInv' /\ IndexInv'
    BY <2>1 DEF FileInv, RecoveryInv, IndexInv, Boundary
  <2> QED BY <1>t, <2>2, <2>3, <2>4, <2>5 DEF FileInv
<1>3. CASE SetTransaction
  <2>1. /\ pc = "idle"
        /\ UNCHANGED <<data, journal, rindex, rpos, jpos, pc, ret, jent, cur, part, delivered>>
    BY <1>3 DEF SetTransaction, disk, call, app, hist
  <2>2. WellFormed(data)' /\ DeliveredWhole' /\ part' = 0
    BY <2>1 DEF FileInv, WellFormed, DeliveredWhole
  <2>3. JournalInv'
    BY <2>1 DEF FileInv, JournalInv, WholeEntries, CrcOk
  <2>4. JournalIndexInv'
    BY <2>1 DEF FileInv, JournalIndexInv, Boundary
  <2>5. RecoveryInv' /\ IndexInv'
    BY <2>1 DEF FileInv, RecoveryInv, IndexInv, Boundary
  <2> QED BY <1>t, <2>2, <2>3, <2>4, <2>5 DEF FileInv
<1>4. CASE journal_write
  <2>1. /\ pc = "journal" /\ pc' \in {ret, "idle"} /\ (ret # "saved" => pc' = ret)
        /\ (ret = "saved" => pc' = "idle") /\ jpos' = jpos + 2
        /\ UNCHANGED <<data, rindex, rpos, transaction, ret, jent, cur, part, delivered>>
    BY <1>4 DEF journal_write, Return, app
  <2>2. jpos = Len(journal) /\ rindex \in Nat /\ count \in Nat /\ journal \in Seq(HalfEntries)
    BY <1>a, <2>1 DEF FileInv, JournalInv, TypeOK
  <2>3. journal' = journal \o Entry(count, rindex)
    <3>1. Entry(count, rindex) \in Seq(HalfEntries)
      BY <2>2, EntryType
    <3> QED BY <1>4, <2>2, <3>1, WriteAtEnd DEF journal_write
  <2>4. /\ Len(journal') = Len(journal) + 2
        /\ \A i \in 1 .. Len(journal) : journal'[i] = journal[i]
        /\ journal'[Len(journal) + 1] = Half(1, count, rindex)
        /\ journal'[Len(journal) + 2] = Half(2, count, rindex)
        /\ \E q \in 0 .. Len(journal') : Len(journal') = 2 * q
        /\ (\A k \in WholeEntries : CrcOk(k))'
    BY <2>2, <2>3, AppendEntry DEF FileInv, JournalInv
  <2>5. WellFormed(data)' /\ DeliveredWhole' /\ part' = 0
    BY <2>1 DEF FileInv, WellFormed, DeliveredWhole
  <2>6. pc' \in {"down", "load", "idle", "got"}
    BY <1>a, <2>1 DEF TypeOK
  <2>7. JournalInv'
    BY <1>a, <2>1, <2>2, <2>4, <2>6 DEF JournalInv
  <2>8. JournalIndexInv'
    <3>1. Boundary(data, rindex) /\ \A i \in 1 .. Len(journal) : Boundary(data, journal[i].rindex)
      BY <2>1 DEF FileInv, IndexInv, JournalIndexInv
    <3>2. ASSUME NEW i \in 1 .. Len(journal) + 2 PROVE Boundary(data, journal'[i].rindex)
      <4>1. CASE i <= Len(journal)
        <5>1. i \in 1 .. Len(journal)
          BY <1>a, <4>1
        <5> QED BY <2>4, <3>1, <5>1
      <4>2. CASE i > Len(journal)
        <5>1. i = Len(journal) + 1 \/ i = Len(journal) + 2
          BY <1>a, <4>2
        <5>2. journal'[i].rindex = rindex
          BY <2>4, <5>1 DEF Half
        <5> QED BY <3>1, <5>2
      <4> QED BY <1>a, <4>1, <4>2
    <3> QED BY <2>1, <2>4, <3>2 DEF JournalIndexInv
  <2>9. RecoveryInv'
    BY <2>1, <2>6 DEF FileInv, RecoveryInv
  <2>10. IndexInv'
    BY <1>a, <2>1, <2>6 DEF FileInv, IndexInv, TypeInv, Sane
  <2> QED BY <1>t, <2>5, <2>7, <2>8, <2>9, <2>10 DEF FileInv
<1>5. CASE JournalShort
  BY <1>5 DEF JournalShort, NoShortWrites
<1>6. CASE TruncateData
  <2>1. /\ pc = "truncate_data" /\ pc' = "truncate_journal" /\ data' = <<>>
        /\ UNCHANGED <<journal, rindex, rpos, jpos, transaction, ret, jent, cur, part, delivered>>
    BY <1>6 DEF TruncateData, handle, app, hist
  <2>2. WellFormed(data)' /\ DeliveredWhole' /\ part' = 0
    BY <1>e, <2>1 DEF FileInv, WellFormed, DeliveredWhole
  <2>3. JournalInv'
    BY <2>1 DEF FileInv, JournalInv, WholeEntries, CrcOk
  <2>4. JournalIndexInv' /\ RecoveryInv' /\ IndexInv'
    BY <2>1 DEF FileInv, JournalIndexInv, RecoveryInv, IndexInv
  <2> QED BY <1>t, <2>2, <2>3, <2>4 DEF FileInv
<1>7. CASE TruncateJournal
  <2>1. /\ pc = "truncate_journal" /\ pc' = "journal" /\ journal' = <<>> /\ jpos' = 0
        /\ rpos' = 0 /\ rindex' = 0 /\ data = <<>> /\ ret \in {"load", "idle"}
        /\ UNCHANGED <<data, transaction, ret, jent, cur, part, delivered>>
    BY <1>7, <1>a DEF TruncateJournal, app, hist, FileInv, RecoveryInv, TypeInv, Sane
  <2>2. WellFormed(data)' /\ DeliveredWhole' /\ part' = 0
    BY <2>1 DEF FileInv, WellFormed, DeliveredWhole
  <2>3. JournalInv'
    BY <1>e, <2>1 DEF JournalInv, WholeEntries
  <2>4. JournalIndexInv'
    BY <1>e, <2>1 DEF JournalIndexInv
  <2>5. RecoveryInv' /\ IndexInv'
    BY <1>b, <2>1 DEF FileInv, RecoveryInv, IndexInv, ZeroEntry
  <2> QED BY <1>t, <2>2, <2>3, <2>4, <2>5 DEF FileInv
<1>8. CASE prelude_failover_save_msg
  <2>1. /\ next \in Msgs /\ part = 0 /\ pc = "idle"
        /\ data' = data \o Record(next, 0) /\ part' = 0
        /\ pc' = "journal" /\ ret' = "saved"
        /\ UNCHANGED <<journal, rindex, rpos, jpos, transaction, jent, cur, delivered>>
    BY <1>8, <1>a DEF prelude_failover_save_msg, Advance, LastPart, FileInv, hist
  <2>2. WellFormed(data) /\ data \in Seq(Units) /\ rindex \in Nat /\ journal \in Seq(HalfEntries)
    BY <1>a DEF FileInv, TypeOK
  <2>3. /\ WellFormed(data')
        /\ \A p \in Nat : Boundary(data, p) => Boundary(data', p)
    BY <2>1, <2>2, SavedIsRecord, AppendRecord
  <2>4. \A i \in 1 .. Len(journal) : journal[i].rindex \in Nat
    BY <2>2, JournalRindexType
  <2>5. JournalInv'
    BY <2>1 DEF FileInv, JournalInv, WholeEntries, CrcOk
  <2>6. JournalIndexInv'
    BY <2>1, <2>3, <2>4 DEF FileInv, JournalIndexInv
  <2>7. RecoveryInv' /\ IndexInv'
    BY <2>1, <2>2, <2>3 DEF FileInv, RecoveryInv, IndexInv
  <2>8. DeliveredWhole'
    BY <2>1 DEF FileInv, DeliveredWhole
  <2> QED BY <1>t, <2>1, <2>3, <2>5, <2>6, <2>7, <2>8 DEF FileInv
<1>9. CASE SaveShort
  BY <1>9 DEF SaveShort, NoShortWrites
<1>10. CASE failover_flush
  <2>1. UNCHANGED <<data, journal, rindex, rpos, jpos, transaction, pc, ret, jent, cur,
                    part, delivered>>
    BY <1>10 DEF failover_flush, disk, handle, call, hist
  <2>2. WellFormed(data)' /\ DeliveredWhole' /\ part' = 0
    BY <2>1 DEF FileInv, WellFormed, DeliveredWhole
  <2>3. JournalInv'
    BY <2>1 DEF FileInv, JournalInv, WholeEntries, CrcOk
  <2>4. JournalIndexInv' /\ RecoveryInv' /\ IndexInv'
    BY <2>1 DEF FileInv, JournalIndexInv, RecoveryInv, IndexInv
  <2> QED BY <1>t, <2>2, <2>3, <2>4 DEF FileInv
<1>11. CASE prelude_failover_get_saved_msg
  <2>1. /\ pc = "idle" /\ pc' = "read" /\ cur' = <<>>
        /\ UNCHANGED <<data, journal, rindex, rpos, jpos, transaction, ret, jent, part, delivered>>
    BY <1>11 DEF prelude_failover_get_saved_msg, disk, handle, app, hist
  <2>2. WellFormed(data)' /\ DeliveredWhole' /\ part' = 0
    BY <2>1 DEF FileInv, WellFormed, DeliveredWhole
  <2>3. JournalInv'
    BY <2>1 DEF FileInv, JournalInv, WholeEntries, CrcOk
  <2>4. JournalIndexInv' /\ RecoveryInv' /\ IndexInv'
    BY <2>1 DEF FileInv, JournalIndexInv, RecoveryInv, IndexInv
  <2> QED BY <1>t, <2>2, <2>3, <2>4 DEF FileInv
<1>12. CASE ReadRecord
  <2> DEFINE h == data[rpos + 1]
             s == SubSeq(data, rpos + 2, rpos + 1 + h.n)
  <2>1. /\ rpos \in Nat /\ rpos < Len(data) /\ h.kind = "H" /\ pc = "read"
        /\ rpos = rindex /\ cur = <<>> /\ Boundary(data, rindex)
        /\ cur' = cur \o s /\ rpos' = rpos + 1 + h.n
        /\ pc' = IF h.frag THEN "read" ELSE IF transaction THEN "got" ELSE "commit"
        /\ UNCHANGED <<data, journal, rindex, jpos, transaction, ret, jent, part, delivered>>
    BY <1>12, <1>a DEF ReadRecord, Readable, TypeOK, FileInv, IndexInv, disk, app, hist
  <2>2. /\ h.n = Body /\ h.frag = FALSE /\ rpos + 1 + Body <= Len(data)
        /\ \A j \in 1 .. Body : data[rpos + 1 + j] = Payload(h.msg, j)
        /\ rpos + 1 + Body < Len(data) => data[rpos + 1 + Body + 1].kind = "H"
    <3>1. rpos + 1 \in 1 .. Len(data)
      BY <1>a, <2>1
    <3> QED BY <2>1, <3>1 DEF FileInv, WellFormed
  <2>3. h.msg \in Msgs
    <3>1. rpos + 1 \in 1 .. Len(data)
      BY <1>a, <2>1
    <3>2. h \in Units
      BY <1>a, <3>1, ElementOfSeq DEF TypeOK
    <3> QED BY <3>2 DEF Units
  <2>4. cur' = Whole(h.msg)
    <3>1. \A i \in rpos + 2 .. rpos + 1 + Body : data[i] \in Units
      <4> SUFFICES ASSUME NEW i \in rpos + 2 .. rpos + 1 + Body PROVE data[i] \in Units
        OBVIOUS
      <4>1. i \in 1 .. Len(data)
        BY <1>a, <2>1, <2>2
      <4> QED BY <1>a, <4>1, ElementOfSeq DEF TypeOK
    <3>2. /\ s \in Seq(Units) /\ Len(s) = Body
          /\ \A i \in 1 .. Body : s[i] = data[rpos + 1 + i]
      <4> DEFINE a == rpos + 2
                 z == rpos + 1 + Body
      <4>1. a \in Int /\ z \in Int /\ a <= z /\ z - a + 1 = Body
        <5>1. rpos \in Nat
          BY <1>a DEF TypeOK
        <5>2. Body \in Nat /\ Body >= 1
          BY BodyAssumption
        <5> QED BY ONLY <5>1, <5>2 DEF a, z
      <4>2. s = SubSeq(data, a, z)
        BY <2>2
      <4>3. /\ SubSeq(data, a, z) \in Seq(Units) /\ Len(SubSeq(data, a, z)) = z - a + 1
            /\ \A i \in 1 .. z - a + 1 : SubSeq(data, a, z)[i] = data[a + i - 1]
        <5> HIDE DEF a, z
        <5>1. \A i \in a .. z : data[i] \in Units
          BY <3>1 DEF a, z
        <5> QED BY <4>1, <5>1, SubSeqProperties
      <4>4. \A i \in 1 .. Body : a + i - 1 = rpos + 1 + i
        <5>1. rpos \in Nat
          BY <1>a DEF TypeOK
        <5> QED BY ONLY <5>1, BodyAssumption DEF a
      <4> HIDE DEF s, a, z
      <4> QED BY <4>1, <4>2, <4>3, <4>4
    <3>3. \A i \in 1 .. Body : s[i] = Payload(h.msg, i)
      BY <2>2, <3>2
    <3>4. /\ Whole(h.msg) \in Seq(Units) /\ Len(Whole(h.msg)) = Body
          /\ \A j \in 1 .. Body : Whole(h.msg)[j] = Payload(h.msg, j)
      BY <2>3, WholeProperties
    <3> HIDE DEF s
    <3>5. s = Whole(h.msg)
      BY <3>2, <3>3, <3>4, SeqEqual
    <3>6. <<>> \o s = s
      BY <3>2, ConcatEmptySeq
    <3> QED BY <2>1, <3>5, <3>6
  <2>5. rpos' = rindex + 1 + Body /\ Boundary(data, rpos') /\ pc' \in {"got", "commit"}
        /\ (pc' = "got" => transaction) /\ rpos' \in Nat
    <3>1. rpos' = rpos + 1 + Body /\ rpos' \in Nat
      <4>1. rpos' = rpos + 1 + h.n
        BY <2>1
      <4>2. h.n = Body /\ rpos \in Nat
        BY <2>1, <2>2
      <4> HIDE DEF h
      <4> QED BY <1>a, <4>1, <4>2
    <3>2. Boundary(data, rpos + 1 + Body)
      BY <2>2 DEF Boundary
    <3> QED BY <2>1, <2>2, <3>1, <3>2
  <2>6. WellFormed(data)' /\ DeliveredWhole' /\ part' = 0
    BY <2>1 DEF FileInv, WellFormed, DeliveredWhole
  <2> HIDE DEF h, s
  <2>7. JournalInv'
    BY <2>1, <2>5 DEF FileInv, JournalInv, WholeEntries, CrcOk
  <2>8. JournalIndexInv'
    BY <2>1, <2>5 DEF FileInv, JournalIndexInv
  <2>9. RecoveryInv'
    BY <2>5 DEF RecoveryInv
  <2>10. IndexInv'
    BY <2>1, <2>3, <2>4, <2>5 DEF IndexInv
  <2> QED BY <1>t, <2>6, <2>7, <2>8, <2>9, <2>10 DEF FileInv
<1>13. CASE ReadFails
  <2>1. /\ pc = "read" /\ pc' = "truncate_data" /\ ret' = "idle" /\ cur' = <<>>
        /\ UNCHANGED <<data, journal, rindex, rpos, jpos, transaction, jent, part, delivered>>
    BY <1>13 DEF ReadFails, disk, handle, hist
  <2>2. WellFormed(data)' /\ DeliveredWhole' /\ part' = 0
    BY <2>1 DEF FileInv, WellFormed, DeliveredWhole
  <2>3. JournalInv'
    BY <2>1 DEF FileInv, JournalInv, WholeEntries, CrcOk
  <2>4. JournalIndexInv' /\ RecoveryInv' /\ IndexInv'
    BY <2>1 DEF FileInv, JournalIndexInv, RecoveryInv, IndexInv
  <2> QED BY <1>t, <2>2, <2>3, <2>4 DEF FileInv
<1>14. CASE prelude_failover_commit
  <2>1. /\ pc = "commit" /\ pc' = "journal" /\ rindex' = rindex + GetLen(cur)
        /\ ret' = IF transaction THEN "idle" ELSE "got"
        /\ UNCHANGED <<data, journal, rpos, jpos, transaction, jent, cur, part, delivered>>
    BY <1>14 DEF prelude_failover_commit, disk, app, hist
  <2>2. PICK m \in Msgs : cur = Whole(m)
    BY <2>1 DEF FileInv, IndexInv
  <2>3. rindex' = rpos /\ Boundary(data, rpos)
    <3>1. Len(cur) = Body
      BY <2>2, WholeProperties
    <3> QED BY <1>a, <2>1, <3>1 DEF GetLen, FileInv, IndexInv, TypeOK
  <2>4. IndexInv'
    BY <2>1, <2>2, <2>3 DEF IndexInv
  <2>5. WellFormed(data)' /\ DeliveredWhole' /\ part' = 0
    BY <2>1 DEF FileInv, WellFormed, DeliveredWhole
  <2>6. JournalInv' /\ JournalIndexInv' /\ RecoveryInv'
    BY <2>1 DEF FileInv, JournalInv, WholeEntries, CrcOk, JournalIndexInv, RecoveryInv
  <2> QED BY <1>t, <2>4, <2>5, <2>6 DEF FileInv
<1>15. CASE Deliver
  <2>1. /\ pc = "got" /\ pc' = (IF transaction THEN "commit" ELSE "idle")
        /\ delivered' = Append(delivered, cur)
        /\ UNCHANGED <<data, journal, rindex, rpos, jpos, transaction, ret, jent, cur, part>>
    BY <1>15 DEF Deliver, disk, handle, app
  <2>2. PICK m \in Msgs : cur = Whole(m)
    BY <2>1 DEF FileInv, IndexInv
  <2>3. DeliveredWhole'
    <3>1. /\ delivered \in Seq(Seq(Units)) /\ cur \in Seq(Units) /\ Len(delivered) \in Nat
      BY <1>a DEF TypeOK
    <3>2. /\ Len(delivered') = Len(delivered) + 1
          /\ \A i \in 1 .. Len(delivered) : delivered'[i] = delivered[i]
          /\ delivered'[Len(delivered) + 1] = cur
      BY <2>1, <3>1, AppendProperties
    <3>3. ASSUME NEW i \in 1 .. Len(delivered) + 1
          PROVE  \E n \in Msgs : delivered'[i] = Whole(n)
      <4>1. CASE i \in 1 .. Len(delivered)
        BY <3>2, <4>1 DEF FileInv, DeliveredWhole
      <4>2. CASE i = Len(delivered) + 1
        BY <2>2, <3>2, <4>2
      <4> QED BY <3>1, <4>1, <4>2
    <3> QED BY <3>2, <3>3 DEF DeliveredWhole
  <2>4. IndexInv'
    BY <2>1, <2>2 DEF FileInv, IndexInv
  <2>5. WellFormed(data)' /\ part' = 0
    BY <2>1 DEF FileInv, WellFormed
  <2>6. JournalInv' /\ JournalIndexInv' /\ RecoveryInv'
    BY <2>1 DEF FileInv, JournalInv, WholeEntries, CrcOk, JournalIndexInv, RecoveryInv
  <2> QED BY <1>t, <2>3, <2>4, <2>5, <2>6 DEF FileInv
<1>16. CASE SendFails
  <2>1. /\ pc = "got" /\ ~ transaction /\ data' = data \o Rewritten(cur)
        /\ pc' = "journal" /\ ret' = "idle"
        /\ UNCHANGED <<journal, rindex, rpos, jpos, transaction, jent, cur, part, delivered>>
    BY <1>16 DEF SendFails, hist
  <2>2. WellFormed(data) /\ data \in Seq(Units) /\ rindex \in Nat /\ journal \in Seq(HalfEntries)
    BY <1>a DEF FileInv, TypeOK
  <2>3. PICK m \in Msgs : cur = Whole(m)
    BY <2>1 DEF FileInv, IndexInv
  <2>4. IsRecord(Rewritten(cur))
    BY <2>3, RewrittenIsRecord
  <2>5. /\ WellFormed(data')
        /\ \A p \in Nat : Boundary(data, p) => Boundary(data', p)
    BY <2>1, <2>2, <2>4, AppendRecord
  <2>6. \A i \in 1 .. Len(journal) : journal[i].rindex \in Nat
    BY <2>2, JournalRindexType
  <2>7. JournalInv'
    BY <2>1 DEF FileInv, JournalInv, WholeEntries, CrcOk
  <2>8. JournalIndexInv'
    BY <2>1, <2>5, <2>6 DEF FileInv, JournalIndexInv
  <2>9. RecoveryInv' /\ IndexInv'
    BY <2>1, <2>2, <2>5 DEF FileInv, RecoveryInv, IndexInv
  <2>10. DeliveredWhole' /\ part' = 0
    BY <2>1 DEF FileInv, DeliveredWhole
  <2> QED BY <1>t, <2>5, <2>7, <2>8, <2>9, <2>10 DEF FileInv
<1>17. CASE prelude_failover_rollback
  <2>1. /\ pc = "got" /\ transaction /\ pc' = "idle" /\ rpos' = rpos - GetLen(cur)
        /\ UNCHANGED <<data, journal, rindex, jpos, transaction, ret, jent, cur, part, delivered>>
    BY <1>17 DEF prelude_failover_rollback, disk, hist
  <2>2. PICK m \in Msgs : cur = Whole(m)
    BY <2>1 DEF FileInv, IndexInv
  <2>3. rpos' = rindex
    <3>1. Len(cur) = Body
      BY <2>2, WholeProperties
    <3> QED BY <1>a, <2>1, <3>1 DEF GetLen, FileInv, IndexInv, TypeOK
  <2>4. IndexInv'
    BY <2>1, <2>3 DEF FileInv, IndexInv
  <2>5. WellFormed(data)' /\ DeliveredWhole' /\ part' = 0
    BY <2>1 DEF FileInv, WellFormed, DeliveredWhole
  <2>6. JournalInv' /\ JournalIndexInv' /\ RecoveryInv'
    BY <2>1 DEF FileInv, JournalInv, WholeEntries, CrcOk, JournalIndexInv, RecoveryInv
  <2> QED BY <1>t, <2>4, <2>5, <2>6 DEF FileInv
<1>18. CASE Crash
  <2>1. /\ pc' = "down" /\ part' = 0 /\ pc \notin {"down", "failed"}
        /\ UNCHANGED <<data, journal, delivered>>
    BY <1>18 DEF Crash, disk
  <2>2. WellFormed(data)' /\ DeliveredWhole' /\ part' = 0
    BY <2>1 DEF FileInv, WellFormed, DeliveredWhole
  <2>3. JournalInv'
    BY <2>1 DEF FileInv, JournalInv, WholeEntries, CrcOk
  <2>4. JournalIndexInv' /\ RecoveryInv' /\ IndexInv'
    BY <2>1 DEF FileInv, JournalIndexInv, RecoveryInv, IndexInv
  <2> QED BY <1>t, <2>2, <2>3, <2>4 DEF FileInv
<1>19. CASE UNCHANGED vars
  <2>1. UNCHANGED <<data, journal, rindex, rpos, jpos, transaction, pc, ret, jent, cur,
                    part, delivered>>
    BY <1>19 DEF vars, disk, handle, call, app, hist
  <2>2. WellFormed(data)' /\ DeliveredWhole' /\ part' = 0
    BY <2>1 DEF FileInv, WellFormed, DeliveredWhole
  <2>3. JournalInv'
    BY <2>1 DEF FileInv, JournalInv, WholeEntries, CrcOk
  <2>4. JournalIndexInv' /\ RecoveryInv' /\ IndexInv'
    BY <2>1 DEF FileInv, JournalIndexInv, RecoveryInv, IndexInv
  <2> QED BY <1>t, <2>2, <2>3, <2>4 DEF FileInv
<1> QED BY <1>1, <1>2, <1>3, <1>4, <1>5, <1>6, <1>7, <1>8, <1>9, <1>10, <1>11, <1>12,
           <1>13, <1>14, <1>15, <1>16, <1>17, <1>18, <1>19 DEF Next, Step

\* Neither the read offset nor any read index recovery may start from is ever
\* in the middle of a record, when messages are not fragmented and writes are
\* not cut short: for every number of messages, crashes and payload units.
THEOREM AlwaysAligned ==
    ASSUME OneFragment, NoShortWrites
    PROVE  Spec => []Aligned
<1>1. FileInv => Aligned
  <2> SUFFICES ASSUME FileInv PROVE Aligned
    OBVIOUS
  <2>1. pc \in {"idle", "read"} /\ rpos < Len(data) => data[rpos + 1].kind = "H"
    BY DEF FileInv, IndexInv, Boundary
  <2>2. ASSUME NEW k \in ValidEntries, EntryAt(k).rindex < Len(data)
        PROVE  data[EntryAt(k).rindex + 1].kind = "H"
    <3>1. /\ EntryAt(k).rindex = journal[2 * k].rindex /\ EntryAt(k).rindex \in Nat
          /\ k \in Nat /\ 2 * k <= Len(journal) /\ k >= 1
      BY EntryAtType DEF ValidEntries, FileInv, TypeInv, TypeOK
    <3>2. 2 * k \in 1 .. Len(journal) /\ Len(data) \in Nat
      BY <3>1 DEF FileInv, TypeInv, TypeOK
    <3>3. data # <<>>
      BY <2>2, <3>1, <3>2, EmptySeq
    <3>4. Boundary(data, journal[2 * k].rindex)
      BY <3>2, <3>3 DEF FileInv, JournalIndexInv
    <3> QED BY <2>2, <3>1, <3>4 DEF Boundary
  <2> QED BY <2>1, <2>2 DEF Aligned
<1> QED BY <1>1, FileInit, FileStep, PTL DEF Spec

\* What reaches a manager is a message that was saved, all of it and nothing
\* else, under the same two conditions.
THEOREM AlwaysDeliveredWhole ==
    ASSUME OneFragment, NoShortWrites
    PROVE  Spec => []DeliveredWhole
<1>1. FileInv => DeliveredWhole
  BY DEF FileInv
<1> QED BY <1>1, FileInit, FileStep, PTL DEF Spec

\* Recovery always succeeds under them, too.
THEOREM AlwaysOpens ==
    ASSUME OneFragment, NoShortWrites
    PROVE  Spec => []RecoveryOpens
<1>1. FileInv => RecoveryOpens
  BY DEF FileInv, JournalInv, RecoveryOpens
<1> QED BY <1>1, FileInit, FileStep, PTL DEF Spec

-----------------------------------------------------------------------------
(* Places in a set of numbers. *)

\* A finite set of numbers in which every place is taken.  That every finite
\* set is one takes an induction over sets: here it is part of the invariant.
Ranked(S) ==
    /\ S \subseteq Nat /\ IsFiniteSet(S)
    /\ \A i \in 1 .. Cardinality(S) : \E j \in S : Rank(S, j) = i

\* No two numbers have the same place, and all places are within the set.
LEMMA RankUnique ==
    ASSUME NEW S, S \subseteq Nat, IsFiniteSet(S)
    PROVE  /\ \A i, j \in S : Rank(S, i) = Rank(S, j) => i = j
           /\ \A j \in S : Rank(S, j) \in 1 .. Cardinality(S)
<1> DEFINE L(j) == {k \in S : k <= j}
<1>1. ASSUME NEW i \in S, NEW j \in S, i < j, Cardinality(L(i)) = Cardinality(L(j)) PROVE FALSE
  <2>1. i \in Nat /\ j \in Nat
    OBVIOUS
  <2>2. L(i) \in SUBSET L(j) /\ j \in L(j) /\ j \notin L(i)
    <3>1. \A k \in S : k \in Nat /\ (k <= i => k <= j)
      BY <1>1, <2>1
    <3>2. j <= j /\ ~ (j <= i)
      BY <1>1, <2>1
    <3> QED BY <3>1, <3>2
  <2>3. IsFiniteSet(L(j))
    BY FS_Subset
  <2> HIDE DEF L
  <2>4. L(j) = L(i)
    BY <1>1, <2>2, <2>3, FS_Subset
  <2> QED BY <2>2, <2>4
<1>2. ASSUME NEW i \in S, NEW j \in S, Rank(S, i) = Rank(S, j) PROVE i = j
  <2>1. Cardinality(L(i)) = Cardinality(L(j))
    BY <1>2 DEF Rank
  <2>2. i \in Nat /\ j \in Nat
    OBVIOUS
  <2>3. i < j \/ j < i \/ i = j
    BY ONLY <2>2
  <2> HIDE DEF L
  <2> QED BY <1>1, <2>1, <2>3
<1>3. ASSUME NEW j \in S PROVE Rank(S, j) \in 1 .. Cardinality(S)
  <2>1. IsFiniteSet(L(j)) /\ Cardinality(L(j)) <= Cardinality(S)
    BY FS_Subset
  <2>2. j \in L(j)
    OBVIOUS
  <2>3. Rank(S, j) = Cardinality(L(j))
    BY DEF Rank
  <2> HIDE DEF L
  <2>4. Cardinality(L(j)) \in Nat /\ Cardinality(S) \in Nat
    BY <2>1, FS_CardinalityType
  <2>5. Cardinality(L(j)) # 0
    BY <2>1, <2>2, FS_EmptySet
  <2> QED BY <2>1, <2>3, <2>4, <2>5
<1> QED BY <1>2, <1>3

\* The number at a place.
LEMMA NthFacts ==
    ASSUME NEW S, Ranked(S), NEW i \in 1 .. Cardinality(S)
    PROVE  /\ Nth(S, i) \in S /\ Rank(S, Nth(S, i)) = i
           /\ \A j \in S : Rank(S, j) = i => j = Nth(S, i)
<1>1. \E j \in S : Rank(S, j) = i
  BY DEF Ranked
<1>2. Nth(S, i) \in S /\ Rank(S, Nth(S, i)) = i
  BY <1>1 DEF Nth
<1> QED BY <1>2, RankUnique DEF Ranked

\* T is S with e, and S without e.
With(T, S, e)    == T = S \cup {e}
Without(T, S, e) == T = S \ {e}

\* A number after all others takes the last place, and they keep theirs.
LEMMA RankAdd ==
    ASSUME NEW S, Ranked(S), NEW e \in Nat, \A k \in S : k < e, NEW T, With(T, S, e)
    PROVE  /\ Ranked(T) /\ Cardinality(S) \in Nat /\ Cardinality(T) = Cardinality(S) + 1
           /\ Nth(T, Cardinality(S) + 1) = e
           /\ \A i \in 1 .. Cardinality(S) : Nth(T, i) = Nth(S, i)
<1> T = S \cup {e}
  BY DEF With
<1>1. S \subseteq Nat /\ IsFiniteSet(S) /\ Cardinality(S) \in Nat
  BY FS_CardinalityType DEF Ranked
<1>2. e \notin S
  BY <1>1
<1>3. IsFiniteSet(T) /\ Cardinality(T) = Cardinality(S) + 1 /\ T \subseteq Nat
  BY <1>1, <1>2, FS_AddElement
<1>4. \A j \in S : Rank(T, j) = Rank(S, j)
  <2> SUFFICES ASSUME NEW j \in S PROVE Rank(T, j) = Rank(S, j)
    OBVIOUS
  <2>1. j \in Nat /\ j < e
    BY <1>1
  <2>2. {k \in T : k <= j} = {k \in S : k <= j}
    BY <1>1, <2>1
  <2> QED BY <2>2 DEF Rank
<1>5. Rank(T, e) = Cardinality(S) + 1
  <2>1. \A k \in T : k <= e
    BY <1>1
  <2>2. {k \in T : k <= e} = T
    BY ONLY <2>1
  <2> QED BY <1>3, <2>2 DEF Rank
<1>6. ASSUME NEW i \in 1 .. Cardinality(T) PROVE \E j \in T : Rank(T, j) = i
  <2>1. CASE i = Cardinality(S) + 1
    BY <1>5, <2>1
  <2>2. CASE i \in 1 .. Cardinality(S)
    <3>1. PICK j \in S : Rank(S, j) = i
      BY <2>2 DEF Ranked
    <3> QED BY <1>4, <3>1
  <2>3. i = Cardinality(S) + 1 \/ i \in 1 .. Cardinality(S)
    <3>1. \A c, d, x \in Nat : d = c + 1 /\ x >= 1 /\ x <= d => x = c + 1 \/ x \in 1 .. c
      OBVIOUS
    <3>2. i \in Nat /\ i >= 1 /\ i <= Cardinality(T) /\ Cardinality(T) \in Nat
      BY <1>3, <1>1
    <3> QED BY ONLY <1>1, <1>3, <3>1, <3>2
  <2> QED BY <2>1, <2>2, <2>3
<1>7. Ranked(T)
  BY <1>3, <1>6 DEF Ranked
<1>8. Cardinality(S) + 1 \in 1 .. Cardinality(T) /\ \A i \in 1 .. Cardinality(S) : i \in 1 .. Cardinality(T)
  <2>1. PICK c \in Nat : c = Cardinality(S)
    BY <1>1
  <2>2. c + 1 \in 1 .. c + 1 /\ \A i \in 1 .. c : i \in 1 .. c + 1
    BY ONLY c \in Nat
  <2> QED BY ONLY <1>3, <2>1, <2>2
<1>9. Nth(T, Cardinality(S) + 1) = e
  <2>1. e \in T
    OBVIOUS
  <2> QED BY <1>5, <1>7, <1>8, <2>1, NthFacts
<1>10. ASSUME NEW i \in 1 .. Cardinality(S) PROVE Nth(T, i) = Nth(S, i)
  <2>1. Nth(S, i) \in S /\ Rank(S, Nth(S, i)) = i
    BY NthFacts
  <2>2. Nth(S, i) \in T /\ Rank(T, Nth(S, i)) = i
    BY <1>4, <2>1
  <2> QED BY <1>7, <1>8, <2>2, NthFacts
<1> QED BY <1>1, <1>3, <1>7, <1>9, <1>10

\* Without the first number, the others move one place forward.
LEMMA RankRemove ==
    ASSUME NEW S, Ranked(S), NEW e \in S, \A k \in S : e <= k, NEW T, Without(T, S, e)
    PROVE  /\ Ranked(T) /\ Cardinality(T) \in Nat /\ Cardinality(S) = Cardinality(T) + 1
           /\ Nth(S, 1) = e
           /\ \A i \in 1 .. Cardinality(T) : Nth(T, i) = Nth(S, i + 1)
<1> T = S \ {e}
  BY DEF Without
<1>1. S \subseteq Nat /\ IsFiniteSet(S) /\ Cardinality(S) \in Nat
  BY FS_CardinalityType DEF Ranked
<1>3. IsFiniteSet(T) /\ T \subseteq Nat /\ Cardinality(T) \in Nat /\ Cardinality(S) = Cardinality(T) + 1
  <2>1. IsFiniteSet(T) /\ Cardinality(T) = Cardinality(S) - 1
    BY <1>1, FS_RemoveElement
  <2>2. Cardinality(T) \in Nat
    BY <2>1, FS_CardinalityType
  <2> QED BY <1>1, <2>1, <2>2
<1>4. \A j \in T : j \in S /\ Rank(S, j) = Rank(T, j) + 1 /\ Rank(T, j) \in Nat
  <2> SUFFICES ASSUME NEW j \in T PROVE Rank(S, j) = Rank(T, j) + 1 /\ Rank(T, j) \in Nat
    OBVIOUS
  <2> DEFINE A == {k \in S : k <= j}
             B == {k \in T : k <= j}
  <2>1. e \in A /\ B = A \ {e}
    BY <1>1
  <2>2. IsFiniteSet(A)
    BY <1>1, FS_Subset
  <2>3. Rank(S, j) = Cardinality(A) /\ Rank(T, j) = Cardinality(B)
    BY DEF Rank
  <2> HIDE DEF A, B
  <2>4. IsFiniteSet(B) /\ Cardinality(B) = Cardinality(A) - 1
    BY <2>1, <2>2, FS_RemoveElement
  <2>5. Cardinality(A) \in Nat /\ Cardinality(B) \in Nat
    BY <2>2, <2>4, FS_CardinalityType
  <2> QED BY <2>3, <2>4, <2>5
<1>5. Rank(S, e) = 1
  <2>0. \A k \in S : k <= e <=> k = e
    BY <1>1
  <2>1. {k \in S : k <= e} = {e}
    BY <2>0
  <2> QED BY <2>1, FS_Singleton DEF Rank
<1>6. ASSUME NEW i \in 1 .. Cardinality(T) PROVE \E j \in T : Rank(T, j) = i
  <2>1. i + 1 \in 1 .. Cardinality(S) /\ i \in Nat /\ i + 1 # 1
    BY <1>3
  <2>2. PICK j \in S : Rank(S, j) = i + 1
    BY <2>1 DEF Ranked
  <2>3. j \in T
    BY <1>5, <2>1, <2>2
  <2>4. Rank(T, j) + 1 = i + 1 /\ Rank(T, j) \in Nat
    BY <1>4, <2>2, <2>3
  <2> QED BY <2>1, <2>3, <2>4
<1>7. Ranked(T)
  BY <1>3, <1>6 DEF Ranked
<1>8. Nth(S, 1) = e
  <2>1. 1 \in 1 .. Cardinality(S)
    BY <1>3
  <2> QED BY <1>5, <2>1, NthFacts
<1>9. ASSUME NEW i \in 1 .. Cardinality(T) PROVE Nth(T, i) = Nth(S, i + 1)
  <2>1. Nth(T, i) \in T /\ Rank(T, Nth(T, i)) = i
    BY <1>7, NthFacts
  <2>2. Nth(T, i) \in S /\ Rank(S, Nth(T, i)) = i + 1
    BY <1>4, <2>1
  <2>3. i + 1 \in 1 .. Cardinality(S)
    BY <1>3
  <2> QED BY <2>2, <2>3, NthFacts
<1> QED BY <1>3, <1>7, <1>8, <1>9

-----------------------------------------------------------------------------
(* The records of a file as a queue. *)

\* A file that a record was appended to.
LEMMA RecordAtEnd ==
    ASSUME NEW d \in Seq(Units), NEW r, IsRecord(r)
    PROVE  /\ d \o r \in Seq(Units) /\ Len(d) \in Nat /\ Len(d \o r) = Len(d) + 1 + Body
           /\ \A i \in 1 .. Len(d) : (d \o r)[i] = d[i]
           /\ (d \o r)[Len(d) + 1] = r[1]
           /\ \A j \in 1 .. Body : (d \o r)[Len(d) + 1 + j].kind = "D"
<1>0. PICK e : e = d \o r
  OBVIOUS
<1>1. Body \in Nat \ {0} /\ Len(d) \in Nat /\ Len(r) = 1 + Body /\ r \in Seq(Units)
  BY BodyAssumption DEF IsRecord
<1>2. /\ e \in Seq(Units) /\ Len(e) = Len(d) + Len(r)
      /\ \A i \in 1 .. Len(d) + Len(r) : e[i] = IF i <= Len(d) THEN d[i] ELSE r[i - Len(d)]
  BY <1>0, <1>1, ConcatProperties
<1>3. Len(e) = Len(d) + 1 + Body
  BY <1>1, <1>2
<1>4. ASSUME NEW i \in 1 .. Len(d) PROVE e[i] = d[i]
  <2>1. i \in 1 .. Len(d) + Len(r) /\ i <= Len(d)
    BY <1>1
  <2> QED BY ONLY <1>2, <2>1
<1>5. e[Len(d) + 1] = r[1]
  <2>1. Len(d) + 1 \in 1 .. Len(d) + Len(r) /\ ~ (Len(d) + 1 <= Len(d)) /\ (Len(d) + 1) - Len(d) = 1
    BY <1>1
  <2> QED BY ONLY <1>2, <2>1
<1>6. ASSUME NEW j \in 1 .. Body PROVE e[Len(d) + 1 + j].kind = "D"
  <2>1. /\ Len(d) + 1 + j \in 1 .. Len(d) + Len(r) /\ ~ (Len(d) + 1 + j <= Len(d))
        /\ (Len(d) + 1 + j) - Len(d) = 1 + j
    BY <1>1
  <2>2. e[Len(d) + 1 + j] = r[1 + j]
    BY ONLY <1>2, <2>1
  <2>3. r[1 + j] = Payload(r[1].msg, j)
    BY DEF IsRecord
  <2> QED BY <2>2, <2>3 DEF Payload
<1> QED BY <1>0, <1>1, <1>2, <1>3, <1>4, <1>5, <1>6

\* The places of headers are numbers within the file.
LEMMA StartsType ==
    ASSUME NEW d, Len(d) \in Nat, NEW p \in Nat
    PROVE  /\ Starts(d, p) \subseteq Nat /\ IsFiniteSet(Starts(d, p))
           /\ \A i \in Starts(d, p) : i \in Nat /\ p < i /\ i <= Len(d) /\ i >= 1 /\ d[i].kind = "H"
           /\ \A i \in Nat : p < i /\ i <= Len(d) /\ d[i].kind = "H" => i \in Starts(d, p)
<1>1. \A i \in Starts(d, p) : i \in Nat /\ p < i /\ i <= Len(d) /\ i >= 1 /\ d[i].kind = "H"
  BY DEF Starts
<1>2. IsFiniteSet(p + 1 .. Len(d))
  BY FS_Interval
<1>3. IsFiniteSet(Starts(d, p))
  <2>1. Starts(d, p) \in SUBSET (p + 1 .. Len(d))
    BY DEF Starts
  <2> QED BY <1>2, <2>1, FS_Subset
<1>4. \A i \in Nat : p < i /\ i <= Len(d) /\ d[i].kind = "H" => i \in Starts(d, p)
  BY DEF Starts
<1> QED BY <1>1, <1>3, <1>4

\* Nothing is queued behind the end of the file.
LEMMA QueueEnd ==
    ASSUME NEW d, Len(d) \in Nat, NEW p \in Nat, p >= Len(d)
    PROVE  Starts(d, p) = {} /\ Ranked(Starts(d, p)) /\ Queued(d, p) = <<>>
<1>1. Starts(d, p) = {}
  <2>1. \A i \in Starts(d, p) : FALSE
    BY StartsType
  <2> QED BY ONLY <2>1
<1>2. IsFiniteSet({}) /\ Cardinality({}) = 0
  BY FS_EmptySet
<1>3. Ranked(Starts(d, p))
  BY <1>1, <1>2 DEF Ranked
<1>4. 1 .. Cardinality(Starts(d, p)) = {}
  BY <1>1, <1>2
<1> QED BY <1>1, <1>3, <1>4 DEF Queued

\* The queue is a sequence of messages, each from the header at its place.
LEMMA QueuedType ==
    ASSUME NEW d \in Seq(Units), NEW p \in Nat, NEW S, S = Starts(d, p), Ranked(S)
    PROVE  /\ Cardinality(S) \in Nat
           /\ Queued(d, p) \in Seq(Msgs) /\ Len(Queued(d, p)) = Cardinality(S)
           /\ \A i \in 1 .. Cardinality(S) : Nth(S, i) \in S /\ Queued(d, p)[i] = d[Nth(S, i)].msg
<1>1. PICK n \in Nat : n = Cardinality(S)
  BY FS_CardinalityType DEF Ranked
<1>2. ASSUME NEW i \in 1 .. n PROVE Nth(S, i) \in S /\ d[Nth(S, i)].msg \in Msgs
  <2>1. Nth(S, i) \in S
    BY ONLY <1>1, Ranked(S), i \in 1 .. n, NthFacts
  <2>2. Nth(S, i) \in 1 .. Len(d)
    BY <2>1, StartsType, LenProperties
  <2>3. d[Nth(S, i)] \in Units
    BY <2>2, ElementOfSeq
  <2> QED BY <2>1, <2>3 DEF Units
<1>3. PICK q : q = [i \in 1 .. n |-> d[Nth(S, i)].msg]
  OBVIOUS
<1>4. q = Queued(d, p)
  BY <1>1, <1>3 DEF Queued
<1>5. q \in [1 .. n -> Msgs] /\ \A i \in 1 .. n : q[i] = d[Nth(S, i)].msg
  BY ONLY <1>2, <1>3
<1>6. q \in Seq(Msgs) /\ Len(q) = n
  BY ONLY <1>5, n \in Nat
<1> QED BY <1>1, <1>2, <1>4, <1>5, <1>6

\* e is d with r written at its end.
Appended(e, d, r) == e = d \o r

\* A record that is appended is the last of the queue.
LEMMA QueueAppend ==
    ASSUME NEW d \in Seq(Units), NEW r, IsRecord(r), NEW e, Appended(e, d, r),
           NEW p \in Nat, p <= Len(d), Ranked(Starts(d, p))
    PROVE  /\ Starts(e, p) = Starts(d, p) \cup {Len(d) + 1} /\ Ranked(Starts(e, p))
           /\ \A i \in Starts(d, p) : e[i].msg = d[i].msg
           /\ e[Len(d) + 1].msg = r[1].msg
           /\ Cardinality(Starts(d, p)) \in Nat
           /\ Cardinality(Starts(e, p)) = Cardinality(Starts(d, p)) + 1
           /\ Queued(e, p) = Append(Queued(d, p), r[1].msg)
<1>1. /\ e \in Seq(Units) /\ Len(d) \in Nat /\ Len(e) = Len(d) + 1 + Body
      /\ \A i \in 1 .. Len(d) : e[i] = d[i]
      /\ e[Len(d) + 1] = r[1]
      /\ \A j \in 1 .. Body : e[Len(d) + 1 + j].kind = "D"
  BY RecordAtEnd DEF Appended
<1>2. Body \in Nat \ {0} /\ r[1].kind = "H" /\ Len(e) \in Nat
  <2>1. r[1].kind = "H"
    BY DEF IsRecord
  <2>2. Len(e) \in Nat
    BY <1>1, BodyAssumption
  <2> QED BY <2>1, <2>2, BodyAssumption
<1>3. Starts(e, p) = Starts(d, p) \cup {Len(d) + 1}
  <2>1. ASSUME NEW i \in Starts(e, p) PROVE i \in Starts(d, p) \cup {Len(d) + 1}
    <3>1. i \in Nat /\ p < i /\ i <= Len(e) /\ i >= 1 /\ e[i].kind = "H"
      BY <1>2, StartsType
    <3>2. CASE i <= Len(d)
      <4>1. i \in 1 .. Len(d)
        BY <1>1, <3>1, <3>2
      <4>2. d[i].kind = "H"
        BY <1>1, <3>1, <4>1
      <4> QED BY <1>1, <3>1, <3>2, <4>2, StartsType
    <3>3. CASE i > Len(d) + 1
      <4>1. i - Len(d) - 1 \in 1 .. Body /\ Len(d) + 1 + (i - Len(d) - 1) = i
        BY <1>1, <1>2, <3>1, <3>3
      <4>2. e[i].kind = "D"
        BY <1>1, <4>1
      <4> QED BY <3>1, <4>2
    <3> QED BY <1>1, <3>1, <3>2, <3>3
  <2>2. ASSUME NEW i \in Starts(d, p) PROVE i \in Starts(e, p)
    <3>1. i \in Nat /\ p < i /\ i <= Len(d) /\ i >= 1 /\ d[i].kind = "H"
      BY <1>1, StartsType
    <3>2. i \in 1 .. Len(d) /\ i <= Len(e)
      BY <1>1, <1>2, <3>1
    <3>3. e[i].kind = "H"
      BY <1>1, <3>1, <3>2
    <3> QED BY <1>2, <3>1, <3>2, <3>3, StartsType
  <2>3. Len(d) + 1 \in Starts(e, p)
    <3>1. Len(d) + 1 \in Nat /\ p < Len(d) + 1 /\ Len(d) + 1 <= Len(e) /\ e[Len(d) + 1].kind = "H"
      BY <1>1, <1>2
    <3> QED BY <1>2, <3>1, StartsType
  <2> QED BY <2>1, <2>2, <2>3
<1>4. PICK S : S = Starts(d, p)
  OBVIOUS
<1>5. PICK T : T = Starts(e, p)
  OBVIOUS
<1>6. \A k \in S : k \in Nat /\ k \in 1 .. Len(d) /\ k < Len(d) + 1
  BY <1>1, <1>4, StartsType
<1>7. /\ Ranked(T) /\ Cardinality(S) \in Nat /\ Cardinality(T) = Cardinality(S) + 1
      /\ Nth(T, Cardinality(S) + 1) = Len(d) + 1
      /\ \A i \in 1 .. Cardinality(S) : Nth(T, i) = Nth(S, i)
  <2>1. T = S \cup {Len(d) + 1} /\ Ranked(S) /\ Len(d) + 1 \in Nat
    BY <1>1, <1>3, <1>4, <1>5
  <2>2. PICK x \in Nat : x = Len(d) + 1
    BY <2>1
  <2>3. x \in Nat /\ Ranked(S) /\ With(T, S, x) /\ \A k \in S : k < x
    BY <1>6, <2>1, <2>2 DEF With
  <2>4. /\ Ranked(T) /\ Cardinality(S) \in Nat /\ Cardinality(T) = Cardinality(S) + 1
        /\ Nth(T, Cardinality(S) + 1) = x
        /\ \A i \in 1 .. Cardinality(S) : Nth(T, i) = Nth(S, i)
    BY ONLY <2>3, RankAdd
  <2> QED BY ONLY <2>2, <2>4
<1>8. \A i \in S : e[i].msg = d[i].msg
  BY <1>1, <1>6
<1>9. PICK n \in Nat : n = Cardinality(S)
  BY <1>7
<1>10. /\ Queued(d, p) \in Seq(Msgs) /\ Len(Queued(d, p)) = n
       /\ \A i \in 1 .. n : Nth(S, i) \in S /\ Queued(d, p)[i] = d[Nth(S, i)].msg
  BY <1>4, <1>9, QueuedType
<1>11. /\ Queued(e, p) \in Seq(Msgs) /\ Len(Queued(e, p)) = n + 1
       /\ \A i \in 1 .. n + 1 : Nth(T, i) \in T /\ Queued(e, p)[i] = e[Nth(T, i)].msg
  <2>1. /\ Queued(e, p) \in Seq(Msgs) /\ Len(Queued(e, p)) = Cardinality(T)
        /\ \A i \in 1 .. Cardinality(T) : Nth(T, i) \in T /\ Queued(e, p)[i] = e[Nth(T, i)].msg
    <3>1. e \in Seq(Units) /\ p \in Nat /\ Ranked(Starts(e, p))
      BY <1>1, <1>5, <1>7
    <3>2. /\ Queued(e, p) \in Seq(Msgs) /\ Len(Queued(e, p)) = Cardinality(Starts(e, p))
          /\ \A i \in 1 .. Cardinality(Starts(e, p)) :
                /\ Nth(Starts(e, p), i) \in Starts(e, p)
                /\ Queued(e, p)[i] = e[Nth(Starts(e, p), i)].msg
      BY ONLY <3>1, QueuedType
    <3> QED BY ONLY <1>5, <3>2
  <2> QED BY ONLY <1>7, <1>9, <2>1
<1>12. PICK q : q = Append(Queued(d, p), r[1].msg)
  OBVIOUS
<1>13. /\ q \in Seq(Msgs) /\ Len(q) = n + 1 /\ q[n + 1] = r[1].msg
       /\ \A i \in 1 .. n : q[i] = Queued(d, p)[i]
  <2>1. r[1].msg \in Msgs
    <3>1. r \in Seq(Units) /\ 1 \in 1 .. Len(r)
      BY <1>2 DEF IsRecord
    <3>2. r[1] \in Units
      BY <3>1, ElementOfSeq
    <3> QED BY <3>2 DEF Units
  <2> QED BY <1>10, <1>12, <2>1, AppendProperties
<1>14. ASSUME NEW i \in 1 .. n + 1 PROVE Queued(e, p)[i] = q[i]
  <2>1. CASE i \in 1 .. n
    <3>1. Nth(T, i) = Nth(S, i) /\ Nth(S, i) \in S
      BY <1>7, <1>9, <1>10, <2>1
    <3>2. e[Nth(S, i)].msg = d[Nth(S, i)].msg
      BY <1>8, <3>1
    <3> QED BY <1>10, <1>11, <1>13, <2>1, <3>1, <3>2
  <2>2. CASE i = n + 1
    <3>1. Nth(T, i) = Len(d) + 1
      BY <1>7, <1>9, <2>2
    <3>2. Queued(e, p)[i] = e[Nth(T, i)].msg
      BY <1>11
    <3> QED BY <1>1, <1>13, <2>2, <3>1, <3>2
  <2> QED BY <2>1, <2>2
<1>15. Queued(e, p) = q
  BY <1>11, <1>13, <1>14, SeqEqual
<1> QED BY <1>1, <1>3, <1>4, <1>5, <1>7, <1>8, <1>12, <1>15

\* The first record of the queue, and the queue behind it.
LEMMA QueueTail ==
    ASSUME NEW d \in Seq(Units), WellFormed(d), NEW p \in Nat, p < Len(d), Boundary(d, p),
           Ranked(Starts(d, p)), NEW z, z = p + 1 + Body
    PROVE  /\ z \in Nat /\ z <= Len(d) /\ p + 1 \in Starts(d, p)
           /\ Starts(d, z) = Starts(d, p) \ {p + 1} /\ Ranked(Starts(d, z))
           /\ Cardinality(Starts(d, z)) \in Nat
           /\ Cardinality(Starts(d, p)) = Cardinality(Starts(d, z)) + 1
           /\ Queued(d, p) \in Seq(Msgs) /\ Queued(d, z) \in Seq(Msgs) /\ Queued(d, p) # <<>>
           /\ Head(Queued(d, p)) = d[p + 1].msg /\ Tail(Queued(d, p)) = Queued(d, z)
<1>1. Body \in Nat \ {0} /\ Len(d) \in Nat /\ p + 1 \in 1 .. Len(d) /\ d[p + 1].kind = "H"
  BY BodyAssumption, LenProperties DEF Boundary
<1>2. /\ d[p + 1].n = Body /\ p + 1 + Body <= Len(d)
      /\ \A j \in 1 .. Body : d[p + 1 + j] = Payload(d[p + 1].msg, j)
  BY <1>1 DEF WellFormed
<1>3. z \in Nat /\ z <= Len(d)
  BY <1>1, <1>2
<1>4. Starts(d, z) = Starts(d, p) \ {p + 1}
  <2>1. ASSUME NEW i \in Starts(d, p), i # p + 1 PROVE i \in Starts(d, z)
    <3>1. i \in Nat /\ p < i /\ i <= Len(d) /\ d[i].kind = "H"
      BY <1>1, StartsType
    <3>2. CASE i <= z
      <4>1. i - p - 1 \in 1 .. Body /\ p + 1 + (i - p - 1) = i
        <5>1. /\ i \in Nat /\ p \in Nat /\ Body \in Nat /\ p < i /\ i # p + 1
              /\ i <= z /\ z = p + 1 + Body
          BY <1>1, <2>1, <3>1, <3>2
        <5> QED BY ONLY <5>1
      <4>2. d[i] = Payload(d[p + 1].msg, i - p - 1)
        BY <1>2, <4>1
      <4> QED BY <3>1, <4>2 DEF Payload
    <3>3. CASE i > z
      BY <1>1, <1>3, <3>1, <3>3, StartsType
    <3> QED BY <1>3, <3>1, <3>2, <3>3
  <2>2. ASSUME NEW i \in Starts(d, z) PROVE i \in Starts(d, p) /\ i # p + 1
    <3>1. i \in Nat /\ z < i /\ i <= Len(d) /\ d[i].kind = "H"
      BY <1>1, <1>3, StartsType
    <3>2. p < i /\ i # p + 1
      BY <1>1, <3>1
    <3> QED BY <1>1, <3>1, <3>2, StartsType
  <2> QED BY <2>1, <2>2
<1>5. p + 1 \in Starts(d, p)
  BY <1>1, StartsType
<1>6. PICK S : S = Starts(d, p)
  OBVIOUS
<1>7. PICK T : T = Starts(d, z)
  OBVIOUS
<1>8. PICK x \in Nat : x = p + 1
  OBVIOUS
<1>9. /\ Ranked(T) /\ Cardinality(T) \in Nat /\ Cardinality(S) = Cardinality(T) + 1
      /\ Nth(S, 1) = x
      /\ \A i \in 1 .. Cardinality(T) : Nth(T, i) = Nth(S, i + 1)
  <2>1. \A k \in S : k \in Nat /\ x <= k
    BY <1>1, <1>6, <1>8, StartsType
  <2>2. Ranked(S) /\ x \in S /\ (\A k \in S : x <= k) /\ Without(T, S, x)
    BY <1>4, <1>5, <1>6, <1>7, <1>8, <2>1 DEF Without
  <2> QED BY ONLY <2>2, RankRemove, ZenonT(60)
<1>10. PICK n \in Nat : n = Cardinality(T)
  BY <1>9
<1>11. /\ Queued(d, p) \in Seq(Msgs) /\ Len(Queued(d, p)) = n + 1
       /\ \A i \in 1 .. n + 1 : Queued(d, p)[i] = d[Nth(S, i)].msg
  <2>1. /\ Queued(d, p) \in Seq(Msgs) /\ Len(Queued(d, p)) = Cardinality(S)
        /\ \A i \in 1 .. Cardinality(S) : Queued(d, p)[i] = d[Nth(S, i)].msg
    BY <1>6, QueuedType
  <2> QED BY ONLY <1>9, <1>10, <2>1
<1>12. /\ Queued(d, z) \in Seq(Msgs) /\ Len(Queued(d, z)) = n
       /\ \A i \in 1 .. n : Queued(d, z)[i] = d[Nth(T, i)].msg
  <2>1. /\ Queued(d, z) \in Seq(Msgs) /\ Len(Queued(d, z)) = Cardinality(T)
        /\ \A i \in 1 .. Cardinality(T) : Queued(d, z)[i] = d[Nth(T, i)].msg
    BY <1>3, <1>7, <1>9, QueuedType
  <2> QED BY ONLY <1>10, <2>1
<1>13. PICK q : q = Queued(d, p)
  OBVIOUS
<1>14. q # <<>> /\ q \in Seq(Msgs)
  BY <1>11, <1>13, EmptySeq
<1>15. PICK t : t = Tail(q)
  OBVIOUS
<1>16. t \in Seq(Msgs) /\ Len(t) = n /\ \A i \in 1 .. n : t[i] = q[i + 1]
  <2>1. /\ Tail(q) \in Seq(Msgs) /\ Len(Tail(q)) = Len(q) - 1
        /\ \A i \in 1 .. Len(Tail(q)) : Tail(q)[i] = q[i + 1]
    BY <1>14, HeadTailProperties
  <2>2. Len(q) = n + 1 /\ (n + 1) - 1 = n
    BY ONLY <1>11, <1>13, n \in Nat
  <2> QED BY ONLY <1>15, <2>1, <2>2
<1>17. Head(q) = d[p + 1].msg
  <2>1. Head(q) = q[1]
    BY <1>14
  <2>2. 1 \in 1 .. n + 1
    BY ONLY n \in Nat
  <2> QED BY <1>8, <1>9, <1>11, <1>13, <2>1, <2>2
<1>18. ASSUME NEW i \in 1 .. n PROVE t[i] = Queued(d, z)[i]
  <2>1. i + 1 \in 1 .. n + 1
    BY ONLY n \in Nat, i \in 1 .. n
  <2>2. t[i] = d[Nth(S, i + 1)].msg
    BY ONLY <1>11, <1>13, <1>16, <2>1, i \in 1 .. n
  <2>3. Nth(T, i) = Nth(S, i + 1)
    BY ONLY <1>9, <1>10, i \in 1 .. n
  <2> QED BY ONLY <1>12, <2>2, <2>3, i \in 1 .. n
<1>19. t = Queued(d, z)
  BY <1>12, <1>16, <1>18, SeqEqual
<1> QED BY <1>3, <1>4, <1>5, <1>6, <1>7, <1>9, <1>11, <1>12, <1>13, <1>14, <1>15, <1>17, <1>19

-----------------------------------------------------------------------------
(* What a restart would find. *)

\* The read index of the last journal entry.
From == IF journal = <<>> THEN 0 ELSE journal[Len(journal)].rindex

\* What a restart would find: the last entry is the one journal_initialize takes.
DurableView ==
    /\ From \in Nat
    /\ journal = <<>> => ValidEntries = {}
    /\ journal # <<>> => ValidEntries # {} /\ DurableRindex = From
    /\ DurableQueue = IF journal = <<>> THEN <<>> ELSE Queued(data, From)

\* Of well-formed files that is what a restart finds.
LEMMA DurableFacts == FileInv => DurableView
<1> SUFFICES ASSUME FileInv PROVE DurableView
  OBVIOUS
<1>1. journal \in Seq(HalfEntries) /\ Len(journal) \in Nat
  BY DEF FileInv, TypeInv, TypeOK
<1>2. PICK q \in 0 .. Len(journal) : Len(journal) = 2 * q
  BY DEF FileInv, JournalInv
<1>3. WholeEntries = 1 .. q /\ ValidEntries = 1 .. q
  <2>1. Len(journal) \div 2 = q
    BY <1>1, <1>2
  <2>2. WholeEntries = 1 .. q
    BY <2>1 DEF WholeEntries
  <2> QED BY <2>2 DEF FileInv, JournalInv, ValidEntries
<1>4. CASE journal = <<>>
  <2>1. q = 0
    BY <1>2, <1>4, EmptySeq
  <2>2. ValidEntries = {}
    BY <1>3, <2>1
  <2> QED BY <1>4, <2>2 DEF From, DurableQueue, DurableView
<1>5. CASE journal # <<>>
  <2>1. q \in Nat /\ q >= 1
    BY <1>1, <1>2, <1>5, EmptySeq
  <2>2. q \in WholeEntries /\ q \in ValidEntries /\ \A l \in ValidEntries : l <= q
    BY <1>3, <2>1
  <2>3. \A k \in ValidEntries : (\A l \in ValidEntries : l <= k) => k = q
    BY <1>3, <2>1
  <2>4. (CHOOSE k \in ValidEntries : \A l \in ValidEntries : l <= k) = q
    BY <2>2, <2>3
  <2>5. DurableRindex = EntryAt(q).rindex
    BY <2>4 DEF DurableRindex
  <2>6. EntryAt(q).rindex = journal[Len(journal)].rindex /\ EntryAt(q).rindex \in Nat
    BY <1>1, <1>2, <2>2, EntryAtType
  <2>7. DurableRindex = From /\ From \in Nat
    BY <1>5, <2>5, <2>6 DEF From
  <2>8. ValidEntries # {}
    BY <2>2
  <2> QED BY <1>5, <2>7, <2>8 DEF DurableQueue, RecordsAfter, DurableView
<1> QED BY <1>4, <1>5 DEF DurableView

\* The same after a step.
LEMMA DurableFactsNext == FileInv' => DurableView'
BY DurableFacts, PTL

-----------------------------------------------------------------------------
(* The queue on disk against the counters in memory. *)

\* The message in hand was the last one delivered.
LastDelivered == delivered # <<>> /\ delivered[Len(delivered)] = cur

\* rindex is past the message in hand, which the journal does not say yet.
Committed ==
    /\ journal # <<>> /\ rindex = From + 1 + Body
    /\ From < Len(data) /\ cur = Whole(data[From + 1].msg)
    /\ flushing /\ (transaction => LastDelivered)

\* Between two writes, the journal says what the process knows; without a
\* journal there is nothing to know.
StartInv ==
    /\ pc \in {"idle", "read", "commit", "got"} => rindex = From
    /\ pc \in {"idle", "read", "commit", "got"} /\ journal = <<>>
          => data = <<>> /\ count = 0 /\ ~ flushing
    /\ pc \in {"read", "commit", "got"} => flushing
    /\ pc = "load" => jent.rindex = From /\ (journal = <<>> => data = <<>> /\ jent.count = 0)
    /\ pc \in {"down", "load", "truncate_data", "truncate_journal"} => ~ flushing
    /\ pc = "truncate_data" => journal = <<>> \/ From >= Len(data)
    /\ pc = "truncate_data" /\ ret = "idle" => journal # <<>> /\ From = Len(data)
    /\ pc = "commit" \/ (pc = "got" /\ transaction)
          => rindex < Len(data) /\ cur = Whole(data[rindex + 1].msg)
    /\ pc = "commit" /\ transaction => LastDelivered

\* What the entry that is about to be written stands for.
EntryInv ==
    pc = "journal" =>
        /\ ret \in {"saved", "idle", "got", "load"}
        /\ ret = "load" => /\ journal = <<>> /\ data = <<>> /\ jent = ZeroEntry
                           /\ rindex = 0 /\ ~ flushing
        /\ ret = "saved" => /\ rindex = From /\ ~ flushing
                            /\ \E i \in Starts(data, From) : data[i].msg = next - 1
                            /\ journal = <<>> => Len(data) = 1 + Body
        /\ ret = "idle" => \/ Committed /\ transaction
                           \/ /\ rindex = From /\ ~ flushing
                              /\ journal = <<>> => data = <<>> /\ count = 0
        /\ ret = "got" => Committed /\ ~ transaction

\* As long as the process has not died, count is the length of the queue.
CountInv ==
    crashes = 0 =>
        /\ pc \in {"idle", "read", "commit", "got", "journal"}
              => count = Cardinality(Starts(data, rindex))
        /\ pc \in {"down", "load"} => data = <<>> /\ jent.count = 0

DurableInv == StartInv /\ EntryInv /\ CountInv /\ Ranked(Starts(data, From))

\* What a step leaves in the files is what it found there.
LEMMA SameFiles ==
    ASSUME UNCHANGED <<data, journal>>
    PROVE  From' = From /\ DurableQueue' = DurableQueue
BY DEF From, DurableQueue, ValidEntries, WholeEntries, CrcOk, DurableRindex, EntryAt, RecordsAfter

\* The invariant holds at first.
LEMMA DurableInit == Init => DurableInv
<1> SUFFICES ASSUME Init PROVE DurableInv
  OBVIOUS
<1>1. Len(<<>>) = 0
  BY EmptySeq
<1>2. From = 0 /\ data = <<>> /\ pc = "down" /\ jent = ZeroEntry /\ flushing = FALSE
  BY DEF Init, From
<1>3. Ranked(Starts(data, From))
  BY <1>1, <1>2, QueueEnd
<1> QED BY <1>2, <1>3 DEF DurableInv, StartInv, EntryInv, CountInv, ZeroEntry

\* The facts that the steps below start from.
LEMMA DurableTypes ==
    ASSUME FileInv
    PROVE  /\ Body \in Nat \ {0} /\ data \in Seq(Units) /\ Len(data) \in Nat
           /\ journal \in Seq(HalfEntries) /\ Len(journal) \in Nat
           /\ From \in Nat /\ rindex \in Nat /\ count \in Nat /\ crashes \in Nat
           /\ next \in 1 .. MaxMsg + 1 /\ MaxMsg \in Nat
           /\ cur \in Seq(Units) /\ delivered \in Seq(Seq(Units)) /\ Len(delivered) \in Nat
           /\ WellFormed(data) /\ transaction \in BOOLEAN /\ flushing \in BOOLEAN
<1>1. Body \in Nat \ {0} /\ MaxMsg \in Nat
  BY BodyAssumption, MaxMsgAssumption
<1>2. From \in Nat
  BY DurableFacts DEF DurableView
<1>3. TypeOK /\ WellFormed(data)
  BY DEF FileInv, TypeInv
<1> QED BY <1>1, <1>2, <1>3, LenProperties DEF TypeOK

\* save_msg puts the message at the end of the queue, if the journal has an
\* entry to find it by.
LEMMA SaveStep ==
    ASSUME OneFragment, NoShortWrites, FileInv, FileInv', DurableInv, prelude_failover_save_msg
    PROVE  /\ DurableInv' /\ next \in Msgs
           /\ journal # <<>> => DurableQueue' = Append(DurableQueue, next)
           /\ journal = <<>> => DurableQueue' = <<>> /\ DurableQueue = <<>>
<1>1. /\ next \in Msgs /\ pc = "idle" /\ ~ flushing /\ data' = data \o Record(next, 0)
      /\ next' = next + 1 /\ count' = count + 1 /\ pc' = "journal" /\ ret' = "saved"
      /\ journal' = journal /\ rindex' = rindex /\ flushing' = flushing /\ crashes' = crashes
  BY DEF prelude_failover_save_msg, Advance, LastPart, FileInv, OneFragment, hist
<1>2. PICK r : r = Record(next, 0)
  OBVIOUS
<1>3. IsRecord(r) /\ r[1].msg = next
  <2>1. IsRecord(r)
    BY <1>1, <1>2, SavedIsRecord
  <2>2. r[1] = Header(next, Body, 0 + 1 < Parts[next])
    BY <1>1, <1>2, RecordProperties
  <2> QED BY <2>1, <2>2 DEF Header
<1>4. /\ rindex = From /\ (journal = <<>> => data = <<>>) /\ From <= Len(data)
      /\ Ranked(Starts(data, From)) /\ (crashes = 0 => count = Cardinality(Starts(data, From)))
  BY <1>1 DEF DurableInv, StartInv, CountInv, FileInv, IndexInv, Boundary
<1>5. PICK e : e = data'
  OBVIOUS
<1>6. PICK p \in Nat : p = From
  BY DurableTypes
<1>7. /\ Starts(e, p) = Starts(data, p) \cup {Len(data) + 1} /\ Ranked(Starts(e, p))
      /\ e[Len(data) + 1].msg = next
      /\ Cardinality(Starts(e, p)) = Cardinality(Starts(data, p)) + 1
      /\ Queued(e, p) = Append(Queued(data, p), next)
  <2>1. /\ data \in Seq(Units) /\ IsRecord(r) /\ Appended(e, data, r) /\ p \in Nat
        /\ p <= Len(data) /\ Ranked(Starts(data, p)) /\ r[1].msg = next
    BY <1>1, <1>2, <1>3, <1>4, <1>5, <1>6, DurableTypes DEF Appended
  <2>2. /\ Starts(e, p) = Starts(data, p) \cup {Len(data) + 1} /\ Ranked(Starts(e, p))
        /\ e[Len(data) + 1].msg = r[1].msg
        /\ Cardinality(Starts(e, p)) = Cardinality(Starts(data, p)) + 1
        /\ Queued(e, p) = Append(Queued(data, p), r[1].msg)
    BY ONLY <2>1, QueueAppend
  <2> QED BY ONLY <2>1, <2>2
<1>8. From' = From
  BY <1>1 DEF From
<1>9. Ranked(Starts(data, From))'
  BY <1>5, <1>6, <1>7, <1>8
<1>10. EntryInv'
  <2>1. Len(data) + 1 \in Starts(data', From') /\ data'[Len(data) + 1].msg = next' - 1
    <3>1. Len(data) + 1 \in Starts(e, p) /\ e[Len(data) + 1].msg = next
      BY ONLY <1>7
    <3>2. next' - 1 = next
      <4>1. next \in 1 .. MaxMsg + 1 /\ next' = next + 1
        BY <1>1, DurableTypes
      <4> QED BY ONLY <4>1
    <3> QED BY ONLY <1>5, <1>6, <1>8, <3>1, <3>2
  <2>2. journal' = <<>> => Len(data') = 1 + Body
    <3>1. Len(data') = Len(data) + 1 + Body
      BY <1>1, <1>2, <1>3, RecordAtEnd, DurableTypes
    <3> QED BY <1>1, <1>4, <3>1, EmptySeq, DurableTypes
  <2> QED BY <1>1, <1>4, <1>8, <2>1, <2>2 DEF EntryInv
<1>11. CountInv'
  BY <1>1, <1>4, <1>5, <1>6, <1>7, <1>8 DEF CountInv
<1>12. StartInv'
  BY <1>1 DEF StartInv
<1>13. DurableInv'
  BY <1>9, <1>10, <1>11, <1>12 DEF DurableInv
<1>14. DurableView /\ DurableView'
  BY DurableFacts, DurableFactsNext
<1>15. journal # <<>> => DurableQueue' = Append(DurableQueue, next)
  BY <1>1, <1>5, <1>6, <1>7, <1>8, <1>14 DEF DurableView
<1>16. journal = <<>> => DurableQueue' = <<>> /\ DurableQueue = <<>>
  BY <1>1, <1>14 DEF DurableView
<1> QED BY <1>1, <1>13, <1>15, <1>16

\* What a message read back says it is.
LEMMA WholeFirst ==
    ASSUME OneFragment, NEW m \in Msgs
    PROVE  Len(Whole(m)) = Body /\ Whole(m)[1].msg = m /\ Rewritten(Whole(m))[1].msg = m
<1>1. /\ Whole(m) \in Seq(Units) /\ Len(Whole(m)) = Body /\ Whole(m) # <<>>
      /\ \A j \in 1 .. Body : Whole(m)[j] = Payload(m, j)
  BY WholeProperties
<1>2. Whole(m)[1].msg = m
  BY <1>1, BodyAssumption DEF Payload
<1>3. PICK w : w = Whole(m)
  OBVIOUS
<1>4. Rewritten(w)[1] = Header(w[1].msg, Len(w), FALSE)
  BY <1>1, <1>3, RewrittenProperties
<1> QED BY <1>1, <1>2, <1>3, <1>4 DEF Header

\* A message that no manager took is put at the end of the queue.
LEMMA SendFailsStep ==
    ASSUME OneFragment, NoShortWrites, FileInv, FileInv', DurableInv, SendFails
    PROVE  DurableInv' /\ DurableQueue' = Append(DurableQueue, cur[1].msg)
<1>1. /\ pc = "got" /\ ~ transaction /\ data' = data \o Rewritten(cur)
      /\ count' = count + 1 /\ flushing' = FALSE /\ pc' = "journal" /\ ret' = "idle"
      /\ journal' = journal /\ rindex' = rindex /\ crashes' = crashes
  BY DEF SendFails, hist
<1>2. PICK m \in Msgs : cur = Whole(m)
  BY <1>1 DEF FileInv, IndexInv
<1>3. PICK r : r = Rewritten(cur)
  OBVIOUS
<1>4. IsRecord(r) /\ r[1].msg = cur[1].msg
  BY <1>2, <1>3, RewrittenIsRecord, WholeFirst
<1>5. /\ rindex = From /\ journal # <<>> /\ From <= Len(data)
      /\ Ranked(Starts(data, From)) /\ (crashes = 0 => count = Cardinality(Starts(data, From)))
  BY <1>1 DEF DurableInv, StartInv, CountInv, FileInv, IndexInv, Boundary
<1>6. PICK e : e = data'
  OBVIOUS
<1>7. PICK p \in Nat : p = From
  BY DurableTypes
<1>8. /\ Ranked(Starts(e, p))
      /\ Cardinality(Starts(e, p)) = Cardinality(Starts(data, p)) + 1
      /\ Queued(e, p) = Append(Queued(data, p), cur[1].msg)
  <2>1. /\ data \in Seq(Units) /\ IsRecord(r) /\ Appended(e, data, r) /\ p \in Nat
        /\ p <= Len(data) /\ Ranked(Starts(data, p)) /\ r[1].msg = cur[1].msg
    BY <1>1, <1>3, <1>4, <1>5, <1>6, <1>7, DurableTypes DEF Appended
  <2>2. /\ Ranked(Starts(e, p))
        /\ Cardinality(Starts(e, p)) = Cardinality(Starts(data, p)) + 1
        /\ Queued(e, p) = Append(Queued(data, p), r[1].msg)
    BY ONLY <2>1, QueueAppend
  <2> QED BY ONLY <2>1, <2>2
<1>9. From' = From
  BY <1>1 DEF From
<1>10. Ranked(Starts(data, From))'
  BY <1>6, <1>7, <1>8, <1>9
<1>11. StartInv' /\ EntryInv'
  BY <1>1, <1>5, <1>9 DEF StartInv, EntryInv
<1>12. CountInv'
  BY <1>1, <1>5, <1>6, <1>7, <1>8, <1>9 DEF CountInv
<1>13. DurableInv'
  BY <1>10, <1>11, <1>12 DEF DurableInv
<1>14. DurableView /\ DurableView'
  BY DurableFacts, DurableFactsNext
<1>15. DurableQueue' = Append(DurableQueue, cur[1].msg)
  BY <1>1, <1>5, <1>6, <1>7, <1>8, <1>9, <1>14 DEF DurableView
<1> QED BY <1>13, <1>15

\* The truncations drop nothing that a restart would have found.
LEMMA TruncateStep ==
    ASSUME FileInv, FileInv', DurableInv, TruncateData \/ TruncateJournal
    PROVE  DurableInv' /\ DurableQueue = <<>> /\ DurableQueue' = <<>>
<1>0. Len(<<>>) = 0 /\ 0 \in Nat /\ DurableView /\ DurableView' /\ From' \in Nat
  BY EmptySeq, DurableFacts, DurableFactsNext DEF DurableView
<1>1. /\ pc \in {"truncate_data", "truncate_journal"} /\ ~ flushing /\ data' = <<>>
      /\ ret' = ret /\ ret \in {"load", "idle"} /\ flushing' = flushing /\ jent' = jent
      /\ \/ TruncateData /\ pc' = "truncate_journal" /\ journal' = journal
            /\ (journal = <<>> \/ From >= Len(data))
         \/ TruncateJournal /\ pc' = "journal" /\ journal' = <<>> /\ rindex' = 0
            /\ count' = 0 /\ data = <<>>
  <2>1. CASE TruncateData
    BY <2>1 DEF TruncateData, DurableInv, StartInv, FileInv, TypeInv, Sane, handle, app
  <2>2. CASE TruncateJournal
    BY <2>2 DEF TruncateJournal, DurableInv, StartInv, FileInv, TypeInv, Sane, RecoveryInv, app
  <2> QED BY <2>1, <2>2
<1>2. Ranked(Starts(data, From))' /\ Starts(data', From') = {} /\ Queued(data', From') = <<>>
  <2>1. PICK p \in Nat : p = From'
    BY <1>0
  <2>2. PICK d : d = data'
    OBVIOUS
  <2>3. Len(d) = 0 /\ p >= 0
    BY <1>0, <1>1, <2>2
  <2>4. Ranked(Starts(d, p)) /\ Starts(d, p) = {} /\ Queued(d, p) = <<>>
    BY <2>3, QueueEnd
  <2> QED BY <2>1, <2>2, <2>4
<1>3. DurableQueue' = <<>>
  BY <1>0, <1>2 DEF DurableView
<1>4. DurableQueue = <<>>
  <2>1. journal # <<>> => From >= Len(data)
    <3>1. CASE data = <<>>
      BY <1>0, <3>1 DEF DurableView
    <3> QED BY <1>1, <3>1
  <2>2. journal # <<>> => Queued(data, From) = <<>>
    BY <2>1, QueueEnd, DurableTypes
  <2> QED BY <1>0, <2>2 DEF DurableView
<1>5. StartInv'
  BY <1>1 DEF StartInv
<1>6. EntryInv'
  <2>1. pc' = "journal" => From' = 0
    BY <1>1 DEF From
  <2>2. pc' = "journal" /\ ret' = "load" => jent' = ZeroEntry
    BY <1>1 DEF FileInv, RecoveryInv
  <2> QED BY <1>1, <2>1, <2>2 DEF EntryInv
<1>7. CountInv'
  <2>1. pc' = "journal" => From' = 0 /\ count' = 0 /\ rindex' = 0
    BY <1>1 DEF From
  <2>2. pc' = "journal" => Cardinality(Starts(data', rindex')) = 0
    BY <1>2, <2>1, FS_EmptySet
  <2> QED BY <1>1, <2>1, <2>2 DEF CountInv
<1> QED BY <1>2, <1>3, <1>4, <1>5, <1>6, <1>7 DEF DurableInv

\* Every header after the offset is in the queue.
LEMMA QueueRange ==
    ASSUME NEW d \in Seq(Units), NEW p \in Nat, Ranked(Starts(d, p)), NEW i \in Starts(d, p)
    PROVE  d[i].msg \in RangeOf(Queued(d, p))
<1>1. PICK S : S = Starts(d, p)
  OBVIOUS
<1>2. S \subseteq Nat /\ IsFiniteSet(S) /\ Ranked(S) /\ i \in S
  BY <1>1 DEF Ranked
<1>3. PICK j : j = Rank(S, i)
  OBVIOUS
<1>4. j \in 1 .. Cardinality(S)
  BY <1>2, <1>3, RankUnique
<1>5. i = Nth(S, j)
  BY ONLY <1>2, <1>3, <1>4, NthFacts
<1>6. Len(Queued(d, p)) = Cardinality(S) /\ Queued(d, p)[j] = d[Nth(S, j)].msg
  BY <1>1, <1>2, <1>4, QueuedType
<1> QED BY <1>4, <1>5, <1>6 DEF RangeOf

\* A journal entry says where the queue starts.
LEMMA JournalStart ==
    ASSUME FileInv, journal_write
    PROVE  journal' # <<>> /\ From' = rindex
<1>1. /\ pc = "journal" /\ jpos = Len(journal) /\ rindex \in Nat /\ count \in Nat
      /\ journal \in Seq(HalfEntries) /\ Len(journal) \in Nat
  BY DurableTypes DEF journal_write, FileInv, JournalInv
<1>2. journal' = journal \o Entry(count, rindex)
  <2>1. Entry(count, rindex) \in Seq(HalfEntries)
    BY <1>1, EntryType
  <2> QED BY <1>1, <2>1, WriteAtEnd DEF journal_write
<1>3. /\ journal' \in Seq(HalfEntries) /\ Len(journal') = Len(journal) + 2
      /\ journal'[Len(journal) + 2] = Half(2, count, rindex)
  BY <1>1, <1>2, AppendEntry DEF FileInv, JournalInv
<1>4. journal' # <<>>
  BY <1>1, <1>3, EmptySeq
<1>5. journal'[Len(journal')].rindex = rindex
  BY <1>3 DEF Half
<1> QED BY <1>4, <1>5 DEF From

\* An entry that commits a message takes it off the queue, the first one of a
\* journal shows the message that was just saved, and the others change
\* nothing.
LEMMA JournalStep ==
    ASSUME OneFragment, FileInv, FileInv', DurableInv, journal_write
    PROVE  /\ DurableInv'
           /\ ret = "saved" => /\ next - 1 \in Msgs /\ next - 1 \in RangeOf(DurableQueue')
                               /\ \/ DurableQueue' = DurableQueue
                                  \/ DurableQueue = <<>> /\ DurableQueue' = Append(<<>>, next - 1)
           /\ ret # "saved" /\ ~ Committed => DurableQueue' = DurableQueue
           /\ ret # "saved" /\ Committed =>
                 /\ ret \in {"idle", "got"} /\ DurableQueue # <<>> /\ DurableQueue \in Seq(Msgs)
                 /\ DurableQueue' = Tail(DurableQueue)
                 /\ Head(DurableQueue) \in Msgs /\ cur = Whole(Head(DurableQueue))
<1>1. /\ pc = "journal" /\ pc' = (IF ret = "saved" THEN "idle" ELSE ret)
      /\ UNCHANGED <<data, count, rindex, transaction, ret, jent, cur, next, flushing,
                     delivered, crashes>>
  BY DEF journal_write, Return, app
<1>2. journal' # <<>> /\ From' = rindex
  BY JournalStart
<1>3. /\ Body \in Nat \ {0} /\ data \in Seq(Units) /\ Len(data) \in Nat /\ From \in Nat
      /\ rindex \in Nat /\ next \in 1 .. MaxMsg + 1 /\ MaxMsg \in Nat /\ WellFormed(data)
  BY DurableTypes
<1>4. /\ ret \in {"saved", "idle", "got", "load"} /\ Ranked(Starts(data, From))
      /\ (crashes = 0 => count = Cardinality(Starts(data, rindex)))
  BY <1>1 DEF DurableInv, EntryInv, CountInv
<1>5. /\ DurableQueue = IF journal = <<>> THEN <<>> ELSE Queued(data, From)
      /\ DurableQueue' = Queued(data, rindex)
  <2>1. DurableView /\ DurableView'
    BY DurableFacts, DurableFactsNext
  <2> QED BY <1>1, <1>2, <2>1 DEF DurableView
<1>6. EntryInv'
  BY <1>1, <1>4 DEF EntryInv
<1>7. CASE ret = "load"
  <2>1. /\ journal = <<>> /\ data = <<>> /\ jent = ZeroEntry /\ rindex = 0 /\ ~ flushing
        /\ pc' = "load" /\ From = 0
    BY <1>1, <1>7 DEF DurableInv, EntryInv, From
  <2>2. StartInv' /\ CountInv'
    BY <1>1, <1>2, <2>1 DEF StartInv, CountInv, ZeroEntry
  <2>3. DurableInv'
    BY <1>1, <1>2, <1>4, <1>6, <2>1, <2>2 DEF DurableInv
  <2>4. DurableQueue = <<>> /\ DurableQueue' = <<>>
    <3>1. Len(data) = 0
      BY <2>1, EmptySeq
    <3>2. Queued(data, rindex) = <<>>
      BY <1>3, <2>1, <3>1, QueueEnd
    <3> QED BY <1>5, <2>1, <3>2
  <2>5. ~ Committed
    BY <2>1 DEF Committed
  <2> QED BY <1>7, <2>3, <2>4, <2>5
<1>8. CASE ret = "saved" \/ (ret = "idle" /\ ~ Committed)
  <2>1. /\ rindex = From /\ ~ flushing /\ pc' = "idle" /\ ~ Committed
        /\ (ret = "idle" /\ journal = <<>> => data = <<>>)
    BY <1>1, <1>8 DEF DurableInv, EntryInv, Committed
  <2>2. StartInv' /\ CountInv'
    BY <1>1, <1>2, <1>4, <2>1 DEF StartInv, CountInv
  <2>3. DurableInv'
    BY <1>1, <1>2, <1>4, <1>6, <2>1, <2>2 DEF DurableInv
  <2>4. CASE ret = "idle"
    <3>1. CASE journal = <<>>
      <4>1. Len(data) = 0
        BY <2>1, <2>4, <3>1, EmptySeq
      <4>2. Queued(data, rindex) = <<>>
        BY <1>3, <4>1, QueueEnd
      <4> QED BY <1>5, <2>3, <2>4, <3>1, <4>2, <2>1
    <3>2. CASE journal # <<>>
      BY <1>5, <2>1, <2>3, <2>4, <3>2
    <3> QED BY <3>1, <3>2
  <2>5. CASE ret = "saved"
    <3>1. PICK i \in Starts(data, From) : data[i].msg = next - 1
      BY <1>1, <2>5 DEF DurableInv, EntryInv
    <3>2. next - 1 \in RangeOf(DurableQueue')
      <4>1. data[i].msg \in RangeOf(Queued(data, From))
        BY <1>3, <1>4, QueueRange
      <4> QED BY <1>5, <2>1, <3>1, <4>1
    <3>3. next - 1 \in Msgs
      <4>1. next >= 2
        BY <1>1, <2>5 DEF FileInv, TypeInv, Sane
      <4> QED BY <1>3, <4>1 DEF Msgs
    <3>4. journal = <<>> => DurableQueue' = Append(<<>>, next - 1)
      <4> SUFFICES ASSUME journal = <<>> PROVE DurableQueue' = Append(<<>>, next - 1)
        OBVIOUS
      <4>1. From = 0 /\ Len(data) = 1 + Body
        BY <1>1, <2>5 DEF DurableInv, EntryInv, From
      <4>2. PICK p \in Nat : p = From
        BY <1>3
      <4>3. PICK z : z = p + 1 + Body
        OBVIOUS
      <4>4. p < Len(data) /\ z = Len(data) /\ Boundary(data, p) /\ Ranked(Starts(data, p))
        <5>1. Boundary(data, p)
          BY <1>1, <2>1, <4>2 DEF FileInv, IndexInv
        <5> QED BY <1>3, <1>4, <4>1, <4>2, <4>3, <5>1
      <4>5. /\ Queued(data, p) \in Seq(Msgs) /\ Queued(data, p) # <<>>
            /\ Tail(Queued(data, p)) = Queued(data, z) /\ z \in Nat
        BY <1>3, <4>3, <4>4, QueueTail
      <4>6. Queued(data, z) = <<>>
        BY <1>3, <4>4, <4>5, QueueEnd
      <4>7. PICK q : q = Queued(data, p)
        OBVIOUS
      <4>8. Len(q) = 1 /\ q \in Seq(Msgs) /\ Len(q) \in Nat
        <5>1. Len(Tail(q)) = Len(q) - 1 /\ Len(Tail(q)) = 0 /\ Len(q) \in Nat
          BY <4>5, <4>6, <4>7, HeadTailProperties, EmptySeq, LenProperties
        <5> QED BY <4>5, <4>7, <5>1
      <4>9. q[1] = next - 1
        <5>1. PICK j \in 1 .. Len(q) : q[j] = next - 1
          BY <1>5, <2>1, <3>2, <4>2, <4>7 DEF RangeOf
        <5>2. j = 1
          BY <4>8
        <5> QED BY <5>1, <5>2
      <4>10. PICK a : a = Append(<<>>, next - 1)
        OBVIOUS
      <4>11. a \in Seq(Msgs) /\ Len(a) = 1 /\ a[1] = next - 1
        <5>1. <<>> \in Seq(Msgs) /\ Len(<<>>) = 0
          BY EmptySeq
        <5> QED BY <3>3, <4>10, <5>1, AppendProperties
      <4>12. q = a
        BY <4>8, <4>9, <4>11, SeqEqual
      <4> QED BY <1>5, <2>1, <4>2, <4>7, <4>10, <4>12
    <3>5. journal = <<>> => DurableQueue = <<>>
      BY <1>5
    <3>6. journal # <<>> => DurableQueue' = DurableQueue
      BY <1>5, <2>1
    <3> QED BY <2>3, <2>5, <3>2, <3>3, <3>4, <3>5, <3>6
  <2> QED BY <1>8, <2>4, <2>5
<1>9. CASE Committed /\ ret \in {"idle", "got"}
  <2>1. /\ journal # <<>> /\ rindex = From + 1 + Body /\ From < Len(data)
        /\ cur = Whole(data[From + 1].msg) /\ flushing /\ pc' = ret /\ (ret = "got" => ~ transaction)
    BY <1>1, <1>9 DEF Committed, DurableInv, EntryInv
  <2>2. PICK p \in Nat : p = From
    BY <1>3
  <2>3. Boundary(data, p)
    <3>1. Len(journal) \in 1 .. Len(journal)
      BY <2>1, EmptySeq, DurableTypes
    <3>2. \A i \in 1 .. Len(journal) : Boundary(data, journal[i].rindex)
      BY <1>1 DEF FileInv, JournalIndexInv
    <3> QED BY <2>1, <2>2, <3>1, <3>2 DEF From
  <2>4. /\ Ranked(Starts(data, rindex)) /\ Queued(data, p) \in Seq(Msgs) /\ Queued(data, p) # <<>>
        /\ Head(Queued(data, p)) = data[p + 1].msg /\ Tail(Queued(data, p)) = Queued(data, rindex)
    <3>1. PICK z : z = rindex
      OBVIOUS
    <3>2. /\ data \in Seq(Units) /\ WellFormed(data) /\ p \in Nat /\ p < Len(data)
          /\ Boundary(data, p) /\ Ranked(Starts(data, p)) /\ z = p + 1 + Body
      BY <1>3, <1>4, <2>1, <2>2, <2>3, <3>1
    <3>3. /\ Ranked(Starts(data, z)) /\ Queued(data, p) \in Seq(Msgs) /\ Queued(data, p) # <<>>
          /\ Head(Queued(data, p)) = data[p + 1].msg /\ Tail(Queued(data, p)) = Queued(data, z)
      BY ONLY <3>2, QueueTail
    <3> QED BY <3>1, <3>3
  <2>5. StartInv' /\ CountInv'
    BY <1>1, <1>2, <1>4, <1>9, <2>1 DEF StartInv, CountInv
  <2>6. DurableInv'
    BY <1>1, <1>2, <1>6, <2>4, <2>5 DEF DurableInv
  <2>7. Head(Queued(data, p)) \in Msgs
    BY <2>4, HeadTailProperties
  <2> QED BY <1>5, <1>9, <2>1, <2>2, <2>4, <2>6, <2>7
<1>10. ret = "got" => Committed
  BY <1>1 DEF DurableInv, EntryInv
<1> QED BY <1>4, <1>7, <1>8, <1>9, <1>10

\* Committing the first message moves the read index past it.
LEMMA CommitStep ==
    ASSUME OneFragment, FileInv, FileInv', DurableInv, prelude_failover_commit
    PROVE  DurableInv'
<1>1. /\ pc = "commit" /\ pc' = "journal" /\ ret' = (IF transaction THEN "idle" ELSE "got")
      /\ count' = (IF count > 0 THEN count - 1 ELSE 0) /\ rindex' = rindex + GetLen(cur)
      /\ UNCHANGED <<data, journal, transaction, jent, cur, next, flushing, delivered, crashes>>
  BY DEF prelude_failover_commit, disk, app, hist
<1>2. /\ Body \in Nat \ {0} /\ data \in Seq(Units) /\ Len(data) \in Nat /\ From \in Nat
      /\ rindex \in Nat /\ count \in Nat /\ WellFormed(data) /\ transaction \in BOOLEAN
  BY DurableTypes
<1>3. /\ rindex = From /\ flushing /\ journal # <<>> /\ rindex < Len(data)
      /\ cur = Whole(data[rindex + 1].msg) /\ (transaction => LastDelivered)
      /\ Ranked(Starts(data, From)) /\ (crashes = 0 => count = Cardinality(Starts(data, rindex)))
      /\ Boundary(data, rindex)
  BY <1>1 DEF DurableInv, StartInv, CountInv, FileInv, IndexInv
<1>4. GetLen(cur) = 1 + Body
  <2>1. PICK m \in Msgs : cur = Whole(m)
    BY <1>1 DEF FileInv, IndexInv
  <2>2. Len(cur) = Body
    BY <2>1, WholeFirst
  <2> QED BY <2>2 DEF GetLen
<1>5. From' = From
  BY <1>1 DEF From
<1>6. rindex' = rindex + 1 + Body
  BY <1>1, <1>2, <1>4
<1>7. EntryInv'
  <2>1. Committed'
    BY <1>1, <1>3, <1>5, <1>6 DEF Committed, LastDelivered
  <2> QED BY <1>1, <1>2, <2>1 DEF EntryInv
<1>8. CountInv'
  <2> SUFFICES ASSUME crashes = 0 PROVE count' = Cardinality(Starts(data, rindex'))
    BY <1>1 DEF CountInv
  <2>1. PICK p \in Nat : p = rindex
    BY <1>2
  <2>2. PICK z : z = rindex'
    OBVIOUS
  <2>3. /\ data \in Seq(Units) /\ WellFormed(data) /\ p \in Nat /\ p < Len(data)
        /\ Boundary(data, p) /\ Ranked(Starts(data, p)) /\ z = p + 1 + Body
    BY <1>2, <1>3, <1>6, <2>1, <2>2
  <2>4. /\ Cardinality(Starts(data, z)) \in Nat
        /\ Cardinality(Starts(data, p)) = Cardinality(Starts(data, z)) + 1
    BY ONLY <2>3, QueueTail
  <2>5. count = Cardinality(Starts(data, z)) + 1
    BY <1>3, <2>1, <2>4
  <2>6. count' = Cardinality(Starts(data, z))
    BY <1>1, <2>4, <2>5
  <2> QED BY <2>2, <2>6
<1>9. StartInv'
  BY <1>1 DEF StartInv
<1>10. Ranked(Starts(data, From))'
  BY <1>1, <1>3, <1>5
<1> QED BY <1>7, <1>8, <1>9, <1>10 DEF DurableInv

\* Recovery finds the last entry, or starts over.
LEMMA RecoverStep ==
    ASSUME FileInv, FileInv', DurableInv, prelude_failover_new
    PROVE  DurableInv'
<1>1. /\ pc = "down" /\ ret' = "load" /\ flushing' = FALSE
      /\ pc' \in {"failed", "load", "truncate_data"}
      /\ UNCHANGED <<data, journal, crashes>>
  <2>1. /\ pc = "down" /\ ret' = "load" /\ flushing' = FALSE /\ UNCHANGED <<data, journal, crashes>>
    BY DEF prelude_failover_new, disk, hist
  <2>2. pc' \in {"failed", "load", "truncate_data"}
    BY DEF prelude_failover_new
  <2> QED BY <2>1, <2>2
<1>2. /\ Len(data) \in Nat /\ journal \in Seq(HalfEntries) /\ Len(journal) \in Nat /\ From \in Nat
      /\ Ranked(Starts(data, From))
  BY DurableTypes DEF DurableInv
<1>3. From' = From /\ Len(<<>>) = 0
  BY <1>1, EmptySeq DEF From
<1>4. DurableView
  BY DurableFacts
<1>5. CASE journal = <<>>
  <2>1. ValidEntries = {} /\ From = 0 /\ WholeEntries = {}
    <3>1. WholeEntries = {}
      BY <1>5, <1>3 DEF WholeEntries
    <3> QED BY <1>4, <1>5, <3>1 DEF DurableView, From
  <2>2. jent' = ZeroEntry /\ pc' = IF data = <<>> THEN "load" ELSE "truncate_data"
    BY <1>5, <2>1 DEF prelude_failover_new
  <2>3. StartInv'
    BY <1>1, <1>3, <1>5, <2>1, <2>2 DEF StartInv, ZeroEntry
  <2>4. CountInv'
    BY <1>1, <2>2 DEF CountInv, ZeroEntry
  <2> QED BY <1>1, <1>2, <1>3, <2>2, <2>3, <2>4 DEF DurableInv, EntryInv
<1>6. CASE journal # <<>>
  <2>1. ValidEntries # {} /\ DurableRindex = From /\ WholeEntries # {}
    BY <1>4, <1>6 DEF DurableView, ValidEntries
  <2>2. PICK k \in ValidEntries :
          /\ IsLastValid(k) /\ jent' = Recovered(EntryAt(k))
          /\ pc' = IF EntryAt(k).rindex < Len(data) THEN "load" ELSE "truncate_data"
    BY <1>6, <2>1 DEF prelude_failover_new
  <2>3. ValidEntries \subseteq Nat
    BY <1>2 DEF ValidEntries, WholeEntries
  <2>4. (CHOOSE i \in ValidEntries : \A l \in ValidEntries : l <= i) = k
    <3>1. \A i \in ValidEntries : (\A l \in ValidEntries : l <= i) => i = k
      BY <2>2, <2>3 DEF IsLastValid
    <3> QED BY <2>2, <3>1 DEF IsLastValid
  <2>5. EntryAt(k).rindex = From
    BY <2>1, <2>4 DEF DurableRindex
  <2>6. pc' = "truncate_data" => From >= Len(data)
    BY <1>2, <2>2, <2>5
  <2>7. pc' = "load" => jent'.rindex = From /\ From < Len(data)
    BY <1>2, <2>2, <2>5 DEF Recovered
  <2>8. StartInv'
    BY <1>1, <1>3, <1>6, <2>6, <2>7 DEF StartInv
  <2>9. CountInv'
    <3>1. pc' = "load" => data # <<>>
      BY <1>2, <1>3, <2>7
    <3>2. crashes = 0 => data = <<>>
      BY <1>1 DEF DurableInv, CountInv
    <3> QED BY <1>1, <2>2, <3>1, <3>2 DEF CountInv
  <2> QED BY <1>1, <1>2, <1>3, <2>2, <2>8, <2>9 DEF DurableInv, EntryInv
<1> QED BY <1>5, <1>6

\* Reading does not change the files; a message that was read is the first of
\* the queue, and at the end of the file there is none.
LEMMA ReadStep ==
    ASSUME OneFragment, FileInv, FileInv', DurableInv, ReadRecord
    PROVE  /\ DurableInv' /\ pc' = (IF transaction THEN "got" ELSE "commit")
           /\ journal # <<>> /\ DurableQueue \in Seq(Msgs) /\ DurableQueue # <<>>
           /\ Head(DurableQueue) \in Msgs /\ cur' = Whole(Head(DurableQueue))
<1>1. /\ pc = "read" /\ rpos < Len(data) /\ rpos = rindex /\ Boundary(data, rindex)
      /\ rpos' = rpos + 1 + data[rpos + 1].n
      /\ pc' = (IF data[rpos + 1].frag THEN "read" ELSE IF transaction THEN "got" ELSE "commit")
      /\ UNCHANGED <<data, journal, count, rindex, transaction, jent, flushing, crashes>>
  BY DEF ReadRecord, Readable, FileInv, IndexInv, disk, app, hist
<1>2. /\ Body \in Nat \ {0} /\ data \in Seq(Units) /\ Len(data) \in Nat /\ From \in Nat
      /\ rindex \in Nat /\ WellFormed(data) /\ transaction \in BOOLEAN
  BY DurableTypes
<1>3. /\ rindex = From /\ flushing /\ journal # <<>> /\ Ranked(Starts(data, From))
      /\ (crashes = 0 => count = Cardinality(Starts(data, rindex)))
  BY <1>1 DEF DurableInv, StartInv, CountInv
<1>4. data[rindex + 1].frag = FALSE /\ data[rindex + 1].msg \in Msgs
  <2>1. rindex + 1 \in 1 .. Len(data) /\ data[rindex + 1].kind = "H"
    BY <1>1, <1>2 DEF Boundary
  <2>2. data[rindex + 1] \in Units
    BY <1>2, <2>1, ElementOfSeq
  <2> QED BY <1>2, <2>1, <2>2 DEF WellFormed, Units
<1>5. pc' = IF transaction THEN "got" ELSE "commit"
  BY <1>1, <1>4
<1>6. cur' = Whole(data[rindex + 1].msg)
  <2>1. PICK m \in Msgs : cur' = Whole(m)
    BY <1>2, <1>5 DEF FileInv, IndexInv
  <2>2. cur' = cur \o SubSeq(data, rpos + 2, rpos + 1 + data[rpos + 1].n)
    BY DEF ReadRecord
  <2>3. cur = <<>> /\ data[rpos + 1].n = Body
    <3>1. rindex + 1 \in 1 .. Len(data) /\ data[rindex + 1].kind = "H"
      BY <1>1, <1>2 DEF Boundary
    <3> QED BY <1>1, <1>2, <3>1 DEF FileInv, IndexInv, WellFormed
  <2>4. m = data[rindex + 1].msg
    <3>1. cur'[1].msg = m
      BY <2>1, WholeFirst
    <3>2. PICK a, z \in Nat : a = rpos + 2 /\ z = rpos + 1 + Body
      BY <1>1, <1>2
    <3>3. /\ a <= z /\ z <= Len(data) /\ a \in 1 .. Len(data)
          /\ data[a] = Payload(data[rindex + 1].msg, 1)
      <4>1. rindex + 1 \in 1 .. Len(data) /\ data[rindex + 1].kind = "H"
        BY <1>1, <1>2 DEF Boundary
      <4>2. /\ rindex + 1 + Body <= Len(data)
            /\ \A j \in 1 .. Body : data[rindex + 1 + j] = Payload(data[rindex + 1].msg, j)
        BY <1>2, <4>1 DEF WellFormed
      <4>3. 1 \in 1 .. Body /\ rindex + 1 + 1 = a
        BY <1>1, <1>2, <3>2
      <4>4. data[a] = Payload(data[rindex + 1].msg, 1)
        BY <4>2, <4>3
      <4> QED BY <1>1, <1>2, <3>2, <4>2, <4>4
    <3>4. \A i \in a .. z : data[i] \in Units
      BY <1>2, <3>3, ElementOfSeq
    <3>5. PICK s : s = SubSeq(data, a, z)
      OBVIOUS
    <3>6. s \in Seq(Units) /\ Len(s) = z - a + 1 /\ s[1] = data[a]
      <4>1. /\ SubSeq(data, a, z) \in Seq(Units) /\ Len(SubSeq(data, a, z)) = z - a + 1
            /\ \A i \in 1 .. z - a + 1 : SubSeq(data, a, z)[i] = data[a + i - 1]
        BY <3>3, <3>4, SubSeqProperties
      <4>2. 1 \in 1 .. z - a + 1 /\ a + 1 - 1 = a
        BY <3>3
      <4> QED BY <3>5, <4>1, <4>2
    <3>7. cur' = <<>> \o s
      BY <1>1, <2>2, <2>3, <3>2, <3>5
    <3>8. <<>> \o s = s
      BY <3>6, ConcatEmptySeq
    <3> QED BY <3>1, <3>3, <3>6, <3>7, <3>8 DEF Payload
  <2> QED BY <2>1, <2>4
<1>7. From' = From /\ DurableView
  BY <1>1, DurableFacts DEF From
<1>8. DurableInv'
  <2>1. StartInv'
    BY <1>1, <1>3, <1>5, <1>6, <1>7 DEF StartInv
  <2>2. EntryInv' /\ CountInv'
    BY <1>1, <1>2, <1>3, <1>5 DEF EntryInv, CountInv
  <2> QED BY <1>1, <1>3, <1>7, <2>1, <2>2 DEF DurableInv
<1>9. /\ Queued(data, rindex) \in Seq(Msgs) /\ Queued(data, rindex) # <<>>
      /\ Head(Queued(data, rindex)) = data[rindex + 1].msg
  <2>1. PICK p \in Nat : p = rindex
    BY <1>2
  <2>2. PICK z : z = p + 1 + Body
    OBVIOUS
  <2>3. /\ data \in Seq(Units) /\ WellFormed(data) /\ p \in Nat /\ p < Len(data)
        /\ Boundary(data, p) /\ Ranked(Starts(data, p)) /\ z = p + 1 + Body
    BY <1>1, <1>2, <1>3, <2>1, <2>2
  <2>4. /\ Queued(data, p) \in Seq(Msgs) /\ Queued(data, p) # <<>>
        /\ Head(Queued(data, p)) = data[p + 1].msg
    BY ONLY <2>3, QueueTail
  <2> QED BY <2>1, <2>4
<1>10. DurableQueue = Queued(data, rindex)
  BY <1>3, <1>7 DEF DurableView
<1> QED BY <1>3, <1>4, <1>5, <1>6, <1>8, <1>9, <1>10

\* A borrowed message is still the first of the queue.
LEMMA BorrowedFirst ==
    ASSUME OneFragment, FileInv, DurableInv, pc = "got", transaction
    PROVE  \E m \in Msgs : cur = Whole(m) /\ m \in RangeOf(DurableQueue)
<1>1. /\ rindex = From /\ journal # <<>> /\ rindex < Len(data) /\ Ranked(Starts(data, From))
      /\ cur = Whole(data[rindex + 1].msg) /\ Boundary(data, rindex) /\ DurableView
  BY DurableFacts DEF DurableInv, StartInv, FileInv, IndexInv
<1>2. data \in Seq(Units) /\ Len(data) \in Nat /\ rindex \in Nat
  BY DurableTypes
<1>3. rindex + 1 \in 1 .. Len(data) /\ data[rindex + 1].kind = "H"
  BY <1>1, <1>2 DEF Boundary
<1>4. rindex + 1 \in Starts(data, rindex)
  BY <1>2, <1>3, StartsType
<1>5. data[rindex + 1].msg \in Msgs
  <2>1. data[rindex + 1] \in Units
    BY <1>2, <1>3, ElementOfSeq
  <2> QED BY <2>1 DEF Units
<1>6. data[rindex + 1].msg \in RangeOf(Queued(data, rindex))
  BY <1>1, <1>2, <1>4, QueueRange
<1>7. DurableQueue = Queued(data, rindex)
  BY <1>1 DEF DurableView
<1> QED BY <1>1, <1>5, <1>6, <1>7

\* A step keeps the queue on disk what the process takes it for.
LEMMA DurableStep ==
    ASSUME OneFragment, NoShortWrites
    PROVE  FileInv /\ FileInv' /\ DurableInv /\ [Next]_vars => DurableInv'
<1> SUFFICES ASSUME FileInv, FileInv', DurableInv, [Next]_vars PROVE DurableInv'
  OBVIOUS
<1>a. Len(data) \in Nat /\ rindex \in Nat /\ crashes \in Nat /\ Body \in Nat /\ WellFormed(data)
  BY DurableTypes
<1>1. CASE prelude_failover_new
  BY <1>1, RecoverStep
<1>2. CASE JournalLoad
  <2>1. /\ pc = "load" /\ pc' = "idle" /\ count' = jent.count /\ rindex' = jent.rindex
        /\ UNCHANGED <<data, journal, flushing, crashes>>
    BY <1>2 DEF JournalLoad, disk, app, hist
  <2>2. From' = From
    BY <2>1, SameFiles
  <2>3. StartInv' /\ EntryInv'
    BY <2>1, <2>2 DEF DurableInv, StartInv, EntryInv
  <2>4. CountInv'
    <3>1. ASSUME data = <<>> PROVE Cardinality(Starts(data, From)) = 0
      <4>1. Starts(data, From) = {}
        <5>1. Len(data) = 0 /\ From \in Nat /\ From >= Len(data)
          BY <3>1, EmptySeq, DurableTypes
        <5> QED BY <5>1, QueueEnd
      <4> QED BY <4>1, FS_EmptySet
    <3> QED BY <2>1, <2>2, <3>1 DEF DurableInv, StartInv, CountInv
  <2> QED BY <2>1, <2>2, <2>3, <2>4 DEF DurableInv
<1>3. CASE SetTransaction
  <2>1. /\ pc = "idle" /\ ~ flushing
        /\ UNCHANGED <<data, journal, count, rindex, pc, jent, ret, flushing, crashes>>
    BY <1>3 DEF SetTransaction, disk, call, app, hist
  <2>2. From' = From
    BY <2>1, SameFiles
  <2> QED BY <2>1, <2>2 DEF DurableInv, StartInv, EntryInv, CountInv
<1>4. CASE journal_write
  BY <1>4, JournalStep
<1>5. CASE JournalShort
  BY <1>5 DEF JournalShort, NoShortWrites
<1>6. CASE TruncateData \/ TruncateJournal
  BY <1>6, TruncateStep
<1>7. CASE prelude_failover_save_msg
  BY <1>7, SaveStep
<1>8. CASE SaveShort
  BY <1>8 DEF SaveShort, NoShortWrites
<1>9. CASE failover_flush
  <2>1. /\ pc = "idle" /\ count > 0
        /\ UNCHANGED <<data, journal, count, rindex, pc, jent, ret, crashes>>
    BY <1>9 DEF failover_flush, disk, handle, call, hist
  <2>2. From' = From
    BY <2>1, SameFiles
  <2>3. StartInv'
    BY <2>1, <2>2 DEF DurableInv, StartInv
  <2> QED BY <2>1, <2>2, <2>3 DEF DurableInv, EntryInv, CountInv
<1>10. CASE prelude_failover_get_saved_msg
  <2>1. /\ pc = "idle" /\ pc' = "read" /\ flushing
        /\ UNCHANGED <<data, journal, count, rindex, jent, ret, flushing, crashes>>
    BY <1>10 DEF prelude_failover_get_saved_msg, disk, handle, app, hist
  <2>2. From' = From
    BY <2>1, SameFiles
  <2> QED BY <2>1, <2>2 DEF DurableInv, StartInv, EntryInv, CountInv
<1>11. CASE ReadRecord
  BY <1>11, ReadStep
<1>12. CASE ReadFails
  <2>1. /\ pc = "read" /\ ~ Readable /\ pc' = "truncate_data" /\ ret' = "idle" /\ flushing' = FALSE
        /\ UNCHANGED <<data, journal, crashes>>
    BY <1>12 DEF ReadFails, disk, hist
  <2>2. From' = From
    BY <2>1, SameFiles
  <2>3. journal # <<>> /\ rindex = From /\ rpos = rindex /\ Boundary(data, rindex)
    BY <2>1 DEF DurableInv, StartInv, FileInv, IndexInv
  <2>4. From >= Len(data) /\ From = Len(data)
    <3> SUFFICES ASSUME rindex < Len(data) PROVE FALSE
      BY <1>a, <2>3 DEF Boundary
    <3>1. rindex + 1 \in 1 .. Len(data) /\ data[rindex + 1].kind = "H"
      BY <1>a, <2>3 DEF Boundary
    <3>2. rindex + 1 + data[rindex + 1].n <= Len(data)
      BY <1>a, <3>1 DEF WellFormed
    <3> QED BY <2>1, <2>3, <3>1, <3>2 DEF Readable
  <2> QED BY <2>1, <2>2, <2>3, <2>4 DEF DurableInv, StartInv, EntryInv, CountInv
<1>13. CASE prelude_failover_commit
  BY <1>13, CommitStep
<1>14. CASE Deliver
  <2>1. /\ pc = "got" /\ pc' = (IF transaction THEN "commit" ELSE "idle")
        /\ delivered' = Append(delivered, cur)
        /\ UNCHANGED <<data, journal, count, rindex, transaction, cur, jent, ret, flushing, crashes>>
    BY <1>14 DEF Deliver, disk, handle, app
  <2>2. From' = From
    BY <2>1, SameFiles
  <2>3. LastDelivered'
    <3>1. /\ delivered' \in Seq(Seq(Units)) /\ Len(delivered') = Len(delivered) + 1
          /\ delivered'[Len(delivered) + 1] = cur /\ Len(delivered) \in Nat
      BY <2>1, DurableTypes, AppendProperties
    <3>2. delivered' # <<>>
      BY <3>1, EmptySeq
    <3> QED BY <2>1, <3>1, <3>2 DEF LastDelivered
  <2>4. transaction \in BOOLEAN
    BY DurableTypes
  <2> QED BY <2>1, <2>2, <2>3, <2>4 DEF DurableInv, StartInv, EntryInv, CountInv
<1>15. CASE SendFails
  BY <1>15, SendFailsStep
<1>16. CASE prelude_failover_rollback
  <2>1. /\ pc = "got" /\ pc' = "idle" /\ flushing' = FALSE
        /\ UNCHANGED <<data, journal, count, rindex, jent, ret, crashes>>
    BY <1>16 DEF prelude_failover_rollback, disk, hist
  <2>2. From' = From
    BY <2>1, SameFiles
  <2> QED BY <2>1, <2>2 DEF DurableInv, StartInv, EntryInv, CountInv
<1>17. CASE Crash
  <2>1. /\ pc' = "down" /\ flushing' = FALSE /\ crashes' = crashes + 1
        /\ UNCHANGED <<data, journal>>
    BY <1>17 DEF Crash, disk
  <2>2. From' = From
    BY <2>1, SameFiles
  <2>3. crashes' # 0
    BY <1>a, <2>1
  <2> QED BY <2>1, <2>2, <2>3 DEF DurableInv, StartInv, EntryInv, CountInv
<1>18. CASE UNCHANGED vars
  <2>1. UNCHANGED <<data, journal, count, rindex, transaction, pc, ret, jent, cur, next,
                    flushing, delivered, crashes>>
    BY <1>18 DEF vars, disk, handle, call, app, hist
  <2>2. From' = From
    BY <2>1, SameFiles
  <2>3. StartInv' /\ EntryInv'
    BY <2>1, <2>2 DEF DurableInv, StartInv, EntryInv, Committed, LastDelivered
  <2> QED BY <2>1, <2>2, <2>3 DEF DurableInv, CountInv
<1> QED BY <1>1, <1>2, <1>3, <1>4, <1>5, <1>6, <1>7, <1>8, <1>9, <1>10, <1>11, <1>12,
           <1>13, <1>14, <1>15, <1>16, <1>17, <1>18 DEF Next, Step

\* Without crashes count is the number of messages left to read.
THEOREM AlwaysCountExact ==
    ASSUME OneFragment, NoShortWrites
    PROVE  Spec => []CountExact
<1>1. FileInv /\ DurableInv => CountExact
  <2> SUFFICES ASSUME FileInv, DurableInv, pc = "idle", crashes = 0
               PROVE  count = Len(RecordsAfter(rindex))
    BY DEF CountExact
  <2>1. count = Cardinality(Starts(data, rindex)) /\ rindex = From /\ Ranked(Starts(data, rindex))
    BY DEF DurableInv, StartInv, CountInv
  <2>2. Len(Queued(data, rindex)) = Cardinality(Starts(data, rindex))
    BY <2>1, QueuedType, DurableTypes
  <2> QED BY <2>1, <2>2 DEF RecordsAfter
<1>2. Init => FileInv /\ DurableInv
  BY FileInit, DurableInit
<1>3. FileInv /\ DurableInv /\ [Next]_vars => FileInv' /\ DurableInv'
  BY FileStep, DurableStep
<1> QED BY <1>1, <1>2, <1>3, PTL DEF Spec

-----------------------------------------------------------------------------
(* What a crash may lose. *)

\* The queue is a sequence of messages.
LEMMA DurableQueueType ==
    ASSUME FileInv, DurableInv
    PROVE  DurableQueue \in Seq(Msgs)
<1>1. DurableView /\ Ranked(Starts(data, From)) /\ data \in Seq(Units) /\ From \in Nat
  BY DurableFacts, DurableTypes DEF DurableInv
<1>2. Queued(data, From) \in Seq(Msgs)
  BY <1>1, QueuedType
<1>3. <<>> \in Seq(Msgs)
  BY EmptySeq
<1> QED BY <1>1, <1>2, <1>3 DEF DurableView

\* A sequence that grows by one element keeps the others.
LEMMA RangeAppend ==
    ASSUME NEW T, NEW s \in Seq(T), NEW x \in T
    PROVE  x \in RangeOf(Append(s, x)) /\ \A y \in RangeOf(s) : y \in RangeOf(Append(s, x))
<1>1. /\ Append(s, x) \in Seq(T) /\ Len(Append(s, x)) = Len(s) + 1 /\ Len(s) \in Nat
      /\ \A i \in 1 .. Len(s) : Append(s, x)[i] = s[i]
      /\ Append(s, x)[Len(s) + 1] = x
  BY AppendProperties, LenProperties
<1>2. PICK a : a = Append(s, x)
  OBVIOUS
<1>3. Len(s) + 1 \in 1 .. Len(a) /\ a[Len(s) + 1] = x
  BY <1>1, <1>2
<1>4. ASSUME NEW y \in RangeOf(s) PROVE y \in RangeOf(a)
  <2>1. PICK i \in 1 .. Len(s) : y = s[i]
    BY DEF RangeOf
  <2>2. i \in 1 .. Len(a) /\ a[i] = y
    BY <1>1, <1>2, <2>1
  <2> QED BY <2>2 DEF RangeOf
<1>5. x \in RangeOf(a)
  BY <1>3 DEF RangeOf
<1> QED BY <1>2, <1>4, <1>5

\* Only the first element is not in the tail.
LEMMA RangeTail ==
    ASSUME NEW T, NEW s \in Seq(T), s # <<>>
    PROVE  \A y \in RangeOf(s) : y = Head(s) \/ y \in RangeOf(Tail(s))
<1> SUFFICES ASSUME NEW y \in RangeOf(s), y # Head(s) PROVE y \in RangeOf(Tail(s))
  OBVIOUS
<1>1. /\ Len(Tail(s)) = Len(s) - 1 /\ Len(s) \in Nat /\ Len(s) >= 1
      /\ \A i \in 1 .. Len(Tail(s)) : Tail(s)[i] = s[i + 1]
  BY HeadTailProperties, LenProperties, EmptySeq
<1>2. PICK i \in 1 .. Len(s) : y = s[i]
  BY DEF RangeOf
<1>3. i # 1
  BY <1>2
<1>4. PICK j : j = i - 1
  OBVIOUS
<1>5. j \in 1 .. Len(Tail(s)) /\ j + 1 = i
  BY <1>1, <1>3, <1>4
<1>6. Tail(s)[j] = s[j + 1]
  BY <1>1, <1>5
<1>7. Tail(s)[j] = y
  BY <1>2, <1>5, <1>6
<1>8. PICK t : t = Tail(s)
  OBVIOUS
<1>9. y \in RangeOf(t)
  BY <1>5, <1>7, <1>8 DEF RangeOf
<1> QED BY <1>8, <1>9

\* A step that loses nothing keeps the bound.
LEMMA LossKept ==
    ASSUME FileInv, LossBounded, exposed' = exposed,
           \A m \in Msgs : m \in Safe => m \in Safe',
           \A m \in acked' : m \in acked \/ m \in Safe'
    PROVE  LossBounded'
<1>1. acked \subseteq Msgs /\ exposed \in Nat
  BY DEF FileInv, TypeInv, TypeOK
<1>2. IsFiniteSet(acked \ Safe)
  <2>1. IsFiniteSet(Msgs)
    BY FS_Interval, MaxMsgAssumption DEF Msgs
  <2>2. acked \ Safe \in SUBSET Msgs
    BY <1>1
  <2> QED BY <2>1, <2>2, FS_Subset
<1>3. (acked' \ Safe') \in SUBSET (acked \ Safe)
  BY <1>1
<1>4. PICK A : A = acked \ Safe
  OBVIOUS
<1>5. PICK B : B = acked' \ Safe'
  OBVIOUS
<1>6. IsFiniteSet(A) /\ B \in SUBSET A /\ Cardinality(A) <= exposed
  BY <1>2, <1>3, <1>4, <1>5 DEF LossBounded
<1>7. IsFiniteSet(B) /\ Cardinality(B) <= Cardinality(A)
  BY ONLY <1>6, FS_Subset
<1>8. Cardinality(A) \in Nat /\ Cardinality(B) \in Nat
  BY <1>6, <1>7, FS_CardinalityType
<1>9. Cardinality(B) <= exposed
  BY <1>1, <1>6, <1>7, <1>8
<1> QED BY <1>5, <1>9 DEF LossBounded

\* A step that loses one message is one of the exposed crashes.
LEMMA LossOne ==
    ASSUME FileInv, LossBounded, exposed' = exposed + 1, acked' = acked, NEW x,
           \A m \in Msgs : m \in Safe /\ m # x => m \in Safe'
    PROVE  LossBounded'
<1>1. acked \subseteq Msgs /\ exposed \in Nat
  BY DEF FileInv, TypeInv, TypeOK
<1>2. IsFiniteSet(acked \ Safe)
  <2>1. IsFiniteSet(Msgs)
    BY FS_Interval, MaxMsgAssumption DEF Msgs
  <2>2. acked \ Safe \in SUBSET Msgs
    BY <1>1
  <2> QED BY <2>1, <2>2, FS_Subset
<1>3. (acked' \ Safe') \in SUBSET ((acked \ Safe) \cup {x})
  BY <1>1
<1>4. PICK A : A = acked \ Safe
  OBVIOUS
<1>5. PICK B : B = acked' \ Safe'
  OBVIOUS
<1>6. PICK C : C = A \cup {x}
  OBVIOUS
<1>7. IsFiniteSet(A) /\ B \in SUBSET C /\ Cardinality(A) <= exposed
  BY <1>2, <1>3, <1>4, <1>5, <1>6 DEF LossBounded
<1>8. IsFiniteSet(C) /\ Cardinality(C) <= Cardinality(A) + 1 /\ Cardinality(A) \in Nat
  <2>1. Cardinality(A) \in Nat
    BY <1>7, FS_CardinalityType
  <2>2. IsFiniteSet(A \cup {x}) /\ (Cardinality(A \cup {x}) = Cardinality(A) \/ Cardinality(A \cup {x}) = Cardinality(A) + 1)
    BY <1>7, FS_AddElement
  <2> QED BY <1>6, <2>1, <2>2
<1>9. IsFiniteSet(B) /\ Cardinality(B) <= Cardinality(C)
  BY ONLY <1>7, <1>8, FS_Subset
<1>10. Cardinality(C) \in Nat /\ Cardinality(B) \in Nat
  BY <1>8, <1>9, FS_CardinalityType
<1>11. Cardinality(B) <= exposed + 1
  BY ONLY <1>1, <1>7, <1>8, <1>9, <1>10
<1> QED BY <1>5, <1>11 DEF LossBounded

\* The message in hand is the one that cur holds.
LEMMA InHandUnique ==
    ASSUME OneFragment, NEW m \in InHand
    PROVE  m \in Msgs /\ pc = "got" /\ cur = Whole(m) /\ m = cur[1].msg
<1>1. m \in Msgs /\ pc = "got" /\ cur = Whole(m)
  BY DEF InHand
<1> QED BY <1>1, WholeFirst

\* Only a crash of a flush outside of a transaction loses a message.
LEMMA LossStep ==
    ASSUME OneFragment, NoShortWrites
    PROVE  FileInv /\ FileInv' /\ DurableInv /\ LossBounded /\ [Next]_vars => LossBounded'
<1> SUFFICES ASSUME FileInv, FileInv', DurableInv, LossBounded, [Next]_vars PROVE LossBounded'
  OBVIOUS
<1>a. DurableQueue \in Seq(Msgs)
  BY DurableQueueType
<1>b. ASSUME UNCHANGED <<data, journal, delivered, acked, exposed>>, pc # "got" PROVE LossBounded'
  <2>1. DurableQueue' = DurableQueue /\ DeliveredMsgs' = DeliveredMsgs /\ InHand = {}
    BY <1>b, SameFiles DEF DeliveredMsgs, RangeOf, InHand
  <2>2. \A m \in Msgs : m \in Safe => m \in Safe'
    BY <2>1 DEF Safe, RangeOf
  <2> QED BY <1>b, <2>2, LossKept
<1>c. CASE prelude_failover_new \/ JournalLoad \/ SetTransaction \/ prelude_failover_get_saved_msg
           \/ ReadRecord \/ ReadFails \/ prelude_failover_commit \/ failover_flush
  <2>1. UNCHANGED <<data, journal, delivered, acked, exposed>> /\ pc # "got"
    BY <1>c DEF prelude_failover_new, JournalLoad, SetTransaction, prelude_failover_get_saved_msg,
                ReadRecord, ReadFails, prelude_failover_commit, failover_flush, disk, hist
  <2> QED BY <1>b, <2>1
<1>1. CASE journal_write
  <2>1. /\ pc = "journal" /\ pc' = (IF ret = "saved" THEN "idle" ELSE ret)
        /\ acked' = (IF ret = "saved" THEN acked \cup {next - 1} ELSE acked)
        /\ UNCHANGED <<cur, delivered, exposed>>
    BY <1>1 DEF journal_write, Return
  <2>2. DeliveredMsgs' = DeliveredMsgs /\ InHand = {}
    BY <2>1 DEF DeliveredMsgs, RangeOf, InHand
  <2>3. /\ ret = "saved" => /\ next - 1 \in Msgs /\ next - 1 \in RangeOf(DurableQueue')
                            /\ \/ DurableQueue' = DurableQueue
                               \/ DurableQueue = <<>> /\ DurableQueue' = Append(<<>>, next - 1)
        /\ ret # "saved" /\ ~ Committed => DurableQueue' = DurableQueue
        /\ ret # "saved" /\ Committed =>
              /\ ret \in {"idle", "got"} /\ DurableQueue # <<>>
              /\ DurableQueue' = Tail(DurableQueue)
              /\ Head(DurableQueue) \in Msgs /\ cur = Whole(Head(DurableQueue))
    BY <1>1, JournalStep
  <2>4. CASE ret = "saved"
    <3>1. next - 1 \in RangeOf(DurableQueue') /\ \A m \in RangeOf(DurableQueue) : m \in RangeOf(DurableQueue')
      <4>1. RangeOf(<<>>) = {}
        BY EmptySeq DEF RangeOf
      <4> QED BY <2>3, <2>4, <4>1
    <3>2. \A m \in Msgs : m \in Safe => m \in Safe'
      BY <2>2, <3>1 DEF Safe, RangeOf
    <3>3. \A m \in acked' : m \in acked \/ m \in Safe'
      BY <2>1, <2>4, <3>1 DEF Safe, RangeOf
    <3> QED BY <2>1, <3>2, <3>3, LossKept
  <2>5. CASE ret # "saved" /\ ~ Committed
    <3>1. \A m \in Msgs : m \in Safe => m \in Safe'
      BY <2>2, <2>3, <2>5 DEF Safe, RangeOf
    <3> QED BY <2>1, <2>5, <3>1, LossKept
  <2>6. CASE ret # "saved" /\ Committed
    <3>1. PICK h \in Msgs : h = Head(DurableQueue) /\ cur = Whole(h)
      BY <2>3, <2>6
    <3>2. h \in DeliveredMsgs \/ h \in InHand'
      <4>1. CASE ret = "got"
        BY <2>1, <3>1, <4>1 DEF InHand
      <4>2. CASE ret = "idle"
        <5>1. transaction
          BY <2>1, <2>6, <4>2 DEF DurableInv, EntryInv, Committed
        <5>2. delivered # <<>> /\ delivered[Len(delivered)] = cur
          BY <2>6, <5>1 DEF Committed, LastDelivered
        <5>3. Len(delivered) \in 1 .. Len(delivered)
          BY <5>2, DurableTypes, EmptySeq
        <5> QED BY <3>1, <5>2, <5>3 DEF DeliveredMsgs, RangeOf
      <4> QED BY <2>3, <2>6, <4>1, <4>2
    <3>3. \A m \in RangeOf(DurableQueue) : m = h \/ m \in RangeOf(DurableQueue')
      BY <1>a, <2>3, <2>6, <3>1, RangeTail
    <3>4. \A m \in Msgs : m \in Safe => m \in Safe'
      BY <2>2, <3>2, <3>3 DEF Safe, RangeOf
    <3> QED BY <2>1, <2>6, <3>4, LossKept
  <2> QED BY <2>4, <2>5, <2>6
<1>2. CASE JournalShort \/ SaveShort
  BY <1>2 DEF JournalShort, SaveShort, NoShortWrites
<1>3. CASE TruncateData \/ TruncateJournal
  <2>1. pc # "got" /\ UNCHANGED <<delivered, acked, exposed>>
    BY <1>3 DEF TruncateData, TruncateJournal, hist
  <2>2. DurableQueue = DurableQueue' /\ DeliveredMsgs' = DeliveredMsgs /\ InHand = {}
    BY <1>3, <2>1, TruncateStep DEF DeliveredMsgs, RangeOf, InHand
  <2>3. \A m \in Msgs : m \in Safe => m \in Safe'
    BY <2>2 DEF Safe, RangeOf
  <2> QED BY <2>1, <2>3, LossKept
<1>4. CASE prelude_failover_save_msg
  <2>1. pc # "got" /\ UNCHANGED <<delivered, acked, exposed>>
    BY <1>4 DEF prelude_failover_save_msg, hist
  <2>2. DeliveredMsgs' = DeliveredMsgs /\ InHand = {}
    BY <2>1 DEF DeliveredMsgs, RangeOf, InHand
  <2>3. \A m \in RangeOf(DurableQueue) : m \in RangeOf(DurableQueue')
    BY <1>4, <1>a, SaveStep, RangeAppend
  <2>4. \A m \in Msgs : m \in Safe => m \in Safe'
    BY <2>2, <2>3 DEF Safe, RangeOf
  <2> QED BY <2>1, <2>4, LossKept
<1>5. CASE Deliver
  <2>1. /\ pc = "got" /\ delivered' = Append(delivered, cur)
        /\ UNCHANGED <<data, journal, acked, exposed>>
    BY <1>5 DEF Deliver, disk
  <2>2. /\ cur \in RangeOf(delivered') /\ \A c \in RangeOf(delivered) : c \in RangeOf(delivered')
    BY <2>1, DurableTypes, RangeAppend
  <2>3. \A m \in DeliveredMsgs \cup InHand : m \in DeliveredMsgs'
    BY <2>2 DEF DeliveredMsgs, InHand, RangeOf
  <2>4. DurableQueue' = DurableQueue
    BY <2>1, SameFiles
  <2>5. \A m \in Msgs : m \in Safe => m \in Safe'
    BY <2>3, <2>4 DEF Safe, RangeOf
  <2> QED BY <2>1, <2>5, LossKept
<1>6. CASE SendFails
  <2>1. pc = "got" /\ UNCHANGED <<delivered, acked, exposed>>
    BY <1>6 DEF SendFails, hist
  <2>2. PICK x \in Msgs : cur = Whole(x) /\ x = cur[1].msg
    BY <2>1, WholeFirst DEF FileInv, IndexInv
  <2>3. DurableQueue' = Append(DurableQueue, x)
    BY <1>6, <2>2, SendFailsStep
  <2>4. x \in RangeOf(DurableQueue') /\ \A m \in RangeOf(DurableQueue) : m \in RangeOf(DurableQueue')
    BY <1>a, <2>3, RangeAppend
  <2>5. \A m \in InHand : m = x
    BY <2>2, InHandUnique
  <2>6. DeliveredMsgs' = DeliveredMsgs
    BY <2>1 DEF DeliveredMsgs, RangeOf
  <2>7. \A m \in Msgs : m \in Safe => m \in Safe'
    BY <2>4, <2>5, <2>6 DEF Safe, RangeOf
  <2> QED BY <2>1, <2>7, LossKept
<1>7. CASE prelude_failover_rollback \/ (Crash /\ pc = "got" /\ transaction)
  <2>1. /\ pc = "got" /\ transaction
        /\ UNCHANGED <<data, journal, delivered, acked, exposed>>
    BY <1>7 DEF prelude_failover_rollback, Crash, disk, hist
  <2>2. PICK x \in Msgs : cur = Whole(x) /\ x \in RangeOf(DurableQueue)
    BY <2>1, BorrowedFirst
  <2>3. \A m \in InHand : m \in RangeOf(DurableQueue)
    <3>1. x = cur[1].msg
      BY <2>2, WholeFirst
    <3> QED BY <2>2, <3>1, InHandUnique
  <2>4. DurableQueue' = DurableQueue /\ DeliveredMsgs' = DeliveredMsgs
    BY <2>1, SameFiles DEF DeliveredMsgs, RangeOf
  <2>5. \A m \in Msgs : m \in Safe => m \in Safe'
    BY <2>3, <2>4 DEF Safe, RangeOf
  <2> QED BY <2>1, <2>5, LossKept
<1>8. CASE Crash /\ pc = "got" /\ ~ transaction
  <2>1. /\ pc = "got" /\ UNCHANGED <<data, journal, delivered, acked>>
        /\ exposed' = exposed + 1
    BY <1>8 DEF Crash, disk, DurableInv, StartInv
  <2>2. PICK x : x = cur[1].msg
    OBVIOUS
  <2>3. \A m \in InHand : m = x
    BY <2>2, InHandUnique
  <2>4. DurableQueue' = DurableQueue /\ DeliveredMsgs' = DeliveredMsgs
    BY <2>1, SameFiles DEF DeliveredMsgs, RangeOf
  <2>5. \A m \in Msgs : m \in Safe /\ m # x => m \in Safe'
    BY <2>3, <2>4 DEF Safe, RangeOf
  <2> QED BY <2>1, <2>5, LossOne
<1>9. CASE Crash /\ pc # "got"
  <2>1. /\ UNCHANGED <<data, journal, delivered, acked>>
        /\ exposed' = exposed \/ exposed' = exposed + 1
    BY <1>9 DEF Crash, disk
  <2>2. DurableQueue' = DurableQueue /\ DeliveredMsgs' = DeliveredMsgs /\ InHand = {}
    BY <1>9, <2>1, SameFiles DEF DeliveredMsgs, RangeOf, InHand
  <2>3. \A m \in Msgs : m \in Safe => m \in Safe'
    BY <2>2 DEF Safe, RangeOf
  <2>4. CASE exposed' = exposed
    BY <2>1, <2>3, <2>4, LossKept
  <2>5. CASE exposed' = exposed + 1
    BY <2>1, <2>3, <2>5, LossOne
  <2> QED BY <2>1, <2>4, <2>5
<1>10. CASE UNCHANGED vars
  <2>1. UNCHANGED <<data, journal, pc, cur, delivered, acked, exposed>>
    BY <1>10 DEF vars, disk, call, hist
  <2>2. DurableQueue' = DurableQueue /\ DeliveredMsgs' = DeliveredMsgs /\ InHand' = InHand
    BY <2>1, SameFiles DEF DeliveredMsgs, RangeOf, InHand
  <2>3. \A m \in Msgs : m \in Safe => m \in Safe'
    BY <2>2 DEF Safe, RangeOf
  <2> QED BY <2>1, <2>3, LossKept
<1> QED BY <1>c, <1>1, <1>2, <1>3, <1>4, <1>5, <1>6, <1>7, <1>8, <1>9, <1>10 DEF Next, Step

\* What save_msg accepted is delivered, in the hands of the caller or found
\* again by a restart, but for one message at most per crash of a flush
\* outside of a transaction: for every number of messages and crashes.
THEOREM AlwaysLossBounded ==
    ASSUME OneFragment, NoShortWrites
    PROVE  Spec => []LossBounded
<1>1. Init => FileInv /\ DurableInv /\ LossBounded
  <2> SUFFICES ASSUME Init PROVE LossBounded
    BY FileInit, DurableInit
  <2>1. acked \ Safe = {} /\ exposed = 0
    BY DEF Init
  <2> QED BY <2>1, FS_EmptySet DEF LossBounded
<1>2. FileInv /\ DurableInv /\ LossBounded /\ [Next]_vars => FileInv' /\ DurableInv' /\ LossBounded'
  BY FileStep, DurableStep, LossStep
<1> QED BY <1>1, <1>2, PTL DEF Spec

-----------------------------------------------------------------------------
(* The failover implements the queue of FailoverQueue. *)

\* The message in hand and the messages delivered, as FailoverQueue sees them.
Held == IF pc = "got" THEN cur[1].msg ELSE NoMsg
Ids  == [i \in 1 .. Len(delivered) |-> delivered[i][1].msg]

\* A message in hand is a message.
LEMMA HeldFacts ==
    ASSUME OneFragment, FileInv
    PROVE  /\ pc # "got" => Held = NoMsg
           /\ pc = "got" => Held = cur[1].msg /\ Held \in Msgs /\ Held # NoMsg /\ cur = Whole(Held)
<1>1. CASE pc = "got"
  <2>1. PICK m \in Msgs : cur = Whole(m)
    BY <1>1 DEF FileInv, IndexInv
  <2>2. cur[1].msg = m
    BY <2>1, WholeFirst
  <2> QED BY <1>1, <2>1, <2>2, NoMsgAssumption DEF Held
<1>2. CASE pc # "got"
  BY <1>2 DEF Held
<1> QED BY <1>1, <1>2

\* The messages delivered are messages.
LEMMA IdsFacts ==
    ASSUME OneFragment, FileInv
    PROVE  /\ Ids \in Seq(Msgs) /\ Len(Ids) = Len(delivered)
           /\ \A i \in 1 .. Len(delivered) : Ids[i] = delivered[i][1].msg
<1>1. PICK n \in Nat : n = Len(delivered)
  BY DurableTypes
<1>2. ASSUME NEW i \in 1 .. n PROVE delivered[i][1].msg \in Msgs
  <2>1. PICK m \in Msgs : delivered[i] = Whole(m)
    BY <1>1 DEF FileInv, DeliveredWhole
  <2> QED BY <2>1, WholeFirst
<1>3. PICK q : q = [i \in 1 .. n |-> delivered[i][1].msg]
  OBVIOUS
<1>4. q \in [1 .. n -> Msgs] /\ \A i \in 1 .. n : q[i] = delivered[i][1].msg
  BY ONLY <1>2, <1>3
<1>5. q \in Seq(Msgs) /\ Len(q) = n
  BY ONLY <1>4, n \in Nat
<1>6. q = Ids
  BY <1>1, <1>3 DEF Ids
<1> QED BY <1>1, <1>4, <1>5, <1>6

\* The initial state is one of the queue's.
LEMMA RefinesInit ==
    ASSUME OneFragment
    PROVE  Init => Queue!Init
<1> SUFFICES ASSUME Init PROVE Queue!Init
  OBVIOUS
<1>1. FileInv /\ DurableView
  BY FileInit, DurableFacts
<1>2. DurableQueue = <<>>
  BY <1>1 DEF DurableView, Init
<1>3. Held = NoMsg
  BY DEF Init, Held
<1>4. Ids = <<>>
  <2>1. Ids \in Seq(Msgs) /\ Len(Ids) = 0
    BY <1>1, IdsFacts, EmptySeq DEF Init
  <2> QED BY <2>1, EmptySeq
<1>5. transaction = FALSE
  BY DEF Init
<1> QED BY <1>2, <1>3, <1>4, <1>5 DEF Queue!Init, Held, Ids

\* Every step is a step of the queue, or leaves it as it is.
LEMMA RefinesStep ==
    ASSUME OneFragment, NoShortWrites
    PROVE  FileInv /\ FileInv' /\ DurableInv /\ [Next]_vars => [Queue!Next]_(Queue!vars)
<1> SUFFICES ASSUME FileInv, FileInv', DurableInv, [Next]_vars PROVE [Queue!Next]_(Queue!vars)
  OBVIOUS
<1>a. /\ pc # "got" => Held = NoMsg
      /\ pc = "got" => Held = cur[1].msg /\ Held \in Msgs /\ Held # NoMsg /\ cur = Whole(Held)
  BY HeldFacts
<1>b. pc' # "got" => Held' = NoMsg
  BY DEF Held
<1>c. DurableQueue \in Seq(Msgs) /\ transaction \in BOOLEAN
  BY DurableQueueType, DurableTypes
<1>d. delivered' = delivered => Ids' = Ids
  BY DEF Ids
<1>s. ASSUME UNCHANGED <<DurableQueue, Held, Ids, transaction>> PROVE [Queue!Next]_(Queue!vars)
  BY <1>s DEF Queue!vars, Held, Ids
<1>f. ASSUME UNCHANGED <<data, journal, delivered, transaction>>, pc # "got", pc' # "got"
      PROVE  [Queue!Next]_(Queue!vars)
  BY <1>a, <1>b, <1>d, <1>f, <1>s, SameFiles
<1>1. CASE JournalLoad \/ prelude_failover_get_saved_msg \/ ReadFails
           \/ prelude_failover_commit \/ failover_flush
  <2>1. UNCHANGED <<data, journal, delivered, transaction>> /\ pc # "got" /\ pc' # "got"
    BY <1>1 DEF JournalLoad, prelude_failover_get_saved_msg, ReadFails, prelude_failover_commit,
                failover_flush, disk, handle, call, hist
  <2> QED BY <1>f, <2>1
<1>2. CASE prelude_failover_new \/ SetTransaction
  <2>1. UNCHANGED <<data, journal, delivered>> /\ pc # "got" /\ pc' # "got" /\ transaction' \in BOOLEAN
    <3>1. CASE prelude_failover_new
      BY <3>1 DEF prelude_failover_new, disk, hist
    <3>2. CASE SetTransaction
      BY <3>2, ModesAssumption DEF SetTransaction, disk, call, hist
    <3> QED BY <1>2, <3>1, <3>2
  <2>2. /\ DurableQueue' = DurableQueue /\ Ids' = Ids /\ Held = NoMsg /\ Held' = NoMsg
        /\ transaction' \in BOOLEAN
    BY <1>a, <1>b, <1>d, <2>1, SameFiles
  <2>3. Queue!SetTransaction
    BY <2>2 DEF Queue!SetTransaction, Held, Ids
  <2> QED BY <2>3 DEF Queue!Next
<1>3. CASE journal_write
  <2>1. /\ pc = "journal" /\ pc' = (IF ret = "saved" THEN "idle" ELSE ret)
        /\ UNCHANGED <<cur, delivered, transaction>>
    BY <1>3 DEF journal_write, Return
  <2>2. /\ ret = "saved" => /\ next - 1 \in Msgs
                            /\ \/ DurableQueue' = DurableQueue
                               \/ DurableQueue = <<>> /\ DurableQueue' = Append(<<>>, next - 1)
        /\ ret # "saved" /\ ~ Committed => DurableQueue' = DurableQueue
        /\ ret # "saved" /\ Committed =>
              /\ ret \in {"idle", "got"} /\ DurableQueue # <<>>
              /\ DurableQueue' = Tail(DurableQueue)
              /\ Head(DurableQueue) \in Msgs /\ cur = Whole(Head(DurableQueue))
    BY <1>3, JournalStep
  <2>3. Held = NoMsg /\ Ids' = Ids /\ transaction' = transaction
    BY <1>a, <1>d, <2>1
  <2>4. CASE ret = "saved"
    <3>1. Held' = NoMsg
      BY <1>b, <2>1, <2>4
    <3>2. CASE DurableQueue' = DurableQueue
      BY <1>s, <2>3, <3>1, <3>2
    <3>3. CASE DurableQueue = <<>> /\ DurableQueue' = Append(<<>>, next - 1)
      <4>1. next - 1 \in Msgs
        BY <2>2, <2>4
      <4>2. DurableQueue' = Append(DurableQueue, next - 1) /\ Held' = Held /\ Ids' = Ids
        BY <2>3, <3>1, <3>3
      <4>3. Queue!Save(next - 1)
        BY <2>3, <4>2 DEF Queue!Save, Held, Ids
      <4> QED BY <4>1, <4>3 DEF Queue!Next
    <3> QED BY <2>2, <2>4, <3>2, <3>3
  <2>5. CASE ret # "saved" /\ ~ Committed
    <3>1. pc' # "got"
      BY <2>1, <2>5 DEF DurableInv, EntryInv
    <3> QED BY <1>b, <1>s, <2>2, <2>3, <2>5, <3>1
  <2>6. CASE ret = "got" /\ Committed
    <3>1. pc' = "got" /\ ~ transaction
      BY <2>1, <2>6 DEF DurableInv, EntryInv
    <3>2. cur[1].msg = Head(DurableQueue)
      BY <2>2, <2>6, WholeFirst
    <3>3. Held' = Head(DurableQueue)
      BY <2>1, <3>1, <3>2 DEF Held
    <3>4. Queue!Take
      BY <2>2, <2>3, <2>6, <3>1, <3>3 DEF Queue!Take, Held, Ids
    <3> QED BY <3>4 DEF Queue!Next
  <2>7. CASE ret = "idle" /\ Committed
    <3>1. pc' = "idle" /\ transaction
      BY <2>1, <2>7 DEF DurableInv, EntryInv, Committed
    <3>2. delivered # <<>> /\ delivered[Len(delivered)] = cur
      BY <2>7, <3>1 DEF Committed, LastDelivered
    <3>3. Ids \in Seq(Msgs) /\ Len(Ids) = Len(delivered) /\ Len(delivered) \in 1 .. Len(delivered)
      BY <3>2, IdsFacts, DurableTypes, EmptySeq
    <3>4. Ids[Len(Ids)] = Head(DurableQueue)
      <4>1. Ids[Len(Ids)] = delivered[Len(delivered)][1].msg
        BY <3>3, IdsFacts
      <4>2. cur[1].msg = Head(DurableQueue)
        BY <2>2, <2>7, WholeFirst
      <4> QED BY <3>2, <4>1, <4>2
    <3>5. Ids # <<>>
      BY <3>3, EmptySeq, DurableTypes
    <3>6. Held' = NoMsg
      BY <1>b, <3>1
    <3>7. Queue!Commit
      BY <2>2, <2>3, <2>7, <3>1, <3>4, <3>5, <3>6 DEF Queue!Commit, Held, Ids
    <3> QED BY <3>7 DEF Queue!Next
  <2> QED BY <2>2, <2>4, <2>5, <2>6, <2>7
<1>4. CASE JournalShort \/ SaveShort
  BY <1>4 DEF JournalShort, SaveShort, NoShortWrites
<1>5. CASE TruncateData \/ TruncateJournal
  <2>1. pc # "got" /\ pc' # "got" /\ UNCHANGED <<delivered, transaction>>
    BY <1>5 DEF TruncateData, TruncateJournal, handle, hist
  <2>2. DurableQueue' = DurableQueue
    BY <1>5, TruncateStep
  <2> QED BY <1>a, <1>b, <1>d, <1>s, <2>1, <2>2
<1>6. CASE prelude_failover_save_msg
  <2>1. pc # "got" /\ pc' # "got" /\ UNCHANGED <<delivered, transaction>>
    BY <1>6 DEF prelude_failover_save_msg, hist
  <2>2. Held = NoMsg /\ Held' = Held /\ Ids' = Ids /\ transaction' = transaction
    BY <1>a, <1>b, <1>d, <2>1
  <2>3. /\ next \in Msgs
        /\ journal # <<>> => DurableQueue' = Append(DurableQueue, next)
        /\ journal = <<>> => DurableQueue' = DurableQueue
    BY <1>6, SaveStep
  <2>4. CASE journal # <<>>
    <3>1. Queue!Save(next)
      BY <2>2, <2>3, <2>4 DEF Queue!Save, Held, Ids
    <3> QED BY <2>3, <3>1 DEF Queue!Next
  <2>5. CASE journal = <<>>
    BY <1>s, <2>2, <2>3, <2>5
  <2> QED BY <2>4, <2>5
<1>7. CASE ReadRecord
  <2>1. pc # "got" /\ UNCHANGED <<data, journal, delivered, transaction>>
    BY <1>7 DEF ReadRecord, disk, hist
  <2>2. /\ pc' = (IF transaction THEN "got" ELSE "commit")
        /\ DurableQueue # <<>> /\ Head(DurableQueue) \in Msgs /\ cur' = Whole(Head(DurableQueue))
    BY <1>7, ReadStep
  <2>3. CASE transaction
    <3>1. Held' = Head(DurableQueue)
      <4>1. cur'[1].msg = Head(DurableQueue)
        BY <2>2, WholeFirst
      <4> QED BY <2>2, <2>3, <4>1 DEF Held
    <3>2. DurableQueue' = DurableQueue /\ Ids' = Ids /\ Held = NoMsg /\ transaction' = transaction
      BY <1>a, <1>d, <2>1, SameFiles
    <3>3. Queue!Borrow
      BY <2>2, <2>3, <3>1, <3>2 DEF Queue!Borrow, Held, Ids
    <3> QED BY <3>3 DEF Queue!Next
  <2>4. CASE ~ transaction
    BY <1>f, <2>1, <2>2, <2>4
  <2> QED BY <2>3, <2>4
<1>8. CASE Deliver
  <2>1. /\ pc = "got" /\ pc' # "got" /\ delivered' = Append(delivered, cur)
        /\ UNCHANGED <<data, journal, transaction>>
    BY <1>8, <1>c DEF Deliver, disk, handle
  <2>2. /\ DurableQueue' = DurableQueue /\ Held # NoMsg /\ Held' = NoMsg
        /\ transaction' = transaction
    BY <1>a, <1>b, <2>1, SameFiles
  <2>3. Ids' = Append(Ids, Held)
    <3>1. /\ Ids \in Seq(Msgs) /\ Len(Ids) = Len(delivered) /\ Len(delivered) \in Nat
          /\ \A i \in 1 .. Len(delivered) : Ids[i] = delivered[i][1].msg
      BY IdsFacts, DurableTypes
    <3>2. /\ Len(delivered') = Len(delivered) + 1
          /\ \A i \in 1 .. Len(delivered) : delivered'[i] = delivered[i]
          /\ delivered'[Len(delivered) + 1] = cur
      BY <2>1, DurableTypes, AppendProperties
    <3>3. PICK n \in Nat : n = Len(delivered)
      BY <3>1
    <3>4. PICK a : a = Append(Ids, Held)
      OBVIOUS
    <3>5. /\ a \in Seq(Msgs) /\ Len(a) = n + 1 /\ a[n + 1] = Held
          /\ \A i \in 1 .. n : a[i] = Ids[i]
      BY <1>a, <2>1, <3>1, <3>3, <3>4, AppendProperties
    <3>6. \A i \in 1 .. n + 1 : a[i] = delivered'[i][1].msg
      <4> SUFFICES ASSUME NEW i \in 1 .. n + 1 PROVE a[i] = delivered'[i][1].msg
        OBVIOUS
      <4>1. CASE i \in 1 .. n
        BY <3>1, <3>2, <3>3, <3>5, <4>1
      <4>2. CASE i = n + 1
        BY <1>a, <2>1, <3>2, <3>3, <3>5, <4>2
      <4> QED BY <4>1, <4>2
    <3>7. PICK b : b = [i \in 1 .. n + 1 |-> delivered'[i][1].msg]
      OBVIOUS
    <3>8. b = Ids'
      BY <3>2, <3>3, <3>7 DEF Ids
    <3>9. b \in Seq(Msgs) /\ Len(b) = n + 1 /\ \A i \in 1 .. n + 1 : b[i] = a[i]
      <4>1. \A i \in 1 .. n + 1 : b[i] = a[i]
        BY ONLY <3>6, <3>7
      <4>2. \A i \in 1 .. n + 1 : a[i] \in Msgs
        BY <3>5, ElementOfSeq
      <4>3. b \in [1 .. n + 1 -> Msgs]
        BY ONLY <3>7, <4>1, <4>2
      <4>4. b \in Seq(Msgs) /\ Len(b) = n + 1
        BY ONLY <4>3, n \in Nat
      <4> QED BY <4>1, <4>4
    <3>10. b = a
      BY <3>5, <3>9, SeqEqual
    <3> QED BY <3>4, <3>8, <3>10
  <2>4. Queue!Deliver
    BY <2>2, <2>3 DEF Queue!Deliver, Held, Ids
  <2> QED BY <2>4 DEF Queue!Next
<1>9. CASE SendFails
  <2>1. pc = "got" /\ ~ transaction /\ pc' # "got" /\ UNCHANGED <<delivered, transaction>>
    BY <1>9 DEF SendFails, hist
  <2>2. /\ Held = cur[1].msg /\ Held # NoMsg /\ Held' = NoMsg /\ Ids' = Ids
        /\ ~ transaction /\ transaction' = transaction
    BY <1>a, <1>b, <1>d, <2>1
  <2>3. DurableQueue' = Append(DurableQueue, Held)
    BY <1>9, <2>2, SendFailsStep
  <2>4. Queue!SaveAgain
    BY <2>2, <2>3 DEF Queue!SaveAgain, Held, Ids
  <2> QED BY <2>4 DEF Queue!Next
<1>10. CASE prelude_failover_rollback
  <2>1. pc = "got" /\ transaction /\ pc' # "got" /\ UNCHANGED <<data, journal, delivered, transaction>>
    BY <1>10 DEF prelude_failover_rollback, disk, hist
  <2>2. /\ Held # NoMsg /\ Held' = NoMsg /\ Ids' = Ids /\ DurableQueue' = DurableQueue
        /\ transaction /\ transaction' = transaction
    BY <1>a, <1>b, <1>d, <2>1, SameFiles
  <2>3. Queue!GiveBack
    BY <2>2 DEF Queue!GiveBack, Held, Ids
  <2> QED BY <2>3 DEF Queue!Next
<1>11. CASE Crash
  <2>1. pc' # "got" /\ transaction' = FALSE /\ UNCHANGED <<data, journal, delivered>>
    BY <1>11 DEF Crash, disk
  <2>2. Held' = NoMsg /\ Ids' = Ids /\ DurableQueue' = DurableQueue /\ transaction' = FALSE
    BY <1>b, <1>d, <2>1, SameFiles
  <2>3. Queue!Die
    BY <2>2 DEF Queue!Die, Held, Ids
  <2> QED BY <2>3 DEF Queue!Next
<1>12. CASE UNCHANGED vars
  <2>1. UNCHANGED <<data, journal, delivered, transaction, pc, cur>>
    BY <1>12 DEF vars, disk, handle, call, hist
  <2>2. Held' = Held
    BY <2>1 DEF Held
  <2> QED BY <1>d, <1>s, <2>1, <2>2, SameFiles
<1> QED BY <1>1, <1>2, <1>3, <1>4, <1>5, <1>6, <1>7, <1>8, <1>9, <1>10, <1>11, <1>12 DEF Next, Step

\* The failover implements the FIFO queue of FailoverQueue, across any number
\* of crashes: what a restart would find is the queue, messages enter at the
\* end and leave from the front, once, and a transaction keeps the message
\* until it is committed.
THEOREM RefinesQueue ==
    ASSUME OneFragment, NoShortWrites
    PROVE  Spec => ImplementsQueue
<1>1. Init => FileInv /\ DurableInv /\ Queue!Init
  BY FileInit, DurableInit, RefinesInit
<1>2. FileInv /\ DurableInv /\ [Next]_vars => FileInv' /\ DurableInv' /\ [Queue!Next]_(Queue!vars)
  BY FileStep, DurableStep, RefinesStep
<1> QED BY <1>1, <1>2, PTL DEF Spec, ImplementsQueue, Queue!Spec

=============================================================================
