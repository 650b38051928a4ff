------------------------------ MODULE LogProofs ------------------------------
(***************************************************************************)
(* Theorems about the write-ahead log, for every set of payloads and every *)
(* number of appends, crashes, failing writes and power losses, and about  *)
(* the storage engine's use of it, for any number of client threads, keys  *)
(* and writes, with compactions, failures, crashes and restarts.           *)
(*                                                                         *)
(* The invariant of the log says how the LSN counter and the record left   *)
(* in the stream's buffer stand above everything a scan of the file meets: *)
(* ScannedIncreasing alone is not inductive, since nothing in it speaks of the *)
(* number the next Append will use.                                        *)
(***************************************************************************)
EXTENDS StorageEngine, SequenceTheorems, WellFoundedInduction, TLAPS

\* The records that the scan of Open meets, which include all that ReadAll
\* returns, carry increasing LSNs.
ScannedIncreasing ==
  \A i, j \in Scanned(wal_file) : i < j => wal_file[i].lsn < wal_file[j].lsn

\* An open log hands out LSNs above every record that a scan meets.
NextAboveScanned ==
  write_file # "closed"
    => \A i \in Scanned(wal_file) : wal_file[i].lsn < next_sequence_number

\* A record still in the buffer of a failed stream carries an LSN above
\* every scanned one, so that flushing it late keeps the order.
BufferedAboveScanned ==
  \A u \in DOMAIN unflushed :
    /\ write_file = "bad"
    /\ unflushed[u].crc = "match"
    /\ unflushed[u].lsn < next_sequence_number
    /\ \A i \in Scanned(wal_file) : wal_file[i].lsn < unflushed[u].lsn

\* Without failing writes and power losses every acknowledged entry is in
\* the file, and the buffer is empty.
AckedOnFile ==
  (faults = 0 /\ power_losses = 0)
    => /\ unflushed = <<>>
       /\ \A a \in DOMAIN acked : \E i \in DOMAIN wal_file : wal_file[i] = acked[a]

\* The inductive invariant of the log.
WALInv ==
  /\ WALTypeOK
  /\ ScannedIncreasing
  /\ NextAboveScanned
  /\ BufferedAboveScanned
  /\ AckedOnFile
----------------------------------------------------------------------------
(* Greatest elements.                                                      *)

\* A nonempty set of naturals has a least element.
LEMMA LeastNat ==
  ASSUME NEW S \in SUBSET Nat, S # {}
  PROVE  \E m \in S : \A y \in S : m <= y
<1>1. IsWellFoundedOn(OpToRel(<, Nat), Nat)
  BY NatLessThanWellFounded, Zenon
<1>2. PICK x \in S : \A y \in S : ~ (<<y, x>> \in OpToRel(<, Nat))
  BY <1>1, WFMin, Zenon
<1>3. \A y \in S : ~ (y < x)
  BY <1>2, Zenon DEF OpToRel
<1> QED
  BY <1>3

\* A nonempty bounded set of naturals has a greatest element, and Max is it.
LEMMA MaxOfBounded ==
  ASSUME NEW S \in SUBSET Nat, S # {}, NEW b \in Nat, \A x \in S : x <= b
  PROVE  Max(S) \in S /\ \A y \in S : y <= Max(S)
<1> DEFINE T == {b - x : x \in S}
<1>1. \A x \in S : b - x \in Nat
  OBVIOUS
<1>2. T \in SUBSET Nat /\ T # {}
  BY <1>1, Zenon
<1>3. PICK m \in T : \A y \in T : m <= y
  BY <1>2, LeastNat, Zenon
<1>4. PICK x \in S : m = b - x
  BY ZenonT(30)
<1>5. \A y \in S : x >= y
  <2> TAKE y \in S
  <2>1. m <= b - y
    BY <1>3, Zenon
  <2> QED
    BY <2>1, <1>4
<1> QED
  BY <1>5, Zenon DEF Max

----------------------------------------------------------------------------
(* What is readable after a step.                                          *)

\* Appending a record leaves the readable positions alone and adds at most
\* the new one, which must be valid.
LEMMA ScannedAppend ==
  ASSUME NEW file \in Seq(WALRecord), NEW r \in WALRecord,
         NEW new, new = Append(file, r)
  PROVE  /\ Scanned(file) \subseteq Scanned(new)
         /\ \A i \in Scanned(file) : new[i] = file[i]
         /\ \A i \in Scanned(new) :
              i \in Scanned(file) \/ (i > Len(file) /\ r.crc = "match")
<1>1. /\ Len(new) = Len(file) + 1
      /\ DOMAIN new = 1 .. Len(file) + 1
      /\ DOMAIN file = 1 .. Len(file)
      /\ Len(file) \in Nat
      /\ \A i \in 1 .. Len(file) : new[i] = file[i]
      /\ new[Len(file) + 1] = r
  OBVIOUS
<1>2. \A i \in DOMAIN file : \A j \in 1 .. i : new[j] = file[j]
  BY <1>1
<1>3. Scanned(file) \subseteq Scanned(new)
  BY <1>1, <1>2 DEF Scanned
<1>4. \A i \in Scanned(new) : i \in DOMAIN file => i \in Scanned(file)
  BY <1>1, <1>2, Zenon DEF Scanned
<1>5. \A i \in Scanned(new) : i \notin DOMAIN file => i = Len(file) + 1 /\ new[i].crc = "match"
  BY <1>1 DEF Scanned
<1>6. \A i \in Scanned(file) : new[i] = file[i]
  BY <1>1, ZenonT(30) DEF Scanned
<1> QED
  BY <1>1, <1>3, <1>4, <1>5, <1>6

\* Every LSN the scan of Open meets lies below the number it starts from.
LEMMA NextSeqAbove ==
  ASSUME NEW file \in Seq(WALRecord),
         \A i, j \in Scanned(file) : i < j => file[i].lsn < file[j].lsn
  PROVE  /\ NextSeq(file) \in Nat \ {0}
         /\ \A i \in Scanned(file) : file[i].lsn < NextSeq(file)
<1> DEFINE L == {0} \cup {file[i].lsn : i \in Scanned(file)}
<1>1. Scanned(file) \subseteq 1 .. Len(file) /\ Len(file) \in Nat
  BY DEF Scanned
<1>2. \A i \in Scanned(file) : file[i].lsn \in Nat
  <2>1. \A i \in 1 .. Len(file) : file[i] \in WALRecord
    OBVIOUS
  <2>2. \A r \in WALRecord : r.lsn \in Nat
    BY Zenon DEF WALRecord
  <2> QED
    BY <1>1, <2>1, <2>2, Zenon
<1>3. \E b \in Nat : \A x \in L : x <= b
  <2>1. CASE Scanned(file) = {}
    BY <2>1
  <2>2. CASE Scanned(file) # {}
    <3>1. Scanned(file) \in SUBSET Nat
      BY <1>1
    <3>2. \A x \in Scanned(file) : x <= Len(file)
      BY <1>1
    <3> DEFINE m == Max(Scanned(file))
    <3>3. m \in Scanned(file) /\ \A y \in Scanned(file) : y <= m
      BY <1>1, <2>2, <3>1, <3>2, MaxOfBounded, Zenon
    <3> HIDE DEF m
    <3>4. \A i \in Scanned(file) : file[i].lsn <= file[m].lsn
      BY <1>1, <1>2, <3>3
    <3>5. file[m].lsn \in Nat
      BY <1>2, <3>3, ZenonT(30)
    <3>6. \A x \in L : x <= file[m].lsn
      BY <3>4, <3>5
    <3> QED
      BY <3>5, <3>6, Zenon
  <2> QED
    BY <2>1, <2>2, Zenon
<1>4. L \in SUBSET Nat /\ L # {}
  BY <1>2
<1> DEFINE M == Max(L)
<1>5. M \in L /\ \A y \in L : y <= M
  BY <1>3, <1>4, MaxOfBounded, Zenon
<1>6. NextSeq(file) = 1 + M
  BY ZenonT(30) DEF NextSeq
<1>7. \A i \in Scanned(file) : file[i].lsn \in L
  BY ZenonT(30)
<1> HIDE DEF M, L
<1> QED
  BY <1>2, <1>4, <1>5, <1>6, <1>7

\* A prefix of the file reads as a prefix of what the file reads.
LEMMA ScannedSubSeq ==
  ASSUME NEW file \in Seq(WALRecord), NEW n \in 0 .. Len(file),
         NEW new, new = SubSeq(file, 1, n)
  PROVE  /\ new \in Seq(WALRecord)
         /\ \A i \in Scanned(new) : i \in Scanned(file) /\ new[i] = file[i]
<1>1. /\ new \in Seq(WALRecord)
      /\ DOMAIN new = 1 .. n
      /\ \A i \in 1 .. n : new[i] = file[i]
      /\ DOMAIN file = 1 .. Len(file)
      /\ Len(file) \in Nat
  OBVIOUS
<1>2. \A i \in DOMAIN new : \A j \in 1 .. i : new[j] = file[j]
  BY <1>1
<1> QED
  BY <1>1, <1>2 DEF Scanned

----------------------------------------------------------------------------
(* How one step may change the file.                                       *)

\* The file keeps its records and gains at most one, which is torn or
\* carries an LSN above every readable one.
Extends(file, new) ==
  \/ new = file
  \/ \E r \in WALRecord :
       /\ new = Append(file, r)
       /\ (r.crc = "match") => \A i \in Scanned(file) : file[i].lsn < r.lsn

\* Such a change keeps the order of the LSNs and every readable entry.
LEMMA ExtendsKeeps ==
  ASSUME NEW file \in Seq(WALRecord), NEW new, Extends(file, new),
         \A i, j \in Scanned(file) : i < j => file[i].lsn < file[j].lsn
  PROVE  /\ new \in Seq(WALRecord)
         /\ \A i, j \in Scanned(new) : i < j => new[i].lsn < new[j].lsn
         /\ Scanned(file) \subseteq Scanned(new)
         /\ \A i \in Scanned(file) : new[i] = file[i]
<1>1. CASE new = file
  BY <1>1, ZenonT(30)
<1>2. ASSUME NEW r \in WALRecord, new = Append(file, r),
             (r.crc = "match") => \A i \in Scanned(file) : file[i].lsn < r.lsn
      PROVE  /\ new \in Seq(WALRecord)
             /\ \A i, j \in Scanned(new) : i < j => new[i].lsn < new[j].lsn
             /\ Scanned(file) \subseteq Scanned(new)
             /\ \A i \in Scanned(file) : new[i] = file[i]
  <2>1. new \in Seq(WALRecord)
    BY <1>2
  <2>2. /\ Scanned(file) \subseteq Scanned(new)
        /\ \A i \in Scanned(file) : new[i] = file[i]
        /\ \A i \in Scanned(new) :
             i \in Scanned(file) \/ (i > Len(file) /\ r.crc = "match")
    BY <1>2, ScannedAppend, Zenon
  <2>3. Scanned(file) \subseteq 1 .. Len(file) /\ Len(file) \in Nat
    BY DEF Scanned
  <2>4. ASSUME NEW i \in Scanned(new), NEW j \in Scanned(new), i < j
        PROVE  new[i].lsn < new[j].lsn
    <3>0. i \in 1 .. Len(file) + 1 /\ j \in 1 .. Len(file) + 1
      BY <1>2 DEF Scanned
    <3>1. i \in Scanned(file)
      BY <2>2, <2>3, <2>4, <3>0
    <3>2. CASE j \in Scanned(file)
      BY <2>2, <2>4, <3>1, <3>2, Zenon
    <3>3. CASE j > Len(file) /\ r.crc = "match"
      <4>1. new[j] = r
        BY <1>2, <2>3, <3>0, <3>3
      <4> QED
        BY <1>2, <2>2, <3>1, <3>3, <4>1, Zenon
    <3> QED
      BY <2>2, <3>2, <3>3, ZenonT(30)
  <2> QED
    BY <2>1, <2>2, <2>4, ZenonT(30)
<1> QED
  BY <1>1, <1>2, ZenonT(30) DEF Extends

\* A partly written record extends the file by nothing or by a torn record.
LEMMA PartlyWrittenExtends ==
  ASSUME wal_file \in Seq(WALRecord), NEW r \in WALRecord,
         NEW new \in PartlyWritten(r)
  PROVE  Extends(wal_file, new)
<1>1. Torn(r) \in WALRecord /\ Torn(r).crc # "match"
  BY Zenon DEF Torn, WALRecord
<1> QED
  BY <1>1, Zenon DEF PartlyWritten, Extends

\* The record Append stamps lies above everything readable.
LEMMA StampedExtends ==
  ASSUME WALInv, write_file # "closed", NEW p \in WALPayload
  PROVE  /\ Stamped(p) \in WALRecord
         /\ Stamped(p).crc = "match"
         /\ Stamped(p).lsn = next_sequence_number
         /\ Extends(wal_file, Append(wal_file, Stamped(p)))
<1>1. /\ Stamped(p) \in WALRecord
      /\ Stamped(p).crc = "match"
      /\ Stamped(p).lsn = next_sequence_number
  BY Zenon DEF WALInv, WALTypeOK, Stamped, WALRecord
<1> QED
  BY <1>1, Zenon DEF WALInv, NextAboveScanned, Extends

\* The stream's buffer holds at most one record.
LEMMA UnflushedShape ==
  ASSUME WALInv
  PROVE  unflushed = <<>> \/ \E r \in WALRecord : unflushed = <<r>>
<1> SUFFICES ASSUME unflushed # <<>>
             PROVE  \E r \in WALRecord : unflushed = <<r>>
  BY Zenon
<1>1. unflushed \in Seq(WALRecord) /\ Len(unflushed) <= 1
  BY Zenon DEF WALInv, WALTypeOK
<1>2. Len(unflushed) = 1
  <2> DEFINE n == Len(unflushed)
  <2>1. n \in Nat \ {0}
    BY <1>1, EmptySeq, Zenon
  <2>2. n <= 1
    BY <1>1, Zenon
  <2> HIDE DEF n
  <2>3. n = 1
    BY <2>1, <2>2
  <2> QED
    BY <2>3, Zenon DEF n
<1>3. unflushed[1] \in WALRecord
  BY <1>1, <1>2
<1>4. unflushed = <<unflushed[1]>>
  BY <1>1, <1>2, <1>3, SeqEqual
<1> QED
  BY <1>3, <1>4, Zenon

\* Flushing the record left in the buffer extends the file.
LEMMA UnflushedExtends ==
  ASSUME WALInv
  PROVE  Extends(wal_file, wal_file \o unflushed)
<1>1. CASE unflushed = <<>>
  <2>1. wal_file \o unflushed = wal_file
    BY <1>1 DEF WALInv, WALTypeOK
  <2> QED
    BY <2>1, ZenonT(30) DEF Extends
<1>2. ASSUME NEW r \in WALRecord, unflushed = <<r>>
      PROVE  Extends(wal_file, wal_file \o unflushed)
  <2>1. wal_file \o unflushed = Append(wal_file, r)
    BY <1>2, AppendIsConcat, Zenon DEF WALInv, WALTypeOK
  <2>2. 1 \in DOMAIN unflushed /\ unflushed[1] = r
    BY <1>2
  <2> QED
    BY <2>1, <2>2, ZenonT(30) DEF WALInv, BufferedAboveScanned, Extends
<1> QED
  BY <1>1, <1>2, UnflushedShape, ZenonT(30)
----------------------------------------------------------------------------
(* The invariant is preserved: one step per action of the log.             *)

\* The parts of the invariant that follow from an extension of the file.
LEMMA ExtendedOrder ==
  ASSUME WALInv, Extends(wal_file, wal_file')
  PROVE  /\ wal_file' \in Seq(WALRecord)
         /\ ScannedIncreasing'
         /\ Scanned(wal_file) \subseteq Scanned(wal_file')
         /\ \A i \in Scanned(wal_file) : wal_file'[i] = wal_file[i]
<1>1. wal_file \in Seq(WALRecord) /\ ScannedIncreasing
  BY ZenonT(30) DEF WALInv, WALTypeOK
<1>2. /\ wal_file' \in Seq(WALRecord)
      /\ \A i, j \in Scanned(wal_file') : i < j => wal_file'[i].lsn < wal_file'[j].lsn
      /\ Scanned(wal_file) \subseteq Scanned(wal_file')
      /\ \A i \in Scanned(wal_file) : wal_file'[i] = wal_file[i]
  BY <1>1, ExtendsKeeps, ZenonT(30) DEF ScannedIncreasing
<1> QED
  BY <1>2, ZenonT(30) DEF ScannedIncreasing

\* Open keeps the invariant: it numbers on above all it can read.
LEMMA OpenStep ==
  ASSUME WALInv, WALOpen
  PROVE  WALInv'
<1> USE DEF WALInv, WALOpen
<1>1. /\ next_sequence_number' \in Nat \ {0}
      /\ \A i \in Scanned(wal_file) : wal_file[i].lsn < next_sequence_number'
  BY NextSeqAbove, ZenonT(30) DEF WALTypeOK, ScannedIncreasing
<1>2. WALTypeOK'
  BY <1>1, ZenonT(30) DEF WALTypeOK
<1>3. ScannedIncreasing' /\ NextAboveScanned' /\ AckedOnFile'
  BY <1>1, Zenon DEF ScannedIncreasing, NextAboveScanned, AckedOnFile
<1>4. unflushed = <<>> \/ DOMAIN unflushed = {}
  BY Zenon DEF BufferedAboveScanned, WALTypeOK
<1>5. BufferedAboveScanned'
  BY <1>4, Zenon DEF BufferedAboveScanned
<1> QED
  BY <1>2, <1>3, <1>5, ZenonT(30)

\* A torn record is never read, and hides nothing that was.
LEMMA TornUnread ==
  ASSUME NEW file \in Seq(WALRecord), NEW r \in WALRecord,
         NEW new, new = file \/ new = Append(file, Torn(r))
  PROVE  /\ new \in Seq(WALRecord)
         /\ Scanned(new) = Scanned(file)
         /\ \A i \in Scanned(new) : new[i] = file[i]
<1>1. Torn(r) \in WALRecord /\ Torn(r).crc # "match"
  BY Zenon DEF Torn, WALRecord
<1>2. CASE new = file
  BY <1>2, Zenon
<1>3. CASE new = Append(file, Torn(r))
  <2>1. /\ Scanned(file) \subseteq Scanned(new)
        /\ \A i \in Scanned(file) : new[i] = file[i]
        /\ \A i \in Scanned(new) :
             i \in Scanned(file) \/ (i > Len(file) /\ Torn(r).crc = "match")
    BY <1>1, <1>3, ScannedAppend, ZenonT(30)
  <2>2. new \in Seq(WALRecord)
    BY <1>1, <1>3
  <2> QED
    BY <1>1, <2>1, <2>2, Zenon
<1> QED
  BY <1>2, <1>3, Zenon

\* A bound above the readable LSNs and the new record's stays one.
LEMMA AppendBelow ==
  ASSUME NEW file \in Seq(WALRecord), NEW r \in WALRecord,
         NEW new, new = Append(file, r), NEW b,
         \A i \in Scanned(file) : file[i].lsn < b, r.lsn < b
  PROVE  \A i \in Scanned(new) : new[i].lsn < b
<1>1. /\ \A i \in Scanned(file) : new[i] = file[i]
      /\ \A i \in Scanned(new) :
           i \in Scanned(file) \/ (i > Len(file) /\ r.crc = "match")
  BY ScannedAppend, Zenon
<1>2. \A i \in Scanned(new) : i \in 1 .. Len(file) + 1
  BY DEF Scanned
<1>3. \A i \in Scanned(new) : i > Len(file) => new[i] = r
  BY <1>2
<1> QED
  BY <1>1, <1>3, Zenon

\* Append that succeeds keeps the invariant.
LEMMA AppendOkStep ==
  ASSUME WALInv, NEW p \in WALPayload, AppendOk(p)
  PROVE  WALInv'
<1> DEFINE S == Stamped(p)
<1>1. /\ S \in WALRecord
      /\ S.lsn = next_sequence_number
      /\ wal_file' = Append(wal_file, S)
      /\ acked' = Append(acked, S)
      /\ Extends(wal_file, wal_file')
  BY StampedExtends, Zenon DEF AppendOk
<1> HIDE DEF S
<1>2. wal_file' \in Seq(WALRecord) /\ ScannedIncreasing'
  BY <1>1, ExtendedOrder, Zenon
<1>3. WALTypeOK'
  <2>1. acked' \in Seq(WALRecord)
    BY <1>1 DEF WALInv, WALTypeOK
  <2> QED
    BY <1>2, <2>1 DEF AppendOk, WALInv, WALTypeOK
<1>4. NextAboveScanned'
  <2>1. \A i \in Scanned(wal_file) : wal_file[i].lsn < next_sequence_number + 1
    <3>1. \A i \in Scanned(wal_file) : wal_file[i].lsn < next_sequence_number
      BY Zenon DEF WALInv, NextAboveScanned, AppendOk
    <3>2. \A i \in Scanned(wal_file) : wal_file[i] \in WALRecord
      BY DEF WALInv, WALTypeOK, Scanned
    <3>3. \A i \in Scanned(wal_file) : wal_file[i].lsn \in Nat
      BY <3>2, Zenon DEF WALRecord
    <3> QED
      BY <3>1, <3>3 DEF WALInv, WALTypeOK
  <2>2. S.lsn < next_sequence_number + 1
    BY <1>1 DEF WALInv, WALTypeOK
  <2>3. \A i \in Scanned(wal_file') : wal_file'[i].lsn < next_sequence_number + 1
    BY <1>1, <2>1, <2>2, AppendBelow, Zenon DEF WALInv, WALTypeOK
  <2> QED
    BY <2>3, Zenon DEF AppendOk, NextAboveScanned
<1>5. BufferedAboveScanned'
  BY Zenon DEF WALInv, BufferedAboveScanned, AppendOk
<1>6. AckedOnFile'
  <2> SUFFICES ASSUME faults = 0, power_losses = 0
               PROVE  /\ unflushed' = <<>>
                      /\ \A a \in DOMAIN acked' :
                           \E i \in DOMAIN wal_file' : wal_file'[i] = acked'[a]
    BY Zenon DEF AckedOnFile, AppendOk
  <2>1. /\ unflushed = <<>>
        /\ \A a \in DOMAIN acked : \E i \in DOMAIN wal_file : wal_file[i] = acked[a]
    BY Zenon DEF WALInv, AckedOnFile
  <2>2. ASSUME NEW a \in DOMAIN acked'
        PROVE  \E i \in DOMAIN wal_file' : wal_file'[i] = acked'[a]
    <3>1. /\ DOMAIN acked' = 1 .. Len(acked) + 1 /\ DOMAIN acked = 1 .. Len(acked)
          /\ Len(acked) \in Nat
          /\ \A x \in 1 .. Len(acked) : acked'[x] = acked[x]
          /\ acked'[Len(acked) + 1] = S
      BY <1>1 DEF WALInv, WALTypeOK
    <3>2. /\ DOMAIN wal_file' = 1 .. Len(wal_file) + 1 /\ DOMAIN wal_file = 1 .. Len(wal_file)
          /\ Len(wal_file) \in Nat
          /\ \A x \in 1 .. Len(wal_file) : wal_file'[x] = wal_file[x]
          /\ wal_file'[Len(wal_file) + 1] = S
      BY <1>1 DEF WALInv, WALTypeOK
    <3>3. CASE a = Len(acked) + 1
      <4>1. Len(wal_file) + 1 \in DOMAIN wal_file'
        BY <3>2
      <4> QED
        BY <3>1, <3>2, <3>3, <4>1, Zenon
    <3>4. CASE a \in DOMAIN acked
      <4>1. PICK i \in DOMAIN wal_file : wal_file[i] = acked[a]
        BY <2>1, <3>4, Zenon
      <4>2. i \in DOMAIN wal_file' /\ wal_file'[i] = acked'[a]
        BY <3>1, <3>2, <3>4, <4>1
      <4> QED
        BY <4>2, Zenon
    <3> QED
      BY <3>1, <3>3, <3>4
  <2> QED
    BY <2>1, <2>2, Zenon DEF AppendOk
<1> QED
  BY <1>2, <1>3, <1>4, <1>5, <1>6, Zenon DEF WALInv

\* The file after a write of the stream failed.
LEMMA PartlyWrittenUnread ==
  ASSUME WALInv, NEW p \in WALPayload, wal_file' \in PartlyWritten(Stamped(p))
  PROVE  /\ wal_file' \in Seq(WALRecord)
         /\ Scanned(wal_file') = Scanned(wal_file)
         /\ \A i \in Scanned(wal_file') : wal_file'[i] = wal_file[i]
         /\ \A i \in Scanned(wal_file') : wal_file'[i].lsn \in Nat
         /\ ScannedIncreasing'
<1>1. Stamped(p) \in WALRecord
  BY Zenon DEF WALInv, WALTypeOK, Stamped, WALRecord
<1>2. wal_file' = wal_file \/ wal_file' = Append(wal_file, Torn(Stamped(p)))
  BY Zenon DEF PartlyWritten
<1>3. /\ wal_file' \in Seq(WALRecord)
      /\ Scanned(wal_file') = Scanned(wal_file)
      /\ \A i \in Scanned(wal_file') : wal_file'[i] = wal_file[i]
  BY <1>1, <1>2, TornUnread, ZenonT(30) DEF WALInv, WALTypeOK
<1>4. \A i \in Scanned(wal_file') : wal_file'[i] \in WALRecord
  BY <1>3 DEF Scanned
<1>5. \A i \in Scanned(wal_file') : wal_file'[i].lsn \in Nat
  BY <1>4, ZenonT(30) DEF WALRecord
<1> QED
  BY <1>3, <1>5, ZenonT(30) DEF WALInv, ScannedIncreasing

\* Append whose flush fails keeps the invariant.
LEMMA AppendFlushFailsStep ==
  ASSUME WALInv, NEW p \in WALPayload, AppendFlushFails(p)
  PROVE  WALInv'
<1> DEFINE S == Stamped(p)
<1>1. S \in WALRecord /\ S.crc = "match" /\ S.lsn = next_sequence_number
  BY StampedExtends, Zenon DEF AppendFlushFails
<1>2. /\ wal_file' \in PartlyWritten(S)
      /\ unflushed' = <<S>>
      /\ acked' = Append(acked, S)
      /\ write_file = "good" /\ write_file' = "bad"
      /\ next_sequence_number' = next_sequence_number + 1
      /\ faults' = faults + 1 /\ power_losses' = power_losses
  BY Zenon DEF AppendFlushFails
<1>3. /\ wal_file' \in Seq(WALRecord)
      /\ Scanned(wal_file') = Scanned(wal_file)
      /\ \A i \in Scanned(wal_file') : wal_file'[i] = wal_file[i]
      /\ \A i \in Scanned(wal_file') : wal_file'[i].lsn \in Nat
      /\ ScannedIncreasing'
  BY <1>2, PartlyWrittenUnread, Zenon
<1>4. \A i \in Scanned(wal_file') : wal_file'[i].lsn < next_sequence_number
  BY <1>2, <1>3, Zenon DEF WALInv, NextAboveScanned
<1> HIDE DEF S
<1>5. next_sequence_number \in Nat \ {0} /\ faults \in Nat
  BY Zenon DEF WALInv, WALTypeOK
<1>6. WALTypeOK'
  <2>1. acked' \in Seq(WALRecord)
    BY <1>1, <1>2 DEF WALInv, WALTypeOK
  <2>2. unflushed' \in Seq(WALRecord) /\ Len(unflushed') <= 1
    BY <1>1, <1>2
  <2> QED
    BY <1>2, <1>3, <1>5, <2>1, <2>2 DEF WALInv, WALTypeOK
<1>7. NextAboveScanned'
  BY <1>2, <1>3, <1>4, <1>5 DEF NextAboveScanned
<1>8. BufferedAboveScanned'
  <2>1. \A u \in DOMAIN unflushed' : unflushed'[u] = S
    BY <1>2
  <2> QED
    BY <1>1, <1>2, <1>4, <1>5, <2>1 DEF BufferedAboveScanned
<1>9. AckedOnFile'
  BY <1>2, <1>5 DEF AckedOnFile
<1> QED
  BY <1>3, <1>6, <1>7, <1>8, <1>9, ZenonT(30) DEF WALInv

\* Append whose write fails keeps the invariant.
LEMMA AppendWriteFailsStep ==
  ASSUME WALInv, NEW p \in WALPayload, AppendWriteFails(p)
  PROVE  WALInv'
<1>1. /\ wal_file' \in Seq(WALRecord)
      /\ Scanned(wal_file') = Scanned(wal_file)
      /\ \A i \in Scanned(wal_file') : wal_file'[i] = wal_file[i]
      /\ \A i \in Scanned(wal_file') : wal_file'[i].lsn \in Nat
      /\ ScannedIncreasing'
  BY PartlyWrittenUnread, Zenon DEF AppendWriteFails
<1>2. WALTypeOK'
  BY <1>1 DEF WALInv, WALTypeOK, AppendWriteFails
<1>3. NextAboveScanned'
  BY <1>1 DEF WALInv, WALTypeOK, NextAboveScanned, AppendWriteFails
<1>4. BufferedAboveScanned'
  BY ZenonT(30) DEF WALInv, BufferedAboveScanned, AppendWriteFails
<1>5. AckedOnFile'
  BY DEF WALInv, WALTypeOK, AckedOnFile, AppendWriteFails
<1> QED
  BY <1>1, <1>2, <1>3, <1>4, <1>5, ZenonT(30) DEF WALInv

\* Append on a failed stream keeps the invariant.
LEMMA AppendOnBadStreamStep ==
  ASSUME WALInv, AppendOnBadStream
  PROVE  WALInv'
<1>1. \A i \in Scanned(wal_file) : wal_file[i] \in WALRecord
  BY DEF WALInv, WALTypeOK, Scanned
<1>2. \A i \in Scanned(wal_file) : wal_file[i].lsn \in Nat
  BY <1>1, ZenonT(30) DEF WALRecord
<1>3. \A u \in DOMAIN unflushed : unflushed[u] \in WALRecord
  BY DEF WALInv, WALTypeOK
<1>4. \A u \in DOMAIN unflushed : unflushed[u].lsn \in Nat
  BY <1>3, Zenon DEF WALRecord
<1>5. WALTypeOK' /\ ScannedIncreasing' /\ AckedOnFile'
  BY DEF WALInv, WALTypeOK, ScannedIncreasing, AckedOnFile, AppendOnBadStream
<1>6. NextAboveScanned'
  BY <1>2 DEF WALInv, WALTypeOK, NextAboveScanned, AppendOnBadStream
<1>7. BufferedAboveScanned'
  BY <1>4 DEF WALInv, WALTypeOK, BufferedAboveScanned, AppendOnBadStream
<1> QED
  BY <1>5, <1>6, <1>7, ZenonT(30) DEF WALInv

\* An extension of the file keeps every record where it is.
LEMMA ExtendsKeepsRecords ==
  ASSUME NEW file \in Seq(WALRecord), NEW new, Extends(file, new)
  PROVE  \A i \in DOMAIN file : i \in DOMAIN new /\ new[i] = file[i]
<1>1. CASE new = file
  BY <1>1, ZenonT(30)
<1>2. ASSUME NEW r \in WALRecord, new = Append(file, r)
      PROVE  \A i \in DOMAIN file : i \in DOMAIN new /\ new[i] = file[i]
  BY <1>2
<1> QED
  BY <1>1, <1>2, Zenon DEF Extends

\* Sync keeps the invariant.
LEMMA SyncStep ==
  ASSUME WALInv, WALSync
  PROVE  WALInv'
<1>1. CASE UNCHANGED <<wal_file, unflushed>>
  BY <1>1, Zenon DEF WALInv, WALSync, WALTypeOK, ScannedIncreasing, NextAboveScanned,
              BufferedAboveScanned, AckedOnFile
<1>2. CASE wal_file' = wal_file \o unflushed /\ unflushed' = <<>>
  <2>1. Extends(wal_file, wal_file')
    BY <1>2, UnflushedExtends, Zenon
  <2>2. wal_file' \in Seq(WALRecord) /\ ScannedIncreasing'
    BY <2>1, ExtendedOrder, Zenon
  <2>3. WALTypeOK'
    BY <1>2, <2>2 DEF WALInv, WALTypeOK, WALSync
  <2>4. NextAboveScanned'
    <3>1. CASE unflushed = <<>>
      <4>1. wal_file' = wal_file
        BY <1>2, <3>1 DEF WALInv, WALTypeOK
      <4> QED
        BY <4>1, Zenon DEF WALInv, NextAboveScanned, WALSync
    <3>2. ASSUME NEW r \in WALRecord, unflushed = <<r>>
          PROVE  NextAboveScanned'
      <4>1. wal_file' = Append(wal_file, r)
        BY <1>2, <3>2, AppendIsConcat, Zenon DEF WALInv, WALTypeOK
      <4>2. 1 \in DOMAIN unflushed /\ unflushed[1] = r
        BY <3>2
      <4>3. r.lsn < next_sequence_number
        BY <4>2, Zenon DEF WALInv, BufferedAboveScanned
      <4>4. \A i \in Scanned(wal_file) : wal_file[i].lsn < next_sequence_number
        BY Zenon DEF WALInv, NextAboveScanned, WALSync
      <4>5. \A i \in Scanned(wal_file') : wal_file'[i].lsn < next_sequence_number
        BY <4>1, <4>3, <4>4, AppendBelow, Zenon DEF WALInv, WALTypeOK
      <4> QED
        BY <4>5, Zenon DEF NextAboveScanned, WALSync
    <3> QED
      BY <3>1, <3>2, UnflushedShape, Zenon
  <2>5. BufferedAboveScanned'
    BY <1>2 DEF BufferedAboveScanned
  <2>6. AckedOnFile'
    BY <1>2, <2>1, ExtendsKeepsRecords, SMTT(30) DEF WALInv, WALTypeOK, AckedOnFile, WALSync
  <2> QED
    BY <2>2, <2>3, <2>4, <2>5, <2>6, Zenon DEF WALInv
<1> QED
  BY <1>1, <1>2, ZenonT(30) DEF WALSync, RetryBuffer

\* The log object goes away (closed or crashed) while the file is extended.
LEMMA GoneStep ==
  ASSUME WALInv, Extends(wal_file, wal_file'),
         write_file' = "closed", unflushed' = <<>>, next_sequence_number' = 1,
         acked' = acked, faults' = faults, power_losses' = power_losses
  PROVE  WALInv'
<1>1. wal_file' \in Seq(WALRecord) /\ ScannedIncreasing'
  BY ExtendedOrder, ZenonT(30)
<1>2. WALTypeOK'
  BY <1>1 DEF WALInv, WALTypeOK
<1>3. NextAboveScanned' /\ BufferedAboveScanned'
  BY DEF NextAboveScanned, BufferedAboveScanned
<1>4. AckedOnFile'
  BY ExtendsKeepsRecords DEF WALInv, WALTypeOK, AckedOnFile
<1> QED
  BY <1>1, <1>2, <1>3, <1>4, ZenonT(30) DEF WALInv

\* The destructor keeps the invariant.
LEMMA CloseStep ==
  ASSUME WALInv, WALClose
  PROVE  WALInv'
<1>1. Extends(wal_file, wal_file)
  BY ZenonT(30) DEF Extends
<1>2. Extends(wal_file, wal_file')
  BY <1>1, UnflushedExtends, Zenon DEF WALClose
<1> QED
  BY <1>2, GoneStep, ZenonT(30) DEF WALClose

\* A crash outside Append keeps the invariant.
LEMMA CrashStep ==
  ASSUME WALInv, WALCrash
  PROVE  WALInv'
<1>1. Extends(wal_file, wal_file')
  BY ZenonT(30) DEF Extends, WALCrash
<1> QED
  BY <1>1, GoneStep, ZenonT(30) DEF WALCrash, LogObjectGone

\* A crash inside Append keeps the invariant.
LEMMA CrashInAppendStep ==
  ASSUME WALInv, NEW p \in WALPayload, WALCrashInAppend(p)
  PROVE  WALInv'
<1>1. /\ Stamped(p) \in WALRecord
      /\ Extends(wal_file, Append(wal_file, Stamped(p)))
  BY StampedExtends, Zenon DEF WALCrashInAppend
<1>2. \A new \in PartlyWritten(Stamped(p)) : Extends(wal_file, new)
  BY <1>1, PartlyWrittenExtends, Zenon DEF WALInv, WALTypeOK
<1>3. Extends(wal_file, wal_file')
  BY <1>1, <1>2, Zenon DEF WALCrashInAppend
<1> QED
  BY <1>3, GoneStep, ZenonT(30) DEF WALCrashInAppend, LogObjectGone

\* A power loss keeps the invariant: a prefix of the file is left.
LEMMA PowerLossStep ==
  ASSUME WALInv, WALPowerLoss
  PROVE  WALInv'
<1>1. PICK n \in 0 .. Len(wal_file) :
        \/ wal_file' = SubSeq(wal_file, 1, n)
        \/ /\ n < Len(wal_file)
           /\ wal_file' = Append(SubSeq(wal_file, 1, n), Torn(wal_file[n + 1]))
  BY Zenon DEF WALPowerLoss
<1> DEFINE kept == SubSeq(wal_file, 1, n)
<1>2. /\ kept \in Seq(WALRecord)
      /\ \A i \in Scanned(kept) : i \in Scanned(wal_file) /\ kept[i] = wal_file[i]
  BY ScannedSubSeq, Zenon DEF WALInv, WALTypeOK
<1>3. /\ wal_file' \in Seq(WALRecord)
      /\ Scanned(wal_file') = Scanned(kept)
      /\ \A i \in Scanned(wal_file') : wal_file'[i] = kept[i]
  <2>1. CASE wal_file' = kept
    BY <1>2, <2>1, Zenon
  <2>2. CASE n < Len(wal_file) /\ wal_file' = Append(kept, Torn(wal_file[n + 1]))
    <3>1. wal_file[n + 1] \in WALRecord
      BY <2>2 DEF WALInv, WALTypeOK
    <3> HIDE DEF kept
    <3> QED
      BY <1>2, <2>2, <3>1, TornUnread, ZenonT(30)
  <2> QED
    BY <1>1, <2>1, <2>2, Zenon
<1> HIDE DEF kept
<1>4. ScannedIncreasing'
  BY <1>2, <1>3, Zenon DEF WALInv, ScannedIncreasing
<1>5. /\ write_file' = "closed" /\ unflushed' = <<>> /\ next_sequence_number' = 1
      /\ acked' = acked /\ faults' = faults /\ power_losses' = power_losses + 1
  BY Zenon DEF WALPowerLoss, LogObjectGone
<1>6. WALTypeOK'
  BY <1>3, <1>5 DEF WALInv, WALTypeOK
<1>7. NextAboveScanned' /\ BufferedAboveScanned' /\ AckedOnFile'
  BY <1>5 DEF NextAboveScanned, BufferedAboveScanned, AckedOnFile, WALInv, WALTypeOK
<1> QED
  BY <1>4, <1>6, <1>7, Zenon DEF WALInv
----------------------------------------------------------------------------
(* The theorems about the log.                                             *)

\* The invariant holds of the empty log.
LEMMA WALInvInit ==
  ASSUME WALInit
  PROVE  WALInv
BY DEF WALInit, WALInv, WALTypeOK, ScannedIncreasing, NextAboveScanned,
       BufferedAboveScanned, AckedOnFile, Scanned

\* Every step keeps the invariant.
LEMMA WALInvNext ==
  ASSUME WALInv, [WALStep]_walVars
  PROVE  WALInv'
<1>1. CASE UNCHANGED walVars
  BY <1>1, Zenon DEF walVars, WALInv, WALTypeOK, ScannedIncreasing, NextAboveScanned,
              BufferedAboveScanned, AckedOnFile
<1>2. ASSUME NEW p \in WALPayload, NEW result \in {"ok", "error"}, WALAppend(p, result)
      PROVE  WALInv'
  BY <1>2, AppendOkStep, AppendFlushFailsStep, AppendWriteFailsStep,
     AppendOnBadStreamStep, ZenonT(30) DEF WALAppend
<1> QED
  BY <1>1, <1>2, OpenStep, CrashInAppendStep, SyncStep, CloseStep, CrashStep,
     PowerLossStep, ZenonT(30) DEF WALStep

\* The inductive invariant holds in every reachable state of the log.
THEOREM WALInvariant == LogSpec => []WALInv
BY WALInvInit, WALInvNext, PTL DEF LogSpec

\* The bounded instances that TLC explores are behaviours of the log.
THEOREM BoundedLogIsLog == WALSpec => LogSpec
<1>1. [WALNext]_walVars => [WALStep]_walVars
  BY Zenon DEF WALNext
<1> QED
  BY <1>1, PTL DEF WALSpec, LogSpec

\* The log's state keeps its types (wal.h, wal_entry.h).
THEOREM WALTypeCorrect == LogSpec => []WALTypeOK
<1>1. WALInv => WALTypeOK
  BY Zenon DEF WALInv
<1> QED
  BY <1>1, WALInvariant, PTL

\* ReadAll returns no entry that the scan of Open does not meet.
LEMMA ReadableIsScanned ==
  ASSUME NEW file \in Seq(WALRecord)
  PROVE  Readable(file) \subseteq Scanned(file)
<1>1. \A i \in DOMAIN file : \A j \in 1 .. i : file[j].crc \in {"match", "mismatch"}
  <2>1. \A i \in DOMAIN file : \A j \in 1 .. i : file[j] \in WALRecord
    OBVIOUS
  <2> QED
    BY <2>1, Zenon DEF WALRecord
<1> QED
  BY <1>1, Zenon DEF Readable, Scanned, Stops

\* An extension of the file keeps what ReadAll returns of it.
LEMMA ExtendsKeepsReadable ==
  ASSUME NEW file \in Seq(WALRecord), NEW new, Extends(file, new)
  PROVE  /\ Readable(file) \subseteq Readable(new)
         /\ \A i \in Readable(file) : new[i] = file[i]
<1>1. \A i \in DOMAIN file : i \in DOMAIN new /\ new[i] = file[i]
  BY ExtendsKeepsRecords, Zenon
<1>2. \A i \in DOMAIN file : \A j \in 1 .. i : j \in DOMAIN file
  OBVIOUS
<1> QED
  BY <1>1, <1>2, Zenon DEF Readable

\* ReadAll returns entries with strictly increasing LSNs, whatever crashes,
\* failed writes, restarts and power losses came before (wal.cpp, Open,
\* Append and ReadAll).
THEOREM LsnAlwaysIncreasing == LogSpec => []LsnIncreasing
<1>1. WALInv => LsnIncreasing
  BY ReadableIsScanned, Zenon DEF WALInv, WALTypeOK, ScannedIncreasing, LsnIncreasing
<1> QED
  BY <1>1, WALInvariant, PTL

\* With no failing write and no power loss, an entry whose Append returned an
\* LSN is in the file, and only a record over 64 MB or a torn one, at or before
\* it, keeps ReadAll from returning it (wal.cpp, Append and ReadAll).
THEOREM AckedAlwaysReadable == LogSpec => []AckedReadable
<1>1. WALInv => AckedReadable
  <2> SUFFICES ASSUME WALInv, faults = 0, power_losses = 0, NEW a \in DOMAIN acked
               PROVE  \E i \in DOMAIN wal_file :
                        /\ wal_file[i] = acked[a]
                        /\ i \in Readable(wal_file) \/ \E j \in 1 .. i : Stops(wal_file[j])
    BY Zenon DEF AckedReadable
  <2>1. PICK i \in DOMAIN wal_file : wal_file[i] = acked[a]
    BY Zenon DEF WALInv, AckedOnFile
  <2>2. i \in Readable(wal_file) \/ \E j \in 1 .. i : Stops(wal_file[j])
    BY Zenon DEF Readable
  <2> QED
    BY <2>1, <2>2, Zenon
<1> QED
  BY <1>1, WALInvariant, PTL

\* Every step but a power loss leaves the file as it is or extends it.
LEMMA StepExtends ==
  ASSUME WALInv, WALStep, power_losses' = power_losses
  PROVE  Extends(wal_file, wal_file')
<1>1. Extends(wal_file, wal_file)
  BY ZenonT(30) DEF Extends
<1>2. Extends(wal_file, wal_file \o unflushed)
  BY UnflushedExtends, ZenonT(30)
<1>3. CASE WALOpen \/ WALCrash \/ WALSync \/ WALClose
  BY <1>1, <1>2, <1>3, Zenon DEF WALOpen, WALCrash, WALSync, RetryBuffer, WALClose
<1>4. CASE WALPowerLoss
  BY <1>4 DEF WALPowerLoss, WALInv, WALTypeOK
<1>5. ASSUME NEW p \in WALPayload, NEW result \in {"ok", "error"},
             WALAppend(p, result) \/ WALCrashInAppend(p)
      PROVE  Extends(wal_file, wal_file')
  <2>1. CASE AppendOnBadStream
    BY <1>1, <2>1, Zenon DEF AppendOnBadStream
  <2>2. CASE write_file = "good"
    <3>1. /\ Stamped(p) \in WALRecord
          /\ Extends(wal_file, Append(wal_file, Stamped(p)))
      BY <2>2, StampedExtends, Zenon
    <3>2. \A new \in PartlyWritten(Stamped(p)) : Extends(wal_file, new)
      BY <3>1, PartlyWrittenExtends, Zenon DEF WALInv, WALTypeOK
    <3> QED
      BY <1>5, <2>1, <3>1, <3>2, Zenon DEF WALAppend, AppendOk, AppendFlushFails,
         AppendWriteFails, WALCrashInAppend
  <2> QED
    BY <1>5, <2>1, <2>2, ZenonT(30) DEF WALAppend, AppendOk, AppendFlushFails,
       AppendWriteFails, WALCrashInAppend
<1> QED
  BY <1>3, <1>4, <1>5, ZenonT(30) DEF WALStep

\* The readable log only grows at its end: no step of Open, Append, Sync,
\* the destructor or a crash takes an entry back or changes one.
THEOREM ReadableLogOnlyGrows == LogSpec => ReadableLogGrows
<1> DEFINE Grows == /\ Readable(wal_file) \subseteq Readable(wal_file')
                    /\ \A i \in Readable(wal_file) : wal_file'[i] = wal_file[i]
<1>1. ASSUME WALInv, [WALStep]_walVars
      PROVE  [power_losses' = power_losses => Grows]_walVars
  BY <1>1, StepExtends, ExtendsKeepsReadable, Zenon DEF WALInv, WALTypeOK
<1> HIDE DEF Grows
<1>2. LogSpec => [][power_losses' = power_losses => Grows]_walVars
  BY <1>1, WALInvariant, PTL DEF LogSpec
<1> QED
  BY <1>2, PTL DEF ReadableLogGrows, Grows
----------------------------------------------------------------------------
(* The numbers of a log to which nothing has happened.                     *)

\* No write failed, the power stayed on and no record was torn.
Intact ==
  /\ faults = 0 /\ power_losses = 0
  /\ \A i \in DOMAIN wal_file : wal_file[i].crc = "match"

\* The entries are numbered without a gap, and so is the next one.
NumbersInv ==
  /\ write_file = "closed" => next_sequence_number = 1
  /\ Intact => /\ \A i \in DOMAIN wal_file : wal_file[i].lsn = i
               /\ write_file # "bad"
               /\ write_file = "good" => next_sequence_number = Len(wal_file) + 1

\* Of such a log every record is scanned, and Open goes on behind the last.
LEMMA NextSeqIntact ==
  ASSUME NEW file \in Seq(WALRecord),
         \A i \in DOMAIN file : file[i].crc = "match" /\ file[i].lsn = i
  PROVE  NextSeq(file) = Len(file) + 1
<1>1. Len(file) \in Nat /\ DOMAIN file = 1 .. Len(file)
  OBVIOUS
<1>2. Scanned(file) = 1 .. Len(file)
  <2>1. \A i \in 1 .. Len(file) : \A j \in 1 .. i : j \in 1 .. Len(file)
    BY <1>1
  <2> QED
    BY <1>1, <2>1, ZenonT(30) DEF Scanned
<1>3. {0} \cup {file[i].lsn : i \in Scanned(file)} = 0 .. Len(file)
  BY <1>1, <1>2
<1>4. /\ Max(0 .. Len(file)) \in 0 .. Len(file)
      /\ \A y \in 0 .. Len(file) : y <= Max(0 .. Len(file))
  <2>1. 0 .. Len(file) \in SUBSET Nat /\ 0 .. Len(file) # {}
        /\ \A x \in 0 .. Len(file) : x <= Len(file)
    BY <1>1
  <2> QED
    BY <1>1, <2>1, MaxOfBounded, Zenon
<1>5. Max(0 .. Len(file)) = Len(file)
  BY <1>1, <1>4
<1>6. NextSeq(file) = 1 + Max(0 .. Len(file))
  BY <1>3, Zenon DEF NextSeq
<1> QED
  BY <1>1, <1>5, <1>6

\* A step never mends a log, and takes nothing off one that stays intact.
LEMMA IntactBefore ==
  ASSUME WALInv, [WALStep]_walVars, Intact'
  PROVE  Intact /\ Len(wal_file) <= Len(wal_file')
<1>1. CASE UNCHANGED walVars
  BY <1>1 DEF walVars, Intact, WALInv, WALTypeOK
<1>2. CASE WALStep
  <2>1. faults \in Nat /\ power_losses \in Nat /\ wal_file \in Seq(WALRecord)
    BY Zenon DEF WALInv, WALTypeOK
  <2>2. faults = 0 /\ power_losses = 0 /\ power_losses' = power_losses
    BY <1>2, <2>1 DEF Intact, WALStep, WALOpen, WALAppend, AppendOk, AppendFlushFails,
       AppendWriteFails, AppendOnBadStream, WALCrashInAppend, WALSync, WALClose, WALCrash,
       WALPowerLoss
  <2>3. Extends(wal_file, wal_file')
    BY <1>2, <2>2, StepExtends, Zenon
  <2>4. \A i \in DOMAIN wal_file : i \in DOMAIN wal_file' /\ wal_file'[i] = wal_file[i]
    BY <2>1, <2>3, ExtendsKeepsRecords, Zenon
  <2>5. Len(wal_file) <= Len(wal_file')
    BY <2>1, <2>3 DEF Extends
  <2> QED
    BY <2>2, <2>4, <2>5, ZenonT(30) DEF Intact
<1> QED
  BY <1>1, <1>2, ZenonT(30)

\* The empty log has no numbers.
LEMMA NumbersInvInit == WALInit => NumbersInv
  BY DEF WALInit, NumbersInv

\* An entry that is written in full gets the next number.
LEMMA AppendedNumber ==
  ASSUME WALInv, NumbersInv, Intact, write_file = "good", NEW p \in WALPayload,
         NEW new, new = Append(wal_file, Stamped(p))
  PROVE  /\ \A i \in DOMAIN new : new[i].lsn = i
         /\ Len(new) = Len(wal_file) + 1
<1>1. wal_file \in Seq(WALRecord) /\ Len(wal_file) \in Nat
  BY DEF WALInv, WALTypeOK
<1>2. \A i \in DOMAIN wal_file : wal_file[i].lsn = i
  BY ZenonT(30) DEF NumbersInv
<1>3. Stamped(p).lsn = Len(wal_file) + 1
  BY Zenon DEF NumbersInv, Stamped
<1>4. PICK r : r = Stamped(p)
  BY Zenon
<1> QED
  BY <1>1, <1>2, <1>3, <1>4

\* No step leaves a gap in a log that stays intact.
LEMMA NumbersInvNext ==
  ASSUME WALInv, NumbersInv, [WALStep]_walVars
  PROVE  NumbersInv'
<1>1. CASE UNCHANGED walVars
  BY <1>1, Zenon DEF walVars, NumbersInv, Intact
<1>2. CASE WALStep
  <2>1. write_file' = "closed" => next_sequence_number' = 1
    BY <1>2, Zenon DEF WALStep, WALOpen, WALAppend, AppendOk, AppendFlushFails,
       AppendWriteFails, AppendOnBadStream, WALCrashInAppend, WALSync, WALClose, WALCrash,
       WALPowerLoss, LogObjectGone, NumbersInv
  <2>2. ASSUME Intact'
        PROVE  /\ \A i \in DOMAIN wal_file' : wal_file'[i].lsn = i
               /\ write_file' # "bad"
               /\ write_file' = "good" => next_sequence_number' = Len(wal_file') + 1
    <3>1. Intact /\ wal_file \in Seq(WALRecord) /\ unflushed = <<>>
      BY <2>2, <1>2, IntactBefore, Zenon DEF WALInv, WALTypeOK, AckedOnFile, Intact
    <3>2. /\ \A i \in DOMAIN wal_file : wal_file[i].lsn = i
          /\ write_file # "bad"
          /\ write_file = "good" => next_sequence_number = Len(wal_file) + 1
      BY <3>1, Zenon DEF NumbersInv
    <3>3. faults = 0 /\ faults' = 0 /\ power_losses = 0 /\ power_losses' = 0
      BY <2>2, <3>1, Zenon DEF Intact
    <3>4. CASE WALOpen
      <4>1. NextSeq(wal_file) = Len(wal_file) + 1
        BY <3>1, <3>2, NextSeqIntact, Zenon DEF Intact
      <4> QED
        BY <3>2, <3>4, <4>1, Zenon DEF WALOpen
    <3>5. CASE WALSync
      BY <3>2, <3>5, Zenon DEF WALSync
    <3>6. CASE WALClose \/ WALCrash
      <4>1. wal_file \o unflushed = wal_file
        BY <3>1
      <4> QED
        BY <3>2, <3>6, <4>1, Zenon DEF WALClose, WALCrash, LogObjectGone
    <3>7. CASE WALPowerLoss
      BY <3>3, <3>7 DEF WALPowerLoss
    <3>8. ASSUME NEW p \in WALPayload, NEW result \in {"ok", "error"}, WALAppend(p, result)
          PROVE  /\ \A i \in DOMAIN wal_file' : wal_file'[i].lsn = i
                 /\ write_file' # "bad"
                 /\ write_file' = "good" => next_sequence_number' = Len(wal_file') + 1
      <4>1. AppendOk(p)
        BY <3>2, <3>3, <3>8 DEF WALAppend, AppendFlushFails, AppendWriteFails, AppendOnBadStream
      <4>2. /\ \A i \in DOMAIN wal_file' : wal_file'[i].lsn = i
            /\ Len(wal_file') = Len(wal_file) + 1
        BY <3>1, <4>1, AppendedNumber, Zenon DEF AppendOk
      <4> QED
        BY <3>1, <3>2, <4>1, <4>2, Zenon DEF AppendOk
    <3>9. ASSUME NEW p \in WALPayload, WALCrashInAppend(p)
          PROVE  /\ \A i \in DOMAIN wal_file' : wal_file'[i].lsn = i
                 /\ write_file' # "bad"
                 /\ write_file' = "good" => next_sequence_number' = Len(wal_file') + 1
      <4>1. write_file = "good" /\ write_file' = "closed"
        BY <3>9, Zenon DEF WALCrashInAppend, LogObjectGone
      <4>2. CASE wal_file' = wal_file
        BY <3>2, <4>1, <4>2, Zenon
      <4>3. CASE wal_file' = Append(wal_file, Stamped(p))
        BY <3>1, <4>1, <4>3, AppendedNumber, Zenon
      <4>4. CASE wal_file' = Append(wal_file, Torn(Stamped(p)))
        <5>1. Torn(Stamped(p)).crc = "mismatch"
          BY Zenon DEF Torn, Stamped
        <5>2. PICK r : r = Torn(Stamped(p))
          BY Zenon
        <5>3. Len(wal_file) + 1 \in DOMAIN wal_file' /\ wal_file'[Len(wal_file) + 1] = r
          BY <3>1, <4>4, <5>2
        <5> QED
          BY <2>2, <5>1, <5>2, <5>3, Zenon DEF Intact
      <4> QED
        BY <3>9, <4>2, <4>3, <4>4, Zenon DEF WALCrashInAppend, PartlyWritten
    <3> QED
      BY <1>2, <3>4, <3>5, <3>6, <3>7, <3>8, <3>9, Zenon DEF WALStep
  <2> QED
    BY <2>1, <2>2, Zenon DEF NumbersInv
<1> QED
  BY <1>1, <1>2, Zenon
----------------------------------------------------------------------------
(* The engine.  Every behaviour of it is, as far as the log goes, one of   *)
(* the log's own specification.                                            *)

\* The engine writes no more than it may number.
WritesCounted == writes \in Nat

\* The constructor starts the count.
LEMMA WritesCountedInit == EngineInit => WritesCounted
  BY DEF EngineInit, WritesCounted

\* Only WriteEntry changes it, also when the process dies in its append.
LEMMA WritesCountedNext == WritesCounted /\ [EngineNext]_engineVars => WritesCounted'
<1> SUFFICES ASSUME WritesCounted, [EngineNext]_engineVars PROVE WritesCounted'
  BY Zenon
<1> USE DEF WritesCounted
<1>1. CASE UNCHANGED engineVars
  BY <1>1, Zenon DEF engineVars, clientVars
<1>2. CASE Open
  BY <1>2, Zenon DEF Open
<1>3. CASE Crash \/ CrashInAppend \/ CrashInFlush \/ CrashInMerge
  BY <1>3 DEF Crash, CrashInAppend, CrashInFlush, CrashInMerge
<1>4. CASE LoopStep
  BY <1>4, Zenon DEF LoopStep, LoopStart, LoopCompact, LoopCaptureLsn, LoopCollectFiles,
              LoopSaveCheckpoint, LoopExit, clientVars
<1>5. ASSUME NEW t \in Thread, ClientStep(t) PROVE WritesCounted'
  <2>1. CASE \E kind \in Calls \cap {"put", "delete"}, k \in Key : WriteEntry(t, kind, k)
    BY <2>1 DEF WriteEntry
  <2>2. CASE Destroyed(t)
    BY <2>2, Zenon DEF Destroyed
  <2>3. CASE ~ \/ \E kind \in Calls \cap {"put", "delete"}, k \in Key : WriteEntry(t, kind, k)
               \/ Destroyed(t)
    <3>1. UNCHANGED writes
      BY <1>5, <2>3, Zenon
      DEF ClientStep, ApplyToMemTable, CallFlush, SwapMemTable, CaptureFlushLsn,
         WriteLevel0, RegisterLevel0, CollectFiles, SaveFlushCheckpoint, GetFromMemTable,
         GetSnapshot, GetFromSSTable, GetReturns, Destroy, JoinThenFlush
    <3> QED
      BY <3>1, Zenon
  <2> QED
    BY <2>1, <2>2, <2>3, Zenon
<1> QED
  BY <1>1, <1>2, <1>3, <1>4, <1>5, Zenon DEF EngineNext

\* What a write puts in the log is an entry the log is made for.
LEMMA WrittenIsPayload ==
  ASSUME WritesCounted, writes < MaxWrites, NEW k \in Key, NEW kind \in {"put", "delete"}
  PROVE  [key |-> k, version |-> [id |-> writes + 1, kind |-> kind]] \in WALPayload
<1>1. writes + 1 \in 1 .. MaxWrites
  BY EngineConstants DEF WritesCounted
<1>2. [id |-> writes + 1, kind |-> kind] \in Version
  BY <1>1, EngineConstants, Zenon
<1> QED
  BY <1>2, EngineConstants, Zenon

\* A step of the engine is a step of the log other than a power loss, or leaves
\* the log alone.
LEMMA EngineStepIsLogStep ==
  WritesCounted /\ [EngineNext]_engineVars => [WALStep]_walVars /\ UNCHANGED power_losses
<1> DEFINE Powered == [WALStep]_walVars /\ UNCHANGED power_losses
<1> SUFFICES ASSUME WritesCounted, [EngineNext]_engineVars PROVE Powered
  BY Zenon
<1> USE DEF walVars
<1>1. CASE UNCHANGED engineVars
  BY <1>1, Zenon DEF engineVars
<1>2. CASE Open
  BY <1>2, Zenon DEF Open, WALStep, WALOpen
<1>3. CASE Crash \/ CrashInFlush \/ CrashInMerge
  BY <1>3, Zenon DEF Crash, CrashInFlush, CrashInMerge, WALStep, WALCrash
<1>4. CASE CrashInAppend
  <2>1. PICK k \in Key, kind \in Calls \cap {"put", "delete"} :
          WALCrashInAppend([key |-> k, version |-> [id |-> writes + 1, kind |-> kind]])
    BY <1>4, Zenon DEF CrashInAppend
  <2>2. [key |-> k, version |-> [id |-> writes + 1, kind |-> kind]] \in WALPayload
    BY <1>4, WrittenIsPayload, Zenon DEF CrashInAppend
  <2> QED
    BY <2>1, <2>2, Zenon DEF WALStep, WALCrashInAppend
<1>5. CASE LoopStep
  <2>1. UNCHANGED walVars
    BY <1>5, Zenon DEF LoopStep, LoopStart, LoopCompact, LoopCaptureLsn, LoopCollectFiles,
                LoopSaveCheckpoint, LoopExit
  <2> QED
    BY <2>1, Zenon
<1>6. ASSUME NEW t \in Thread, ClientStep(t) PROVE Powered
  <2>1. ASSUME NEW kind \in Calls \cap {"put", "delete"}, NEW k \in Key, WriteEntry(t, kind, k)
        PROVE  Powered
    <3> DEFINE w == [key |-> k, version |-> [id |-> writes + 1, kind |-> kind]]
    <3>1. w \in WALPayload
      BY <2>1, WrittenIsPayload, Zenon DEF WriteEntry
    <3>2. WALAppend(w, "ok") \/ WALAppend(w, "error")
      BY <2>1, Zenon DEF WriteEntry
    <3> HIDE DEF w
    <3> QED
      BY <3>1, <3>2, Zenon DEF WALStep, WALAppend, AppendOk, AppendFlushFails,
         AppendWriteFails, AppendOnBadStream
  <2>2. CASE Destroyed(t)
    BY <2>2, Zenon DEF Destroyed, WALStep, WALClose
  <2>3. CASE ~ \/ \E kind \in Calls \cap {"put", "delete"}, k \in Key : WriteEntry(t, kind, k)
               \/ Destroyed(t)
    <3>1. UNCHANGED walVars
      BY <1>6, <2>3, Zenon
      DEF ClientStep, ApplyToMemTable, CallFlush, SwapMemTable, CaptureFlushLsn,
         WriteLevel0, RegisterLevel0, CollectFiles, SaveFlushCheckpoint, GetFromMemTable,
         GetSnapshot, GetFromSSTable, GetReturns, Destroy, JoinThenFlush
    <3> QED
      BY <3>1, Zenon
  <2> QED
    BY <2>1, <2>2, <2>3, Zenon
<1> QED
  BY <1>1, <1>2, <1>3, <1>4, <1>5, <1>6, Zenon DEF EngineNext

\* Over all sessions, crashes and failures the engine does nothing to the log that
\* the log's specification does not allow.  (RecoverMemTable opens the log a
\* second time, reads it and closes it again: nothing of that is written.)
LEMMA EngineImplementsLog == EngineSpec => LogSpec
<1>1. EngineInit => WALInit
  BY Zenon DEF EngineInit
<1> QED
  BY <1>1, WritesCountedInit, WritesCountedNext, EngineStepIsLogStep, PTL
  DEF EngineSpec, LogSpec

\* So in the engine, too, the readable entries of the log stay in the order of
\* their sequence numbers, which is what replay in Recover relies on, and none
\* of them is ever lost or changed by a restart.
THEOREM EngineLogInOrder == EngineSpec => []LsnIncreasing /\ ReadableLogGrows
BY EngineImplementsLog, LsnAlwaysIncreasing, ReadableLogOnlyGrows, PTL
----------------------------------------------------------------------------
(* No checkpoint runs ahead of the log.                                    *)

\* Every LSN that a flush or the compaction thread has captured, and the one in
\* the checkpoint, is one the log has handed out.
CapturedInv ==
  Intact =>
    /\ checkpoint.last_flushed_lsn \in 0 .. Len(wal_file)
    /\ loop_cp.last_flushed_lsn \in 0 .. Len(wal_file)
    /\ \A t \in Thread :
         /\ call[t].pc \in {"write", "add", "files"} => call[t].flush_lsn \in 0 .. Len(wal_file)
         /\ call[t].pc = "save" => call[t].cp.last_flushed_lsn \in 0 .. Len(wal_file)

\* The inductive invariant behind NewWritesAreReplayed.
AheadInv ==
  /\ WritesCounted /\ WALInv /\ NumbersInv /\ power_losses = 0
  /\ DOMAIN call = Thread /\ CapturedInv

\* Nothing has been captured yet.
LEMMA AheadInvInit == EngineInit => AheadInv
<1> SUFFICES ASSUME EngineInit PROVE AheadInv
  BY Zenon
<1>1. WritesCounted /\ WALInv /\ NumbersInv /\ power_losses = 0
  BY WritesCountedInit, WALInvInit, NumbersInvInit, Zenon DEF EngineInit, WALInit
<1>2. Len(wal_file) \in Nat
  BY <1>1 DEF WALInv, WALTypeOK
<1>3. DOMAIN call = Thread /\ CapturedInv
  BY <1>2 DEF EngineInit, CapturedInv, NoCheckpoint, Idle
<1> QED
  BY <1>1, <1>3, Zenon DEF AheadInv

\* The calls are those of the client threads.
LEMMA CallsNext ==
  ASSUME DOMAIN call = Thread, [EngineNext]_engineVars
  PROVE  DOMAIN call' = Thread
<1>1. CASE UNCHANGED engineVars
  BY <1>1, Zenon DEF engineVars, clientVars
<1>2. CASE Open \/ Crash \/ CrashInAppend \/ CrashInFlush \/ CrashInMerge
  BY <1>2, Zenon DEF Open, Crash, CrashInAppend, CrashInFlush, CrashInMerge, ObjectGone
<1>3. CASE LoopStep
  BY <1>3, Zenon DEF LoopStep, LoopStart, LoopCompact, LoopCaptureLsn, LoopCollectFiles,
              LoopSaveCheckpoint, LoopExit, clientVars
<1>4. ASSUME NEW t \in Thread, ClientStep(t) PROVE DOMAIN call' = Thread
  <2>1. CASE Destroyed(t)
    BY <2>1, Zenon DEF Destroyed, ObjectGone
  <2>2. CASE ~ Destroyed(t)
    <3>1. \E locals : Goto(t, locals)
      BY <1>4, <2>2, Zenon DEF ClientStep, WriteEntry, ApplyToMemTable, CallFlush, SwapMemTable,
         CaptureFlushLsn, WriteLevel0, RegisterLevel0, CollectFiles, SaveFlushCheckpoint,
         GetFromMemTable, GetSnapshot, GetFromSSTable, GetReturns, Destroy, JoinThenFlush,
         ReturnOk, ReturnError, Got
    <3> QED
      BY <3>1, ZenonT(30) DEF Goto
  <2> QED
    BY <2>1, <2>2, Zenon
<1> QED
  BY <1>1, <1>2, <1>3, <1>4, Zenon DEF EngineNext

\* What is captured is the log's current number, and the log only grows.
LEMMA CapturedNext ==
  ASSUME AheadInv, [EngineNext]_engineVars
  PROVE  CapturedInv'
<1> SUFFICES ASSUME Intact' PROVE CapturedInv'
  BY Zenon DEF CapturedInv
<1>1. [WALStep]_walVars
  BY EngineStepIsLogStep, Zenon DEF AheadInv
<1>2. Intact /\ Len(wal_file) <= Len(wal_file')
  BY <1>1, IntactBefore, Zenon DEF AheadInv
<1>3. WALInv'
  BY <1>1, WALInvNext, Zenon DEF AheadInv
<1>4. Len(wal_file) \in Nat /\ Len(wal_file') \in Nat /\ 0 \in 0 .. Len(wal_file)
  <2>1. Len(wal_file) \in Nat /\ Len(wal_file') \in Nat
    BY <1>3 DEF AheadInv, WALInv, WALTypeOK
  <2> QED
    BY <2>1
<1>5. \A n \in 0 .. Len(wal_file) : n \in 0 .. Len(wal_file')
  BY <1>2, <1>4
<1>6. current_sequence_number \in 0 .. Len(wal_file)
  <2>1. write_file \in {"closed", "good", "bad"}
    BY ZenonT(30) DEF AheadInv, WALInv, WALTypeOK
  <2> QED
    BY <1>2, <1>4, <2>1 DEF AheadInv, NumbersInv, current_sequence_number
<1>7. /\ checkpoint.last_flushed_lsn \in 0 .. Len(wal_file)
      /\ loop_cp.last_flushed_lsn \in 0 .. Len(wal_file)
      /\ \A t \in Thread :
           /\ call[t].pc \in {"write", "add", "files"} =>
                call[t].flush_lsn \in 0 .. Len(wal_file)
           /\ call[t].pc = "save" => call[t].cp.last_flushed_lsn \in 0 .. Len(wal_file)
  BY <1>2, ZenonT(30) DEF AheadInv, CapturedInv
<1> SUFFICES /\ checkpoint'.last_flushed_lsn \in 0 .. Len(wal_file)
             /\ loop_cp'.last_flushed_lsn \in 0 .. Len(wal_file)
             /\ \A t \in Thread :
                  /\ call'[t].pc \in {"write", "add", "files"} =>
                       call'[t].flush_lsn \in 0 .. Len(wal_file)
                  /\ call'[t].pc = "save" =>
                       call'[t].cp.last_flushed_lsn \in 0 .. Len(wal_file)
  BY <1>5, ZenonT(30) DEF CapturedInv
<1>8. CASE UNCHANGED engineVars
  BY <1>7, <1>8, ZenonT(30) DEF engineVars, clientVars, loopVars
<1>9. CASE Open
  BY <1>7, <1>9, ZenonT(30) DEF Open
<1>10. CASE Crash \/ CrashInAppend \/ CrashInFlush \/ CrashInMerge
  <2>1. checkpoint' = checkpoint /\ call' = [t \in Thread |-> Idle] /\ loop_cp' = NoCheckpoint
    BY <1>10, ZenonT(30) DEF Crash, CrashInAppend, CrashInFlush, CrashInMerge, ObjectGone
  <2>2. (\A t \in Thread : call'[t].pc = "idle") /\ loop_cp'.last_flushed_lsn = 0
    BY <2>1, Zenon DEF NoCheckpoint, Idle
  <2>3. checkpoint'.last_flushed_lsn \in 0 .. Len(wal_file) /\ 0 \in 0 .. Len(wal_file)
    BY <1>4, <1>7, <2>1, ZenonT(30)
  <2> QED
    BY <2>2, <2>3, ZenonT(30)
<1>11. CASE LoopStep
  <2>1. CASE LoopCaptureLsn
    BY <1>6, <1>7, <2>1, Zenon DEF LoopCaptureLsn, NoCheckpoint, clientVars
  <2>2. CASE LoopCollectFiles
    <3>1. loop_cp'.last_flushed_lsn = loop_cp.last_flushed_lsn
      BY <2>2, SMTT(30) DEF LoopCollectFiles
    <3> QED
      BY <1>7, <2>2, <3>1, Zenon DEF LoopCollectFiles, clientVars
  <2>3. CASE LoopSaveCheckpoint
    <3>1. /\ checkpoint' \in {checkpoint, loop_cp} /\ loop_cp' = NoCheckpoint
          /\ call' = call
      BY <2>3, ZenonT(30) DEF LoopSaveCheckpoint, SaveFails, clientVars
    <3>2. loop_cp'.last_flushed_lsn = 0 /\ 0 \in 0 .. Len(wal_file)
      BY <1>4, <3>1, Zenon DEF NoCheckpoint
    <3> QED
      BY <1>7, <3>1, <3>2, ZenonT(30)
  <2>4. CASE LoopStart \/ LoopCompact \/ LoopExit
    BY <1>7, <2>4, ZenonT(30) DEF LoopStart, LoopCompact, LoopExit, clientVars, loopVars
  <2> QED
    BY <1>11, <2>1, <2>2, <2>3, <2>4, ZenonT(30) DEF LoopStep
<1>12. ASSUME NEW t \in Thread, ClientStep(t)
       PROVE  /\ checkpoint'.last_flushed_lsn \in 0 .. Len(wal_file)
              /\ loop_cp'.last_flushed_lsn \in 0 .. Len(wal_file)
              /\ \A u \in Thread :
                   /\ call'[u].pc \in {"write", "add", "files"} =>
                        call'[u].flush_lsn \in 0 .. Len(wal_file)
                   /\ call'[u].pc = "save" =>
                        call'[u].cp.last_flushed_lsn \in 0 .. Len(wal_file)
  <2>1. CASE Destroyed(t)
    <3>1. checkpoint' = checkpoint /\ call' = [u \in Thread |-> Idle] /\ loop_cp' = NoCheckpoint
      BY <2>1, ZenonT(30) DEF Destroyed, ObjectGone
    <3> QED
      BY <1>4, <1>7, <3>1, ZenonT(30), ZenonT(30) DEF NoCheckpoint, Idle
  <2> DEFINE Fine(locals) == /\ locals.pc \in {"write", "add", "files"} =>
                                  locals.flush_lsn \in 0 .. Len(wal_file)
                             /\ locals.pc = "save" =>
                                  locals.cp.last_flushed_lsn \in 0 .. Len(wal_file)
  <2>2. SUFFICES ASSUME ~ Destroyed(t)
                 PROVE  /\ UNCHANGED loop_cp
                        /\ checkpoint'.last_flushed_lsn \in 0 .. Len(wal_file)
                        /\ \E locals : Fine(locals) /\ Goto(t, locals)
    <3>1. ASSUME NEW locals, Fine(locals), Goto(t, locals)
          PROVE  \A u \in Thread : Fine(call'[u])
      <4> TAKE u \in Thread
      <4>1. Fine(call[u])
        BY <1>7, Zenon
      <4>2. call'[u] = IF u = t THEN locals ELSE call[u]
        BY <3>1, ZenonT(30) DEF Goto, AheadInv
      <4> HIDE DEF Fine
      <4> QED
        BY <3>1, <4>1, <4>2, Zenon
    <3> QED
      BY <1>7, <2>1, <3>1, ZenonT(30)
  <2>3. CASE \E kind \in Calls \cap {"put", "delete"}, k \in Key : WriteEntry(t, kind, k)
    <3>1. PICK kind \in Calls \cap {"put", "delete"}, k \in Key : WriteEntry(t, kind, k)
      BY <2>3, Zenon
    <3>2. PICK w : w = [key |-> k, version |-> [id |-> writes + 1, kind |-> kind]]
      BY Zenon
    <3>3. Fine([pc |-> "apply", write |-> w]) /\ Fine(Idle)
      BY ZenonT(30) DEF Idle
    <3>4. Goto(t, [pc |-> "apply", write |-> w]) \/ Goto(t, Idle)
      BY <3>1, <3>2, ZenonT(30) DEF WriteEntry
    <3> HIDE DEF Fine
    <3> QED
      BY <1>7, <3>1, <3>3, <3>4, ZenonT(30) DEF WriteEntry, loopVars
  <2>4. Fine(Idle) /\ Fine([pc |-> "gone"])
    BY ZenonT(30), ZenonT(30) DEF Idle
  <2>5. ASSUME NEW ack, ReturnOk(t, ack) \/ ReturnError(t)
        PROVE  \E locals : Fine(locals) /\ Goto(t, locals)
    BY <2>4, <2>5, ZenonT(30) DEF ReturnOk, ReturnError
  <2>6. CASE ApplyToMemTable(t)
    <3>1. Fine([pc |-> "swap", ack |-> {call[t].write}])
      BY ZenonT(30)
    <3> HIDE DEF Fine
    <3> QED
      BY <1>7, <2>5, <2>6, <3>1, ZenonT(30) DEF ApplyToMemTable, loopVars
  <2>7. CASE CallFlush(t)
    <3>1. Fine([pc |-> "swap", ack |-> {}])
      BY Zenon
    <3> HIDE DEF Fine
    <3> QED
      BY <1>7, <2>7, <3>1, ZenonT(30) DEF CallFlush, loopVars
  <2>8. CASE SwapMemTable(t)
    <3>1. Fine([pc |-> "lsn", ack |-> call[t].ack, table |-> active_memtable])
      BY ZenonT(30)
    <3> HIDE DEF Fine
    <3> QED
      BY <1>7, <2>5, <2>8, <3>1, ZenonT(30) DEF SwapMemTable, loopVars
  <2>9. CASE CaptureFlushLsn(t)
    <3>1. Fine([pc |-> "write", ack |-> call[t].ack, table |-> call[t].table,
                flush_lsn |-> current_sequence_number])
      BY <1>6, ZenonT(30)
    <3> HIDE DEF Fine
    <3> QED
      BY <1>7, <2>9, <3>1, ZenonT(30) DEF CaptureFlushLsn, loopVars
  <2>10. CASE WriteLevel0(t)
    <3>1. call[t].flush_lsn \in 0 .. Len(wal_file)
      BY <1>7, <2>10, ZenonT(30) DEF WriteLevel0, At
    <3>2. \A meta : Fine([pc |-> "add", ack |-> call[t].ack, flush_lsn |-> call[t].flush_lsn,
                          meta |-> meta])
      BY <3>1, ZenonT(30)
    <3> HIDE DEF Fine
    <3>3. \E locals : Fine(locals) /\ Goto(t, locals)
      BY <2>5, <2>10, <3>2, ZenonT(30) DEF WriteLevel0
    <3> QED
      BY <1>7, <2>10, <3>3, ZenonT(30) DEF WriteLevel0, loopVars
  <2>11. CASE RegisterLevel0(t)
    <3>1. call[t].flush_lsn \in 0 .. Len(wal_file)
      BY <1>7, <2>11, ZenonT(30) DEF RegisterLevel0, At
    <3>2. Fine([pc |-> "files", ack |-> call[t].ack, flush_lsn |-> call[t].flush_lsn])
      BY <3>1, ZenonT(30)
    <3> HIDE DEF Fine
    <3> QED
      BY <1>7, <2>11, <3>2, ZenonT(30) DEF RegisterLevel0, loopVars
  <2>12. CASE CollectFiles(t)
    <3>1. call[t].flush_lsn \in 0 .. Len(wal_file)
      BY <1>7, <2>12, ZenonT(30) DEF CollectFiles, At
    <3>2. Fine([pc |-> "save", ack |-> call[t].ack,
                cp |-> [last_flushed_lsn |-> call[t].flush_lsn, sstables |-> files]])
      BY <3>1, ZenonT(30)
    <3> HIDE DEF Fine
    <3> QED
      BY <1>7, <2>12, <3>2, ZenonT(30) DEF CollectFiles, loopVars
  <2>13. CASE SaveFlushCheckpoint(t)
    <3>1. call[t].cp.last_flushed_lsn \in 0 .. Len(wal_file)
      BY <1>7, <2>13, ZenonT(30) DEF SaveFlushCheckpoint, At
    <3> HIDE DEF Fine
    <3> QED
      BY <1>7, <2>5, <2>13, <3>1, ZenonT(30) DEF SaveFlushCheckpoint, SaveFails, loopVars
  <2>14. CASE \/ \E k \in Key : GetFromMemTable(t, k)
              \/ GetSnapshot(t) \/ GetFromSSTable(t) \/ GetReturns(t)
    <3>1. \E locals : Goto(t, locals) /\ locals.pc \in {"idle", "look", "search", "got"}
      <4>1. CASE \E k \in Key : GetFromMemTable(t, k)
        <5>1. PICK k \in Key : GetFromMemTable(t, k)
          BY <4>1, Zenon
        <5>2. PICK got : got = [pc |-> "got", key |-> k, latest |-> acked_version[k],
                                found |-> active_memtable[k]]
          BY Zenon
        <5>3. PICK look : look = [pc |-> "look", key |-> k, latest |-> acked_version[k]]
          BY Zenon
        <5>4. Goto(t, got) \/ Goto(t, look)
          BY <5>1, <5>2, <5>3, ZenonT(30) DEF GetFromMemTable, Got
        <5>5. got.pc = "got" /\ look.pc = "look"
          BY <5>2, <5>3, Zenon
        <5> QED
          BY <5>4, <5>5, Zenon
      <4>2. CASE GetSnapshot(t)
        BY <4>2 DEF GetSnapshot
      <4>3. CASE GetFromSSTable(t)
        <5>1. \E found : \/ Got(t, call[t].key, call[t].latest, found)
                         \/ \E f : Goto(t, [call[t] EXCEPT !.left = @ \ {f}])
          BY <4>3, Zenon DEF GetFromSSTable
        <5>2. ASSUME NEW found, Got(t, call[t].key, call[t].latest, found)
              PROVE  \E locals : Goto(t, locals) /\ locals.pc \in {"idle", "look", "search", "got"}
          BY <5>2 DEF Got
        <5>3. ASSUME NEW f, Goto(t, [call[t] EXCEPT !.left = @ \ {f}])
              PROVE  \E locals : Goto(t, locals) /\ locals.pc \in {"idle", "look", "search", "got"}
          <6>1. [call[t] EXCEPT !.left = @ \ {f}].pc = "search"
            BY <4>3 DEF GetFromSSTable, At
          <6> QED
            BY <5>3, <6>1, Zenon
        <5> QED
          BY <5>1, <5>2, <5>3, Zenon
      <4>4. CASE GetReturns(t)
        BY <4>4 DEF GetReturns, Idle
      <4> QED
        BY <2>14, <4>1, <4>2, <4>3, <4>4, ZenonT(30)
    <3>2. \A locals : locals.pc \in {"idle", "look", "search", "got"} => Fine(locals)
      BY ZenonT(30)
    <3> HIDE DEF Fine
    <3>3. UNCHANGED <<loop_cp, checkpoint>>
      BY <2>14, Zenon DEF GetFromMemTable, GetSnapshot, GetFromSSTable, GetReturns, loopVars
    <3> QED
      BY <1>7, <3>1, <3>2, <3>3, SMTT(30)
  <2>15. CASE Destroy(t) \/ JoinThenFlush(t)
    <3>1. Fine([pc |-> "join"]) /\ Fine([pc |-> "gone"]) /\ Fine([pc |-> "swap", ack |-> {}])
      BY ZenonT(30)
    <3> HIDE DEF Fine
    <3> QED
      BY <1>7, <2>15, <3>1, ZenonT(30) DEF Destroy, JoinThenFlush, loopVars
  <2> QED
    BY <1>12, <2>2, <2>3, <2>6, <2>7, <2>8, <2>9, <2>10, <2>11, <2>12, <2>13, <2>14, <2>15,
       ZenonT(30)
    DEF ClientStep
<1> QED
  BY <1>8, <1>9, <1>10, <1>11, <1>12, ZenonT(30) DEF EngineNext

\* As long as no append failed and no record was torn, the log never hands out an
\* LSN that recovery would take for flushed (NewWritesAreReplayed): for any
\* number of threads, flushes, compactions, failing SSTables and checkpoints and
\* records over 64 MB, over any restarts and crashes (wal.cpp, Open;
\* storage_engine.cpp, FlushMemTable and the compaction thread).
THEOREM NewWritesAlwaysReplayed == EngineSpec => []NewWritesAreReplayed
<1>1. AheadInv => NewWritesAreReplayed
  <2> SUFFICES ASSUME AheadInv, Intact, write_file = "good"
               PROVE  checkpoint.last_flushed_lsn < next_sequence_number
    BY ZenonT(30) DEF NewWritesAreReplayed, AheadInv, Intact, NoneTorn
  <2>1. next_sequence_number = Len(wal_file) + 1 /\ Len(wal_file) \in Nat
    BY DEF AheadInv, NumbersInv, WALInv, WALTypeOK
  <2>2. checkpoint.last_flushed_lsn \in 0 .. Len(wal_file)
    BY ZenonT(30) DEF AheadInv, CapturedInv
  <2> QED
    BY <2>1, <2>2
<1>2. AheadInv /\ [EngineNext]_engineVars => AheadInv'
  <2> SUFFICES ASSUME AheadInv, [EngineNext]_engineVars PROVE AheadInv'
    BY ZenonT(30)
  <2>1. [WALStep]_walVars /\ power_losses' = 0
    BY EngineStepIsLogStep, ZenonT(30) DEF AheadInv
  <2>2. WALInv' /\ NumbersInv'
    BY <2>1, WALInvNext, NumbersInvNext, ZenonT(30) DEF AheadInv
  <2>3. WritesCounted' /\ DOMAIN call' = Thread
    BY WritesCountedNext, CallsNext, ZenonT(30) DEF AheadInv
  <2>4. CapturedInv'
    BY CapturedNext, ZenonT(30)
  <2> QED
    BY <2>1, <2>2, <2>3, <2>4, ZenonT(30) DEF AheadInv
<1> QED
  BY <1>1, <1>2, AheadInvInit, PTL DEF EngineSpec
=============================================================================
