-------------------------------- MODULE WAL --------------------------------
(***************************************************************************)
(* The write-ahead log, src/storage/wal: one append-only file of records,  *)
(* each framed by a length and a CRC32 and stamped with a log sequence     *)
(* number (LSN).  Append, ReadAll and Sync run under the log's own mutex,  *)
(* so each is one step.                                                    *)
(*                                                                         *)
(* What is kept of a record is its LSN, its payload and whether it passes  *)
(* the length, CRC and deserialisation checks ("match").  A record of      *)
(* which only a part of the bytes reached the file does not; when other    *)
(* bytes follow it, its frame runs into them and the CRC does not match (a *)
(* CRC collision is not modelled).                                         *)
(***************************************************************************)
EXTENDS Integers, Sequences, FiniteSets, FiniteSetsExt

CONSTANTS
  WALPayload,      \* what a WALEntry carries besides its LSN (wal_entry.h)
  Oversized,       \* the payloads whose entry is over 64 MB
  MaxLsn,          \* bound of the runs: the largest LSN handed out
  MaxRecords,      \* bound of the runs: records put in the file
  MaxFaults,       \* bound of the runs: failing writes of the output stream
  MaxPowerLosses   \* bound of the runs: power losses

ASSUME WALConstants == Oversized \subseteq WALPayload

ASSUME WALBounds == 
  {MaxLsn, MaxRecords, MaxFaults, MaxPowerLosses} \subseteq Nat

VARIABLES
  wal_file,              \* the records in the file, in file order
  write_file,            \* the ofstream: "closed", "good", or "bad" once a write failed
  unflushed,             \* the record an unsuccessful flush left in the stream's buffer
  next_sequence_number,  \* next_sequence_number_
  acked,                 \* history: the records for which Append returned an LSN
  faults,                \* history: failing writes so far
  power_losses           \* history: power losses so far

walVars == <<wal_file, write_file, unflushed, next_sequence_number, acked,
             faults, power_losses>>

WALRecord == [lsn : Nat, payload : WALPayload, crc : {"match", "mismatch"}]
----------------------------------------------------------------------------
(* Reading.  Open and ReadAll scan from the first record and stop at the   *)
(* first one that fails a check.  Only ReadAll also stops at a record over *)
(* 64 MB, which Append writes like any other.                              *)

\* The positions of the records that the scan of Open meets.
Scanned(file) == {i \in DOMAIN file : \A j \in 1 .. i : file[j].crc = "match"}

\* ReadAll stops at the record.
Stops(r) == r.crc = "mismatch" \/ r.payload \in Oversized

\* The positions of the entries ReadAll returns.
Readable(file) == {i \in DOMAIN file : \A j \in 1 .. i : ~ Stops(file[j])}

\* Open that scans the file as ReadAll does.
NextSeqReadable(file) == 1 + Max({0} \cup {file[i].lsn : i \in Readable(file)})

\* The largest LSN the scan of Open meets (0 when it meets none), plus one.
NextSeq(file) == 1 + Max({0} \cup {file[i].lsn : i \in Scanned(file)})

\* The number that the next entry will get.
not_yet_used_number == next_sequence_number

current_sequence_number == next_sequence_number - 1

Stamped(p) == [lsn |-> next_sequence_number, payload |-> p, crc |-> "match"]

Torn(r) == [r EXCEPT !.crc = "mismatch"]

\* The bytes a failed or interrupted write leaves: none of the record, or a part.
PartlyWritten(r) == {wal_file, Append(wal_file, Torn(r))}
----------------------------------------------------------------------------
WALInit ==
  /\ wal_file = <<>>
  /\ write_file = "closed"
  /\ unflushed = <<>>
  /\ next_sequence_number = 1
  /\ acked = <<>>
  /\ faults = 0
  /\ power_losses = 0

\* Open that numbers from one whatever the file holds.
OpenWithoutScan ==
  /\ write_file = "closed"
  /\ write_file' = "good"
  /\ next_sequence_number' = 1
  /\ UNCHANGED <<wal_file, unflushed, acked, faults, power_losses>>

\* Open that truncates the file instead of opening it for appending.
OpenTruncating ==
  /\ write_file = "closed"
  /\ write_file' = "good"
  /\ next_sequence_number' = NextSeq(wal_file)
  /\ wal_file' = <<>>
  /\ UNCHANGED <<unflushed, acked, faults, power_losses>>

\* Open scans the file for the largest LSN and appends behind whatever is
\* there, a torn record included.
WALOpen ==
  /\ write_file = "closed"
  /\ write_file' = "good"
  /\ next_sequence_number' = NextSeq(wal_file)
  /\ UNCHANGED <<wal_file, unflushed, acked, faults, power_losses>>

\* Append that leaves the record in the stream's buffer.
AppendWithoutFlush(p) ==
  /\ write_file = "good"
  /\ next_sequence_number' = next_sequence_number + 1
  /\ unflushed' = <<Stamped(p)>>
  /\ acked' = Append(acked, Stamped(p))
  /\ UNCHANGED <<wal_file, write_file, faults, power_losses>>

\* Append writes and flushes the record and returns its LSN.
AppendOk(p) ==
  /\ write_file = "good"
  /\ next_sequence_number' = next_sequence_number + 1
  /\ wal_file' = Append(wal_file, Stamped(p))
  /\ acked' = Append(acked, Stamped(p))
  /\ UNCHANGED <<write_file, unflushed, faults, power_losses>>

\* The record fits the stream's buffer, so write() succeeds; flush() then
\* fails, and Append does not look at the stream again: it returns the LSN.
AppendFlushFails(p) ==
  /\ write_file = "good"
  /\ faults < MaxFaults
  /\ next_sequence_number' = next_sequence_number + 1
  /\ wal_file' \in PartlyWritten(Stamped(p))
  /\ unflushed' = <<Stamped(p)>>
  /\ write_file' = "bad"
  /\ acked' = Append(acked, Stamped(p))
  /\ faults' = faults + 1
  /\ UNCHANGED power_losses

\* The record is written through and write() itself fails: an error, with
\* the LSN used up and the stream failed until the log is opened again.
AppendWriteFails(p) ==
  /\ write_file = "good"
  /\ faults < MaxFaults
  /\ next_sequence_number' = next_sequence_number + 1
  /\ wal_file' \in PartlyWritten(Stamped(p))
  /\ write_file' = "bad"
  /\ faults' = faults + 1
  /\ UNCHANGED <<unflushed, acked, power_losses>>

\* A failed stream ignores write(): every further Append is an error and
\* still uses up an LSN.
AppendOnBadStream ==
  /\ write_file = "bad"
  /\ next_sequence_number' = next_sequence_number + 1
  /\ UNCHANGED <<wal_file, write_file, unflushed, acked, faults, power_losses>>

\* Append as its callers see it: an LSN ("ok") or an error status.
WALAppend(p, result) ==
  \/ result = "ok" /\ (AppendOk(p) \/ AppendFlushFails(p))
  \/ result = "error" /\ (AppendWriteFails(p) \/ AppendOnBadStream)

\* A flush of the buffer an earlier failure left: it may reach the file now.
RetryBuffer ==
  \/ UNCHANGED <<wal_file, unflushed>>
  \/ wal_file' = wal_file \o unflushed /\ unflushed' = <<>>

\* Sync.  With a good stream the buffer is empty and nothing changes.
WALSync ==
  /\ write_file = "bad"
  /\ RetryBuffer
  /\ UNCHANGED <<write_file, next_sequence_number, acked, faults, power_losses>>

\* The destructor flushes and closes the stream.
WALClose ==
  /\ write_file # "closed"
  /\ write_file' = "closed"
  /\ wal_file' \in {wal_file, wal_file \o unflushed}
  /\ unflushed' = <<>>
  /\ next_sequence_number' = 1
  /\ UNCHANGED <<acked, faults, power_losses>>

\* What a crash of the process leaves of the log object: nothing.
LogObjectGone ==
  /\ write_file # "closed"
  /\ write_file' = "closed"
  /\ unflushed' = <<>>
  /\ next_sequence_number' = 1
  /\ UNCHANGED acked

\* The process dies outside Append: what was flushed is in the file.
WALCrash == LogObjectGone /\ UNCHANGED <<wal_file, faults, power_losses>>

\* The process dies inside Append: none, a part or all of the record is there.
WALCrashInAppend(p) ==
  /\ write_file = "good"
  /\ wal_file' \in PartlyWritten(Stamped(p)) \cup {Append(wal_file, Stamped(p))}
  /\ LogObjectGone
  /\ UNCHANGED <<faults, power_losses>>

\* Power is lost.  Nothing ever calls fsync, so any suffix may be gone, the
\* first record of it in part.
WALPowerLoss ==
  /\ power_losses < MaxPowerLosses
  /\ \E n \in 0 .. Len(wal_file) :
       \/ wal_file' = SubSeq(wal_file, 1, n)
       \/ /\ n < Len(wal_file)
          /\ wal_file' = Append(SubSeq(wal_file, 1, n), Torn(wal_file[n + 1]))
  /\ LogObjectGone
  /\ power_losses' = power_losses + 1
  /\ UNCHANGED faults

\* What may happen to the log, whatever its length.
WALStep ==
  \/ WALOpen
  \/ \E p \in WALPayload :
       \/ \E result \in {"ok", "error"} : WALAppend(p, result)
       \/ WALCrashInAppend(p)
  \/ WALSync
  \/ WALClose
  \/ WALCrash
  \/ WALPowerLoss

LogSpec == WALInit /\ [][WALStep]_walVars

WALNext ==
  /\ WALStep
  /\ next_sequence_number' <= MaxLsn + 1
  /\ Len(wal_file') <= MaxRecords

WALSpec == WALInit /\ [][WALNext]_walVars
----------------------------------------------------------------------------
(* Properties.                                                             *)

\* Types of the log's state (wal.h, wal_entry.h).
WALTypeOK ==
  /\ wal_file \in Seq(WALRecord)
  /\ write_file \in {"closed", "good", "bad"}
  /\ unflushed \in Seq(WALRecord) /\ Len(unflushed) <= 1
  /\ next_sequence_number \in Nat \ {0}
  /\ acked \in Seq(WALRecord)
  /\ faults \in Nat
  /\ power_losses \in Nat

\* The entries ReadAll returns carry strictly increasing LSNs, whatever
\* crashes, torn records, failed writes, restarts and power losses came
\* before.  Recovery's "skip every LSN up to last_flushed_lsn" relies on it.
LsnIncreasing ==
  \A i, j \in Readable(wal_file) : i < j => wal_file[i].lsn < wal_file[j].lsn

\* Every entry for which Append returned an LSN is in the file, as long as no
\* write failed and power was not lost, and ReadAll returns it unless it is
\* over 64 MB itself or stands behind a record that is, or that a crash inside
\* Append tore.
AckedReadable ==
  (faults = 0 /\ power_losses = 0)
    => \A a \in DOMAIN acked :
         \E i \in DOMAIN wal_file :
           /\ wal_file[i] = acked[a]
           /\ i \in Readable(wal_file) \/ \E j \in 1 .. i : Stops(wal_file[j])

\* No step but a power loss takes an entry back from what ReadAll returns or
\* changes one: the recoverable log only grows at its end.
ReadableLogGrows ==
  [][power_losses' = power_losses =>
       /\ Readable(wal_file) \subseteq Readable(wal_file')
       /\ \A i \in Readable(wal_file) : wal_file'[i] = wal_file[i]]_walVars

(* What the comments and documents say of the log and the code does not do. *)

\* ReadAll returns every acknowledged entry.
AckedAreRead == \A a \in DOMAIN acked : \E i \in Readable(wal_file) : wal_file[i] = acked[a]

NoneTorn == \A i \in DOMAIN wal_file : wal_file[i].crc = "match"
NoneOversized == \A i \in DOMAIN wal_file : wal_file[i].payload \notin Oversized

\* wal.h: ReadAll "Stops at the first corrupted/partial entry (truncates
\* it)".  If it did, an acknowledged entry could not be lost behind a torn one.
TornTailTruncated == faults = 0 /\ power_losses = 0 /\ NoneOversized => AckedAreRead

\* wal.cpp: a record over 64 MB is "Corrupted", though Append acknowledged it.
AckedIsNotCorrupted == faults = 0 /\ power_losses = 0 /\ NoneTorn => AckedAreRead

\* wal/README.md: the LSN "uniquely identifies a mutation".
LsnUnique ==
  (faults = 0 /\ power_losses = 0)
    => \A a, b \in DOMAIN acked : acked[a].lsn = acked[b].lsn => a = b

\* wal.h: Append "fsyncs to disk", so an acknowledged entry outlives a power loss.
AckedSurvivesPowerLoss == faults = 0 /\ NoneTorn /\ NoneOversized => AckedAreRead

\* wal.cpp: the flush that ends Append is there "to guarantee durability".
AckedIsFlushed == power_losses = 0 /\ NoneTorn /\ NoneOversized => AckedAreRead
============================================================================
