---------------------------- MODULE CompactionSpec ----------------------------
(***************************************************************************)
(* The compaction manager within one session of its user: flushes write a  *)
(* level 0 SSTable each, read its key range back and register it, while    *)
(* RunCompaction is called from the background thread.  A flush is the     *)
(* part of StorageEngine::FlushMemTable that touches the SSTables.         *)
(***************************************************************************)
EXTENDS CompactionManager

CONSTANTS
  MaxFlushes,   \* bound of the runs: level 0 files written
  MaxPending    \* bound of the runs: flushes under way at the same time

ASSUME FlushBounds == {MaxFlushes, MaxPending} \subseteq Nat

VARIABLES
  next_sst_sequence,  \* next_sst_sequence_
  pending,            \* the files that are written and not yet registered
  unranged            \* history: new files whose key range could not be read

specVars == <<compactionVars, next_sst_sequence, pending, unranged>>

\* The memtable is written under the next sequence number and its key range
\* read back; when the read fails the range stays that of the empty string.  It
\* fails for good when the flush that ended the writing failed unnoticed.
FlushWrite(table) ==
  LET filepath == Level0Path(next_sst_sequence)
      Ranged(lo, hi) == pending' = pending \cup {Level0Meta(next_sst_sequence, table, lo, hi)}
  IN  /\ DOMAIN table # {}
      /\ disk' = WithTable(filepath, table)
      /\ next_sst_sequence' = next_sst_sequence + 1
      /\ \/ /\ Ranged(Min(DOMAIN table), Max(DOMAIN table))
            /\ damaged' = damaged \ {filepath}
            /\ UNCHANGED <<io_errors, unranged>>
         \/ /\ io_errors < MaxIoErrors
            /\ Ranged(EmptyKey, EmptyKey)
            /\ damaged' \in {damaged \ {filepath}, damaged \cup {filepath}}
            /\ io_errors' = io_errors + 1
            /\ unranged' = unranged + 1
      /\ UNCHANGED <<files, next_file_number, jobVars>>

\* The write fails: the sequence number is used up.
FlushWriteFails ==
  /\ io_errors < MaxIoErrors
  /\ next_sst_sequence' = next_sst_sequence + 1
  /\ disk' = Unreadable(disk, Level0Path(next_sst_sequence))
  /\ damaged' = damaged \ {Level0Path(next_sst_sequence)}
  /\ io_errors' = io_errors + 1
  /\ UNCHANGED <<files, next_file_number, jobVars, pending, unranged>>

FlushAdd(meta) ==
  /\ AddFile(meta)
  /\ pending' = pending \ {meta}
  /\ UNCHANGED <<disk, damaged, next_file_number, jobVars, io_errors, next_sst_sequence,
                 unranged>>

Compact ==
  /\ RunCompaction
  /\ UNCHANGED <<next_sst_sequence, pending, unranged>>

Init ==
  /\ CompactionInit
  /\ next_sst_sequence = 1
  /\ pending = {}
  /\ unranged = 0

MayFlush == next_sst_sequence <= MaxFlushes /\ Cardinality(pending) < MaxPending

Next ==
  \/ Compact
  \/ MayFlush /\ \E table \in Table : FlushWrite(table)
  \/ MayFlush /\ FlushWriteFails
  \/ \E meta \in pending : FlushAdd(meta)

Spec == Init /\ [][Next]_specVars
----------------------------------------------------------------------------
(* Properties.                                                             *)

\* Types of the catalogue, the disk and the job (compaction_manager.h).
TypeOK ==
  /\ files \in SUBSET SSTableMeta /\ IsFiniteSet(files)
  /\ DOMAIN disk \subseteq Path /\ \A p \in DOMAIN disk : disk[p] \in Table
  /\ damaged \subseteq Path
  /\ next_file_number \in Nat \ {0}
  /\ step \in {"idle", "merge", "add", "remove", "unlink"}
  /\ target_level \in 0 .. max_level - 1
  /\ all_inputs \in SUBSET SSTableMeta
  /\ new_files \in SUBSET SSTableMeta
  /\ io_errors \in Nat
  /\ next_sst_sequence \in Nat \ {0}
  /\ pending \in SUBSET SSTableMeta
  /\ unranged \in Nat

\* Every file of the catalogue is on disk, whatever a compaction writes, adds,
\* removes and deletes at the time, and can be read unless a flush of its own
\* failed; no path is listed twice.
CatalogueOnDisk ==
  /\ \A f \in files : f.filepath \in DOMAIN disk /\ (~ CanRead(f) => io_errors > 0)
  /\ \A f, g \in files : f.filepath = g.filepath => f = g

\* Below level 0, the files of a level do not overlap once a compaction is
\* through (leveled_compaction.h), if every new file's key range could be read.
LevelsDisjoint ==
  (unranged = 0 /\ step \in {"idle", "merge"})
    => \A f, g \in files :
         (f.level = g.level /\ f.level > 0 /\ f # g)
           => ~ OverlapsWith(f, g.smallest_key, g.largest_key)

\* What a lookup can find in a catalogued file it does find: the range check
\* never hides a key that the file holds (GetFromSSTables).
RangesCoverKeys ==
  unranged = 0
    => \A f \in files : \A k \in DOMAIN disk[f.filepath] :
         f.smallest_key <= k /\ k <= f.largest_key

(* What a comment says and the code does not do.                           *)

\* leveled_compaction.h: levels below 0 are "Fully sorted, non-overlapping",
\* with no proviso that reading a new file back succeeded.
DeepLevelsDisjoint ==
  step = "idle"
    => \A f, g \in files :
         (f.level = g.level /\ f.level > 0 /\ f # g)
           => ~ OverlapsWith(f, g.smallest_key, g.largest_key)

\* sstable/README.md: a file is "the final resting place for data", so that what
\* is registered, with its memtable or the inputs of its merge gone, can be read.
RegisteredCanBeRead == \A f \in files : CanRead(f)
=============================================================================
