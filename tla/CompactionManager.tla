-------------------------- MODULE CompactionManager --------------------------
(***************************************************************************)
(* The catalogue of SSTables and leveled compaction, src/storage/compaction.*)
(*                                                                         *)
(* A key is a number, ordered as the strings are, and 0 is the empty       *)
(* string.  An SSTable is the function from its keys to their versions; a  *)
(* path is <<level, number>>.  `disk' has what was written under each      *)
(* path; a write that failed leaves nothing there, for SSTableReader::Open *)
(* rejects a file that was only partly written.  The flush that ends a     *)
(* write is not looked at, so it may fail with the write reported as a     *)
(* success: such a file is `damaged', and `disk' has what should be in it. *)
(* The size of a file is its number of entries.                            *)
(*                                                                         *)
(* RunCompaction runs under compaction_mutex_, its accesses to the         *)
(* catalogue under catalogue_mutex_ one at a time.  Between them flushes   *)
(* may call AddFile, so each is a step here, except that PickCompactionLevel*)
(* and SelectCompactionFiles are one: flushes only add to level 0, of      *)
(* which either everything is taken or nothing is looked at again.         *)
(***************************************************************************)
EXTENDS Integers, Sequences, FiniteSets, FiniteSetsExt, Functions

CONSTANTS
  Key,                       \* keys, a set of naturals
  Version,                   \* what a key maps to: [id, kind]
  max_level,                 \* max_level_
  kLevel0CompactionTrigger,
  kLevel1MaxBytes,
  kLevelMultiplier,
  MaxOutputs,                \* bound of the runs: files one merge is split into
  MaxIoErrors                \* bound of the runs: reads and writes that fail

ASSUME CompactionConstants ==
  /\ Key \subseteq Nat
  /\ Version \subseteq [id : Nat, kind : {"put", "delete"}]
  /\ max_level \in Nat /\ max_level >= 2
  /\ {kLevel0CompactionTrigger, kLevel1MaxBytes, kLevelMultiplier} \subseteq Nat \ {0}
  /\ {MaxOutputs, MaxIoErrors} \subseteq Nat

VARIABLES
  files,             \* files_, the catalogue
  disk,              \* the .sst files
  damaged,           \* the paths of those that cannot be read
  next_file_number,  \* next_file_number_
  step,              \* where RunCompaction is: "idle", "merge", "add", "remove", "unlink"
  target_level,      \* the level it merges into
  all_inputs,        \* its input files that are not yet deleted
  new_files,         \* its output files that are not yet in the catalogue
  io_errors          \* history: reads and writes that failed

jobVars == <<step, target_level, all_inputs, new_files>>
compactionVars == <<files, disk, damaged, next_file_number, jobVars, io_errors>>

EmptyKey == 0

Path == (0 .. max_level - 1) \X Nat

Table == UNION {[K -> Version] : K \in {S \in SUBSET Key : IsFiniteSet(S)}}

\* Catalogue entries.  files_ is a vector and may list a path more than once;
\* `copy' tells such entries apart.
SSTableMeta ==
  [filepath : Path, level : 0 .. max_level - 1, smallest_key : Nat, largest_key : Nat,
   file_size_bytes : Nat, sequence_number : Nat, copy : Nat]

OverlapsWith(f, lo, hi) == ~ (f.largest_key < lo \/ f.smallest_key > hi)

MaxBytesForLevel(level) == kLevel1MaxBytes * kLevelMultiplier ^ (level - 1)
----------------------------------------------------------------------------
(* The catalogue.                                                          *)

AddFile(meta) ==
  files' = files \cup
    {[meta EXCEPT !.copy = Cardinality({f \in files : f.filepath = meta.filepath})]}

RemoveFile(filepath) == files' = {f \in files : f.filepath # filepath}

GetFilesAtLevel(level) == {f \in files : f.level = level}

TotalBytesAtLevel(level) ==
  MapThenSumSet(LAMBDA f : f.file_size_bytes, GetFilesAtLevel(level))

\* The level to compact, or -1.  Level 0 goes by its number of files, the
\* others by their size, and the last is never a source.
PickCompactionLevel ==
  LET tooBig == {level \in 1 .. max_level - 2 :
                   TotalBytesAtLevel(level) > MaxBytesForLevel(level)}
  IN  IF Cardinality(GetFilesAtLevel(0)) >= kLevel0CompactionTrigger THEN 0
      ELSE IF tooBig # {} THEN Min(tooBig) ELSE -1

NeedsCompaction == PickCompactionLevel # -1

\* Older files of a level first.
SearchedOldestFirst(a, b) ==
  \/ a.level < b.level
  \/ a.level = b.level /\ a.sequence_number < b.sequence_number

\* The order in which a lookup goes through the catalogue (GetFromSSTables).
SearchedBefore(a, b) ==
  \/ a.level < b.level
  \/ a.level = b.level /\ a.sequence_number > b.sequence_number
----------------------------------------------------------------------------
(* RunCompaction: choosing the input.                                      *)

\* The orders std::sort may leave: files with equal smallest keys go either way.
SortOrders(S) ==
  {rank \in Bijection(S, 1 .. Cardinality(S)) :
     \A a, b \in S : a.smallest_key < b.smallest_key => rank[a] < rank[b]}

\* All of level 0, or the first file of a deeper level.
SourceChoices(level) ==
  LET L == GetFilesAtLevel(level)
  IN  IF level = 0 THEN {L}
      ELSE {{f} : f \in {g \in L : \A h \in L : g.smallest_key <= h.smallest_key}}

\* Only the files of the source level, as if nothing overlapped.
NoOverlapping(source, level) == {}

\* The files of the next level that overlap the key range of the sources.
Overlapping(source, level) ==
  LET lo == Min({f.smallest_key : f \in source})
      hi == Max({f.largest_key : f \in source})
  IN  {f \in GetFilesAtLevel(level + 1) : OverlapsWith(f, lo, hi)}

\* The merge precedence: sources get total, total - 1, ... in key order, the
\* files of the target level 0, 1, ...
Numbered(source, target, rankS, rankT) ==
  LET total == Cardinality(source) + Cardinality(target)
  IN  {[f EXCEPT !.sequence_number = total - (rankS[f] - 1)] : f \in source}
        \cup {[f EXCEPT !.sequence_number = rankT[f] - 1] : f \in target}

SelectCompactionFiles ==
  /\ step = "idle"
  /\ NeedsCompaction
  /\ \E source \in SourceChoices(PickCompactionLevel) :
       LET target == Overlapping(source, PickCompactionLevel)
       IN  \E rankS \in SortOrders(source), rankT \in SortOrders(target) :
             all_inputs' = Numbered(source, target, rankS, rankT)
  /\ target_level' = PickCompactionLevel + 1
  /\ step' = "merge"
  /\ UNCHANGED <<files, disk, damaged, next_file_number, new_files, io_errors>>
----------------------------------------------------------------------------
(* RunCompaction: MergeFiles.  The inputs are complete files that nothing  *)
(* rewrites, and no one looks at an output before it is in the catalogue,  *)
(* so reading the inputs, merging and writing the outputs is one step.     *)

Has(f, k) == k \in DOMAIN disk[f.filepath]

\* The input whose version of k the heap yields first.
Winner(k) ==
  CHOOSE f \in all_inputs :
    Has(f, k) /\ \A g \in all_inputs : Has(g, k) => g.sequence_number <= f.sequence_number

\* Tombstones dropped at every level.
MergedKeysNoTombstones ==
  {k \in (UNION {DOMAIN disk[f.filepath] : f \in all_inputs}) \ {EmptyKey} :
     disk[Winner(k).filepath][k].kind # "delete"}

\* What the merge emits: one version for each key.  last_emitted_key starts
\* as the empty string, so the empty key is taken for a duplicate; tombstones
\* end at the bottom level.
MergedKeys ==
  {k \in (UNION {DOMAIN disk[f.filepath] : f \in all_inputs}) \ {EmptyKey} :
     ~ (/\ target_level = max_level - 1
        /\ disk[Winner(k).filepath][k].kind = "delete")}

Merged == [k \in MergedKeys |-> disk[Winner(k).filepath][k]]

\* The ways a split at the size limit deals the keys out to m files, in order.
Splits(m) ==
  {part \in Surjection(MergedKeys, 1 .. m) :
     \A a, b \in MergedKeys : a < b => part[a] <= part[b]}

PartKeys(part, j) == {k \in MergedKeys : part[k] = j}

OutputPath(j) == <<target_level, next_file_number + j - 1>>

\* The range is not extended while keys are added to the file.
OutputMetaFirstKey(part, j, size) ==
  [filepath |-> OutputPath(j), level |-> target_level,
   smallest_key |-> Min(PartKeys(part, j)), largest_key |-> Min(PartKeys(part, j)),
   file_size_bytes |-> size,
   sequence_number |-> next_file_number + j, copy |-> 0]

OutputMeta(part, j, size) ==
  [filepath        |-> OutputPath(j),
   level           |-> target_level,
   smallest_key    |-> Min(PartKeys(part, j)),
   largest_key     |-> Max(PartKeys(part, j)),
   file_size_bytes |-> size,
   sequence_number |-> next_file_number + j,
   copy            |-> 0]

\* The disk once the first m outputs are written.
WithOutputs(part, m) ==
  [p \in DOMAIN disk \cup {OutputPath(j) : j \in 1 .. m} |->
     IF p \in {OutputPath(j) : j \in 1 .. m}
     THEN [k \in PartKeys(part, p[2] - next_file_number + 1) |-> Merged[k]]
     ELSE disk[p]]

\* The sizes that the m files may have: the flush of one in `lost' failed, and
\* any part of it is on disk.
OutputSizes(part, m, lost) ==
  {size \in [1 .. m -> 0 .. Cardinality(MergedKeys)] :
     \A j \in 1 .. m : LET all == Cardinality(PartKeys(part, j))
                       IN  size[j] <= all /\ (j \notin lost => size[j] = all)}

\* The paths without a readable file once the m outputs are written.
DamagedBy(m, lost) ==
  (damaged \ {OutputPath(j) : j \in 1 .. m}) \cup {OutputPath(j) : j \in lost}

Unreadable(d, filepath) == [p \in DOMAIN d \ {filepath} |-> d[p]]

CanRead(f) == f.filepath \in DOMAIN disk \ damaged

InputsReadable == \A f \in all_inputs : CanRead(f)

\* The batch that is left when the heap is empty is not reported.
MergeFilesButLast ==
  /\ step = "merge"
  /\ InputsReadable
  /\ \E m \in 0 .. MaxOutputs : \E part \in Splits(m) :
       /\ disk' = WithOutputs(part, m)
       /\ damaged' = DamagedBy(m, {})
       /\ new_files' = {OutputMeta(part, j, Cardinality(PartKeys(part, j))) : j \in 1 .. m - 1}
       /\ next_file_number' = next_file_number + m + 1
  /\ step' = IF new_files' = {} THEN "remove" ELSE "add"
  /\ UNCHANGED <<files, target_level, all_inputs, io_errors>>

\* The flushes that end the writing of the outputs in `lost' fail unnoticed.
MergeFiles ==
  /\ step = "merge"
  /\ InputsReadable
  /\ \E m \in 0 .. MaxOutputs : \E part \in Splits(m), lost \in SUBSET (1 .. m) :
       /\ disk' = WithOutputs(part, m)
       /\ damaged' = DamagedBy(m, lost)
       /\ \E size \in OutputSizes(part, m, lost) :
            new_files' = {OutputMeta(part, j, size[j]) : j \in 1 .. m}
       /\ next_file_number' = next_file_number + m + 1
       /\ lost # {} => io_errors < MaxIoErrors
       /\ io_errors' = IF lost = {} THEN io_errors ELSE io_errors + 1
  /\ step' = IF new_files' = {} THEN "remove" ELSE "add"
  /\ UNCHANGED <<files, target_level, all_inputs>>

\* RunCompaction returns before the catalogue was touched.
JobGivenUp ==
  /\ step' = "idle"
  /\ all_inputs' = {}
  /\ UNCHANGED <<files, target_level, new_files>>

MergeReadFails ==
  /\ step = "merge"
  /\ \/ ~ InputsReadable /\ UNCHANGED io_errors
     \/ io_errors < MaxIoErrors /\ io_errors' = io_errors + 1
  /\ JobGivenUp
  /\ UNCHANGED <<disk, damaged, next_file_number>>

\* Writing ends at the j-th output: the ones before it are on disk.
WriteUpTo(part, j) ==
  /\ disk' = Unreadable(WithOutputs(part, j - 1), OutputPath(j))
  /\ damaged' = DamagedBy(j, {})

\* Writing the j-th output fails: the ones before it stay on disk, in no catalogue.
MergeWriteFails ==
  /\ step = "merge"
  /\ InputsReadable
  /\ io_errors < MaxIoErrors
  /\ io_errors' = io_errors + 1
  /\ \E m \in 1 .. MaxOutputs : \E part \in Splits(m), j \in 1 .. m :
       /\ WriteUpTo(part, j)
       /\ next_file_number' = next_file_number + j
  /\ JobGivenUp
----------------------------------------------------------------------------
(* RunCompaction: the catalogue, one call at a time.                       *)

\* Outputs are added in the order they were written.
AddOutput ==
  /\ step = "add"
  /\ \E meta \in new_files :
       /\ \A other \in new_files : meta.sequence_number <= other.sequence_number
       /\ AddFile(meta)
       /\ new_files' = new_files \ {meta}
  /\ step' = IF new_files' = {} THEN "remove" ELSE "add"
  /\ UNCHANGED <<disk, damaged, next_file_number, target_level, all_inputs, io_errors>>

\* all_inputs lists the sources first, by falling precedence, then the files
\* of the target level, by rising precedence.
ListedBefore(a, b) ==
  \/ a.level < b.level
  \/ a.level = b.level /\ a.level < target_level /\ a.sequence_number > b.sequence_number
  \/ a.level = b.level /\ a.level = target_level /\ a.sequence_number < b.sequence_number

FirstInput(f) ==
  f \in all_inputs /\ \A g \in all_inputs \ {f} : ListedBefore(f, g)

\* The input is deleted while the catalogue still lists it.
UnlinkBeforeRemove ==
  /\ step = "remove"
  /\ \E f \in all_inputs : FirstInput(f) /\ disk' = Unreadable(disk, f.filepath)
  /\ step' = "unlink"
  /\ UNCHANGED <<files, damaged, next_file_number, target_level, all_inputs, new_files,
                 io_errors>>

RemoveInput ==
  /\ step = "remove"
  /\ \E f \in all_inputs : FirstInput(f) /\ RemoveFile(f.filepath)
  /\ step' = "unlink"
  /\ UNCHANGED <<disk, damaged, next_file_number, target_level, all_inputs, new_files,
                 io_errors>>

UnlinkInput ==
  /\ step = "unlink"
  /\ \E f \in all_inputs :
       /\ FirstInput(f)
       /\ disk' = Unreadable(disk, f.filepath)
       /\ damaged' = damaged \ {f.filepath}
       /\ all_inputs' = all_inputs \ {f}
  /\ step' = IF all_inputs' = {} THEN "idle" ELSE "remove"
  /\ UNCHANGED <<files, next_file_number, target_level, new_files, io_errors>>
----------------------------------------------------------------------------
(* A level 0 file, as FlushMemTable names, writes and describes it.        *)

Level0Path(seq) == <<0, seq>>

\* The size of a level 0 file is never looked at: it is that of the table.
Level0Meta(seq, table, lo, hi) ==
  [filepath |-> Level0Path(seq), level |-> 0, smallest_key |-> lo, largest_key |-> hi,
   file_size_bytes |-> Cardinality(DOMAIN table), sequence_number |-> seq, copy |-> 0]

WithTable(filepath, table) ==
  [p \in DOMAIN disk \cup {filepath} |-> IF p = filepath THEN table ELSE disk[p]]

CompactionInit ==
  /\ files = {}
  /\ disk = <<>>
  /\ damaged = {}
  /\ next_file_number = 1
  /\ step = "idle"
  /\ target_level = 0
  /\ all_inputs = {}
  /\ new_files = {}
  /\ io_errors = 0

RunCompaction ==
  \/ SelectCompactionFiles
  \/ MergeFiles \/ MergeReadFails \/ MergeWriteFails
  \/ AddOutput \/ RemoveInput \/ UnlinkInput
============================================================================
