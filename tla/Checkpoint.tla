----------------------------- MODULE Checkpoint -----------------------------
(***************************************************************************)
(* The checkpoint manager, src/storage/checkpoint, down to its two files:  *)
(* the checkpoint and the temporary file that is renamed over it.  Several *)
(* threads of the engine (the flushing clients and the compaction thread)  *)
(* save checkpoints; the process or the machine may die at any step.  What *)
(* the checkpoints are is the subject of module StorageEngine.             *)
(***************************************************************************)
EXTENDS Serialization, SequencesExt

CONSTANTS
  Saver,         \* threads that call SaveCheckpoint
  Checkpoints,   \* the checkpoints they save
  PowerLosses    \* whether the machine may lose power

\* struct SSTableMeta, whose strings are sequences of characters
SSTableMeta ==
  [level : Nat, file_size_bytes : Nat, sequence_number : Nat,
   smallest_key : Seq(Nat), largest_key : Seq(Nat), filepath : Seq(Nat)]

\* struct Checkpoint
CheckpointRecord == [last_flushed_lsn : Nat, sstables : Seq(SSTableMeta)]

ASSUME CheckpointAssumptions ==
  /\ Checkpoints \subseteq CheckpointRecord
  /\ PowerLosses \in BOOLEAN

VARIABLES
  manifest,     \* MANIFEST.checkpoint
  temp,         \* MANIFEST.checkpoint.tmp
  engine,       \* "down", or "up" once Open has loaded the checkpoint
  mutex,        \* the threads inside mutex_
  save,         \* for each thread, where in SaveCheckpoint it is and with what
  older,        \* what MANIFEST.checkpoint may be after a power loss
  latest,       \* history: the checkpoint renamed last
  lost_power    \* history: power was lost since then

checkpointVars == <<manifest, temp, engine, mutex, save, older, latest, lost_power>>

NoFile == <<-1>>   \* not a buffer: cells are natural numbers
Empty == [last_flushed_lsn |-> 0, sstables |-> <<>>]
Error == [last_flushed_lsn |-> -1, sstables |-> <<>>]
NotSaving == [pc |-> "idle"]
----------------------------------------------------------------------------
(* The contents of the file.                                               *)

WriteMeta(buffer, meta) ==
  LET numbers == WriteUint(WriteUint(WriteUint(buffer, meta.level), meta.file_size_bytes),
                           meta.sequence_number)
  IN  WriteString(WriteString(WriteString(numbers, meta.smallest_key), meta.largest_key),
                  meta.filepath)

Serialized(c) ==
  LET upTo[n \in 0 .. Len(c.sstables)] ==
        IF n = 0 THEN WriteUint(WriteUint(<<>>, c.last_flushed_lsn), Len(c.sstables))
        ELSE WriteMeta(upTo[n - 1], c.sstables[n])
  IN  upTo[Len(c.sstables)]

ReadMeta(buffer, r) ==
  LET numbers == ReadUint(buffer, ReadUint(buffer, ReadUint(buffer, r)))
  IN  ReadString(buffer, ReadString(buffer, ReadString(buffer, numbers)))

\* The file of which the first i values are in v.
MetaAt(v, i) ==
  [level |-> v[i + 1], file_size_bytes |-> v[i + 2], sequence_number |-> v[i + 3],
   smallest_key |-> v[i + 4], largest_key |-> v[i + 5], filepath |-> v[i + 6]]

Parsed(file) ==
  LET header == ReadUint(file, ReadUint(file, Reader))
      num_files == IF header.ok THEN header.values[2] ELSE 0
      upTo[n \in 0 .. num_files] ==
        IF n = 0 THEN header ELSE ReadMeta(file, upTo[n - 1])
      r == upTo[num_files]
  IN  IF ~ r.ok THEN Error
      ELSE [last_flushed_lsn |-> r.values[1],
            sstables |-> [i \in 1 .. num_files |-> MetaAt(r.values, 6 * i - 4)]]

\* LoadCheckpoint.  There may be no checkpoint yet.
Loaded(file) == IF file = NoFile THEN Empty ELSE Parsed(file)
----------------------------------------------------------------------------
CheckpointInit ==
  /\ manifest = NoFile /\ temp = NoFile /\ older = {NoFile}
  /\ engine = "down"
  /\ mutex = {}
  /\ save = [s \in Saver |-> NotSaving]
  /\ latest = Empty
  /\ lost_power = FALSE

\* Recover.  When the checkpoint cannot be read, Open fails and nothing changes.
Start ==
  /\ engine = "down"
  /\ Loaded(manifest) # Error
  /\ engine' = "up"
  /\ UNCHANGED <<manifest, temp, mutex, save, older, latest, lost_power>>

Call(s, c) ==
  /\ engine = "up" /\ save[s].pc = "idle"
  /\ save' = [save EXCEPT ![s] = [pc |-> "lock", checkpoint |-> c]]
  /\ UNCHANGED <<manifest, temp, engine, mutex, older, latest, lost_power>>

\* SaveCheckpoint without its lock.
SkipLock(s) ==
  /\ save[s].pc = "lock"
  /\ mutex' = mutex \cup {s}
  /\ save' = [save EXCEPT ![s].pc = "open"]
  /\ UNCHANGED <<manifest, temp, engine, older, latest, lost_power>>

Lock(s) ==
  /\ save[s].pc = "lock"
  /\ mutex = {}
  /\ mutex' = {s}
  /\ save' = [save EXCEPT ![s].pc = "open"]
  /\ UNCHANGED <<manifest, temp, engine, older, latest, lost_power>>

\* With or without success; lock_guard leaves the mutex.
Returned(s) ==
  /\ save' = [save EXCEPT ![s] = NotSaving]
  /\ mutex' = mutex \ {s}

\* The temporary file is opened, and emptied.
OpenTemp(s) ==
  /\ save[s].pc = "open"
  /\ \/ /\ temp' = <<>>
        /\ save' = [save EXCEPT ![s].pc = "write"]
        /\ UNCHANGED mutex
     \/ Returned(s) /\ UNCHANGED temp
  /\ UNCHANGED <<manifest, engine, older, latest, lost_power>>

\* What an interrupted write leaves.
PartsOf(c) == Prefixes(Serialized(c))

WriteTemp(s) ==
  /\ save[s].pc = "write"
  /\ \/ /\ temp' = Serialized(save[s].checkpoint)
        /\ save' = [save EXCEPT ![s].pc = "rename"]
        /\ UNCHANGED mutex
     \/ /\ temp' \in PartsOf(save[s].checkpoint)
        /\ Returned(s)
  /\ UNCHANGED <<manifest, engine, older, latest, lost_power>>

\* rename() puts the temporary file in the checkpoint's place in one step.
RenameTemp(s) ==
  /\ save[s].pc = "rename"
  /\ \/ /\ temp # NoFile
        /\ manifest' = temp
        /\ temp' = NoFile
        /\ older' = older \cup {temp}
        /\ latest' = save[s].checkpoint
        /\ lost_power' = FALSE
     \/ UNCHANGED <<manifest, temp, older, latest, lost_power>>
  /\ Returned(s)
  /\ UNCHANGED engine

\* The process dies, perhaps in the middle of a write.
Crash ==
  /\ engine = "up"
  /\ engine' = "down"
  /\ \/ UNCHANGED temp
     \/ \E s \in Saver : /\ save[s].pc = "write"
                         /\ temp' \in PartsOf(save[s].checkpoint)
  /\ mutex' = {}
  /\ save' = [s \in Saver |-> NotSaving]
  /\ UNCHANGED <<manifest, older, latest, lost_power>>

\* Power is lost.  Nothing calls fsync, on the file or on its directory: the
\* renames since the last power loss may be undone, and of a renamed file any
\* part may be on the disk.
PowerLoss ==
  /\ PowerLosses
  /\ engine' = "down"
  /\ \E file \in older :
       manifest' \in IF file = NoFile THEN {NoFile} ELSE Prefixes(file)
  /\ older' = {manifest'}
  /\ temp' = NoFile
  /\ mutex' = {}
  /\ save' = [s \in Saver |-> NotSaving]
  /\ lost_power' = TRUE
  /\ UNCHANGED latest

CheckpointNext ==
  \/ Start
  \/ \E s \in Saver :
       \/ \E c \in Checkpoints : Call(s, c)
       \/ Lock(s) \/ OpenTemp(s) \/ WriteTemp(s) \/ RenameTemp(s)
  \/ Crash
  \/ PowerLoss

CheckpointSpec == CheckpointInit /\ [][CheckpointNext]_checkpointVars
----------------------------------------------------------------------------
(* Properties.                                                             *)

\* What was written in full is read back as it was (TestCheckpointSaveLoad).
Lossless == \A c \in Checkpoints : Serialized(c) # NoFile /\ Parsed(Serialized(c)) = c

\* LoadCheckpoint gives back, in full, the checkpoint that was renamed last,
\* whatever saves of other threads, failures and crashes of the process came
\* during and after it.
LoadsLatestSaved == ~ lost_power => Loaded(manifest) = latest

\* After a power loss LoadCheckpoint may fail or give back an older checkpoint,
\* but it never takes a part of a file for one: every field is read within the
\* buffer's bounds (CHECK_BOUNDS).
LoadsSavedOrFails == Loaded(manifest) \in Checkpoints \cup {Empty, Error}

(* What the documents say and the code does not do.                        *)

\* checkpoint/README.md: the temporary file is written, then "Run `fsync` to
\* guarantee it is on disk", so that a power loss leaves a checkpoint that loads.
SurvivesPowerLoss == Loaded(manifest) # Error
=============================================================================
