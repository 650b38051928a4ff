# A TLA+ model of VectorDB

This directory holds TLA+ modules for the code under `src/`, TLC configurations
that check them on small instances, and TLAPS proofs of what should hold for
every instance. `PROJECT.json` maps each definition to the lines it models and
lists runs, mutants, hazards, findings and theorems.

Paths below are relative to the repository's `src/` directory unless they start
with `tests/`.

## 1. Inventory of the system

The root README describes a distributed vector database. What exists as code is
a storage engine, a library of common parts, and the state of one Raft node.

| Part | State | Operations | What makes it hard |
|---|---|---|---|
| Write-ahead log `storage/wal` | file, stream, next LSN | Open (scan), Append, ReadAll, Sync, destructor | crash in an append, torn tail, failing writes, stream buffer, no fsync, ReadAll's limit of 64 MB that Append and Open do not have |
| Storage engine `storage/engine` | active memtable, catalogue, checkpoint, counters | Open, Put, Delete, Get, FlushMemTable, CompactionLoop, destructor | four locks taken one after the other, a background thread, crashes between any two steps, restarts |
| Compaction `storage/compaction` | catalogue, next file number, files | AddFile, RemoveFile, AllFiles, NeedsCompaction, RunCompaction | catalogue changed one file at a time, merge order, failing reads and writes, a last flush that is not checked |
| Checkpoint, recovery | `MANIFEST.checkpoint` and its temporary file | SaveCheckpoint (temp file, rename), LoadCheckpoint, RecoverMemTable | two savers over one temporary file, crash in a write, power loss, truncated files, crash between deleting files and saving |
| MemTable, skip list `storage/memtable` | towers of pointers, byte count | Put, Delete, Get, Iterator | random heights, tombstones |
| SSTable `storage/sstable` | blocks, Bloom filter, index, footer | Write, Open, Get, ReadAll | block boundaries, two binary searches, hash collisions, partial writes |
| Block cache `storage/cache` | LRU list, map, byte count, hits, misses | Get (two locks), Put | gap between the locks, a race on a counter |
| HLC, clocks `common/clock` | one 64-bit word | Now, Update | clocks set back, late messages, overflow of two packed fields |
| Thread pool `common/thread_pool` | queue, stop flag, workers | Enqueue, worker loop, destructor | lost wake-ups, draining at shutdown |
| Raft state `raft/core` | role, term, vote, leader, callback | three transitions, GrantVote, LoadState, SetStateChangeCallback | any order of calls, callbacks set and taken away between them |
| Metrics `common/metrics` | registry, HTTP server, cached families | Initialize, Shutdown, AddCounter, AddGauge, AddHistogram | repeated calls, a server that cannot start, null pointers before Initialize, pointers kept over Shutdown |
| Serialization `common/serialization` | a buffer and an offset | WriteUint32/64, WriteString and their reads | truncated buffers |
| errors, configuration, logging, utilities | none that a result depends on | | not modelled |
| Raft log, election, replication; index, router, RPC, ML | no code | | not modelled |

Interactions: the engine owns a log, a memtable, a compaction manager and a
checkpoint file. A write goes to the log under `wal_mutex_`, then to the memtable
under `memtable_mutex_`. A full memtable is swapped out, written to a level 0
SSTable, registered with the compaction manager, and recorded in a checkpoint.
The background thread merges files and saves checkpoints too. `Open` loads the
checkpoint, registers its files and replays the log above the checkpoint's LSN.
The block cache, clocks, thread pool, Raft state and metrics are used by no other
code yet (the engine only computes a cache key), so each is modelled on its own.

## 2. Modules

| Module | Models | Remarks |
|---|---|---|
| `WAL` | the log | records are `[lsn, payload, crc]`; a torn or never completed record has `crc = "mismatch"`, and the payloads in `Oversized` are over 64 MB. `Readable` is what ReadAll returns, `Scanned` what Open's scan meets. `LogSpec` is the log of any length, `WALSpec` the same within TLC's bounds |
| `CompactionManager` | catalogue, triggers, selection, merge, RunCompaction | `step` says where RunCompaction is; each call under the catalogue's lock is a step. `damaged` has the paths of files whose last flush failed unnoticed |
| `CompactionSpec` | what the SSTables go through in one session | an abstract specification the engine implements |
| `CompactionAges` | | `CompactionSpec` with one flusher and the history of which version is the newest |
| `StorageEngine` | the engine, recovery, and when checkpoints are saved | extends `WAL` and `CompactionManager`: the three run together |
| `EngineTables` | | the engine as a user of the SSTables: the mapping to `CompactionSpec` |
| `KeyValueStore` | what `storage_engine.h` promises a client | an abstract specification the engine implements: a map that survives crashes |
| `Serialization`, `Checkpoint` | the encoding; the checkpoint manager down to its two files | `Checkpoint` uses the encoding; a buffer is a sequence of cells, one per number or character |
| `CompactionLoop` | the condition variable of the background thread | only its wake-ups; what a compaction does is in `CompactionManager` |
| `SkipList`, `SSTable` | memtable, and the file it is written to | `SSTable` extends `SkipList`: files are always written from an iterator |
| `BlockCache`, `HLC`, `ThreadPool`, `RaftState`, `MetricsRegistry` | the parts of these names | |
| `LogProofs`, `CompactionProofs`, `CheckpointProofs`, `ComponentProofs` | | theorems about the parts: the log and the engine's use of it; compaction; checkpoint files and the clock; Raft state, metrics, thread pool and block cache |
| `EngineTablesProofs`, `EngineFilesProofs`, `RecoveryProofs`, `KeyValueProofs` | | theorems about the engine: its SSTables as `CompactionSpec` has them; what its files keep; the steps of the engine and recovery (lemmas); recovery and the engine as a key-value store |
| `MC*` | | instances for TLC; `MCStandalone` has the six components that share nothing, one at a time |

How state and actions correspond to the code:

- **Step size.** A step is what a thread does under one lock, or in one call of a
  component that locks by itself. `call[t]` in `StorageEngine` is the position of
  a client thread and the locals it still needs: `WriteEntry` (log, under
  `wal_mutex_`), `ApplyToMemTable`, `SwapMemTable`, `CaptureFlushLsn`,
  `WriteLevel0`, `RegisterLevel0`, `CollectFiles`, `SaveFlushCheckpoint`; for a
  lookup `GetFromMemTable`, `GetSnapshot`, `GetFromSSTable`, `GetReturns`.
- **Data.** Keys are numbers in the order of the strings; 0 is the empty string.
  A value is a version `[id, kind]` where `id` is the order of writing and `kind`
  tells puts from deletes. File contents are functions from keys to versions.
  File sizes are numbers of keys. Where sizes decide (blocks, memory, cache) they
  are kept as small numbers.
- **Failures.** Each write, flush, read-back and rename that the code checks can
  fail. The flush that ends the writing of an SSTable is not checked
  (`sstable_writer.cpp:159`): when it fails the writer reports success, and the path
  is in `damaged` until it is written again. `Crash` may happen between any two steps,
  `CrashInAppend` in the middle of a record, `CrashInFlush` and `CrashInMerge` while an
  SSTable is written, which truncates whatever was under its path. `WALPowerLoss`
  loses a suffix of what was not synced. In `Checkpoint` a crash may come inside the
  write of the temporary file, and `PowerLoss` may undo renames and leave any prefix
  of a renamed file, since nothing is synced.
- **Undefined behaviour.** `BlockCache`: `misses_++` under a shared lock is a read
  and a write that other threads may come between. `MetricsRegistry`: an Add that
  goes through a null or a dead pointer may end the process (`AddEndsProcess`) or
  change nothing.
- **Left out.** `immutable_memtable_` is only ever null. The statistics, log
  messages and the byte encoding of log and SSTables are left out. In
  `StorageEngine` a checkpoint is a record that is replaced whole; that the two
  files amount to this without a power loss is what `Checkpoint` shows
  (`LoadsLatestSaved`).
- **Types.** Each module with state states its type invariant where it has one
  (`WALTypeOK`, `TypeOK`, `EngineTypeOK`, `RaftTypeOK`); those of the log and of
  the Raft state are proved, the others hold in the configurations of section 3
  and are not listed as properties of the runs.

## 3. Runs

Every run has its name, properties and purpose in `PROJECT.json`. State counts
are for two workers.

| Run | Instance | Checks |
|---|---|---|
| `compaction` | 2 keys, puts and tombstones, 3 flushes, 3 levels, trigger 1, up to 2 outputs, 1 I/O error (@compaction@) | catalogue on disk and readable, levels disjoint, ranges right, no key vanishes, newest version found |
| `engine_tables` | 2 threads, 1 key, 2 writes, trigger 1, 1 I/O error, 1 failed append (@engine_tables@) | the engine implements `CompactionSpec`; nothing acknowledged is dropped |
| `engine_restart` | 1 thread, 1 key, 3 writes, 2 flushes a session, 3 sessions, trigger 2, 1 failed append, oversized records, crashes everywhere (@engine_restart@) | no checkpoint is ahead of the log's next LSN |
| `engine_recover` | 1 thread, 2 keys, 3 writes, 2 flushes a session, 3 sessions, oversized and torn records, crashes in appends and flushes (@engine_recover@) | the engine implements `KeyValueStore`; recovery exact, checkpoint not ahead of the files |
| `loop` | 2 flushers, 5 flushes, trigger 2, any number of failures (@loop@) | the destructor returns; a full level 0 is compacted; failures are retried |
| `pool` | 2 workers, 2 clients, 3 tasks (@pool@) | order, draining, every task run, destructor returns |
| `sstable` | 3 keys, heights up to 3, all hash functions into 2 values (@sstable@) | skip list is a map with exact byte count; the file returns it |
| `standalone` | Log: 2 payloads, one of them over 64 MB, LSNs up to 4, 3 records, 1 failed write, 1 power loss. Checkpoint: 2 savers, checkpoints with 0, 1 and 2 files, empty keys included, any number of failures, crashes and power losses. Raft: 2 peers, 3 terms. Clock: 2 nodes, fields of 4 values each, clocks from 0 to 5, 4 events. Cache: 2 threads, 3 keys, sizes 1, 2 and 4 at capacity 3, 5 calls. Metrics: 2 names, 3 kinds, 3 registries (@standalone@ together) | order of LSNs, every acknowledged entry in the file and what may keep it from being read, the readable log only grows; the checkpoint that loads is the one renamed last, a torn file is refused; vote and term rules and what a listener knows; timestamps that follow the clock; byte count, LRU order, newest data, counted lookups; what is served is what is handed out |
| `engine_cplsn` | 1 thread, 3 writes, trigger 2 | expected violation of `FlushedLsnIsSafe`, see section 5 |
| `engine_deleted` | 1 thread, 1 key, 2 writes, 1 flush | expected violation of `DeletedIsNotFound`, see section 5 |
| `clock` | 2 nodes, fields of 4 values each, clocks from 25 to 27 (the readings of `PhysicalClock` are about 6.4 times the limit of their field) | expected violation of `CausallyOrdered`, see section 5 |
| `checkpoint_power` | as the checkpoint in `standalone` | expected violation of `SurvivesPowerLoss`, see section 5 |

**Why the bounds suffice for the cases of interest.** With trigger 1 and three
flushes, files reach the bottom level and newer versions meet older ones on each
level; with two outputs a merge splits. One fault of each kind at any place is
enough to leave every kind of debris. Three sessions let a log be written,
reopened, extended and reopened again. Fields of four values against readings
up to 5 make both clock fields overflow, and the physical one start over. A capacity of 3 against sizes 1, 2 and 4 gives exact fits,
evictions of several blocks and blocks that never fit. Two savers and three
checkpoints of different lengths are enough for one to rename what the other
truncated or half wrote, and every prefix of a file is tried as what a power loss
leaves. Three registries are two times Shutdown and Initialize. A block of nine bytes
takes two small entries, one medium entry, or is exceeded by a single large one.

**The proviso of `engine_recover`.** The run has restarts with flushes in every
session, torn and oversized records, and crashes inside writes, and its properties
hold in every state in which `Undisturbed` does: no access has failed, no record of the
log stops ReadAll, no compaction was begun and no flush took the path of an older
SSTable. Each of these conditions is the code's: without it a property of the run is
violated, as section 5 shows. So the properties say up to which event recovery is
exact. The run has one client thread and a trigger that no number of its flushes
reaches; two threads are in section 5.

**Deadlock** is not checked where the bound on calls ends every behaviour
(engine, compaction, `standalone`, `sstable`) or where the system has shut down
(loop, pool).

**Fairness.** `CompactionLoop`: weak fairness of the background thread's own
steps, of a flush that has registered its file, of the destructor, and of the
timeout of `wait_for`. The first three are threads that hold or can take the
mutex they need. The last is the five second timeout in the code; without it
`DestructorReturns` and `CompactionHappens` fail, because neither notifier holds the mutex and the
notification may fall between the test of the predicate and the wait. A started
flush or shutdown is fair, starting one is not. Nothing is assumed of failures:
a compaction may fail for ever, which is why `CompactionHappens` is conditional
on an end of them and `FailuresAreRetried` and `DestructorReturns` are not. `ThreadPool`: weak fairness of
each worker, of a client between pushing a task and notifying, and of the
destructor.

**Refinement.** The engine is shown to implement two specifications, each about a
different part of its state.

- `RefinesCompactionSpec` (run `engine_tables`, and proved) substitutes for the files being
  registered those that client threads hold between `WriteLevel0` and
  `RegisterLevel0`. Every step of the engine is then a step of `CompactionSpec` or
  leaves its variables alone. It holds within a session; `CompactionSpec` has no
  restart.
- `RefinesKeyValueStore` (run `engine_recover`, and proved) maps the store to what recovery
  would rebuild from checkpoint, files and log in the current state (`Recovered`),
  and a client to the position of its thread (`ClientAt`). A write takes effect when
  it enters the log; flushes, checkpoints, restarts and crashes must leave the
  store alone, and a Get must answer from it, with nothing for a deleted key. Every
  step up to a state in which `Undisturbed` holds must be a step of `KeyValueStore`,
  with one exception that the property names: a Get that met a tombstone in the
  memtable goes on to the files (`PassedTombstone`) and may answer with an older put,
  which is `DeletedIsNotFound` in section 5.

## 4. Proofs

The theorems hold for every value of the constants that satisfies the named
ASSUMEs, which TLC evaluates in the runs. The bounds of the runs are constants too.

| Module | Theorems | The inductive invariant and why it is needed |
|---|---|---|
| `LogProofs`, the log | `LsnAlwaysIncreasing`, `AckedAlwaysReadable`, `ReadableLogOnlyGrows`, `WALTypeCorrect`, of `LogSpec`; `BoundedLogIsLog` carries them to `WALSpec` | `WALInv`: the next LSN of an open log is above every one that Open's scan would meet, entries in the stream's buffer are ordered and above the scanned ones, an acknowledged entry is in the file or in the buffer. An append needs to know how the next LSN compares with the file, and only `Open`'s scan establishes that. The scan's argument uses a least-number lemma, from the well-foundedness of `<` on `Nat`. |
| `LogProofs`, the engine | `EngineLogInOrder`, `NewWritesAlwaysReplayed` | The lemma `EngineImplementsLog` carries what is proved of the log to the engine. The engine numbers its writes with naturals (`WritesCounted`), so that what it appends is a payload of the log; then one case for each action. For the second theorem, `AheadInv`: an intact log numbers its records 1, 2, 3, ... and every LSN that a flush or the compaction thread has captured, and the one in the checkpoint, is one of these. That no append failed and no record was torn is in the property: behind a torn record the log numbers on from the last entry before it, below what a checkpoint may have captured. Records over 64 MB are not excluded: Open's scan passes them. |
| `EngineTablesProofs` | `EngineImplementsCompaction` | `TablesInv`: each thread has what its position implies (a nonempty table to write, a number that was drawn), two flushes have drawn different numbers, and flushes begun early enough stay within the bound of `CompactionSpec`. Without the second a step `RegisterLevel0` of one thread would take the pending file of another with it. Hypotheses: finitely many threads, and `OneSession`: `Calls` has no close and no crash, since `CompactionSpec` has no restart. |
| `EngineFilesProofs` | `EngineAckedIsSomewhere` | `AckedInv` over memtable, calls, catalogue, disk and merge at once. `FilesOk`: every file anyone holds has a number that was drawn, tables hold puts only, from the end of a merge every key of an input is in a file that is no input and whose range covers it (`Replaced`), so that removing the input loses nothing, and the input about to be deleted has left the catalogue. `PendingOk`: no other file has the path of one that is about to be registered, so that no merge deletes it. `AckOk`: the key of every acknowledged put, and of every put between the memtable and its acknowledgement, is somewhere. Hypothesis `OnlyPuts`: one session and no deletes. A lost file loses keys, so the invariant is kept only until an access to an SSTable fails, as the property says. |
| `RecoveryProofs`, `KeyValueProofs` | `EngineRecoveryIsExact`, `EngineSkippedIsFlushed`, from `EngineRecoveryInv` | `RecoveryInv`: everything is a function of the log. There is a position `b` such that the catalogued files amount to the entries up to `b` and the memtable, or the one a flush has in hand, to those behind it (`CutAt`); the files of the checkpoint amount to the entries up to its LSN (`CheckpointInv`). "Amount to" is `Holds` for a table and `FilesHold` for files: they have the last version of every key of these entries. Each call adds what its position implies (`CallInv`). `RecoveryProofs` has the lemmas on the steps; that the invariant holds while `Undisturbed` does needs that a step never restores `Undisturbed` (`UndisturbedBefore`), which rests on the invariant of the log. Hypothesis `[]Serial`. |
| `KeyValueProofs` | `EngineRefinesKeyValueStore` | `RecoveryInv` again. `Recovered` is shown to be the last version in the log under every step, so only the append of an entry changes the store; the file a search meets first has the last flushed version, which gives the answer of a Get for a key that the memtable does not have. |
| `CompactionProofs` | `CatalogueAlwaysOnDisk` | `CatalogueInv`: every file anyone holds has a name whose number was drawn, level 0 from the flushes' counter and the others from the compaction's; catalogued files and those on the way there are on disk under paths of their own; the job's inputs are none of the latter; and the input about to be deleted has left the catalogue. Without the names a new file might overwrite a listed one; without the last part `UnlinkInput` might delete one. A file is damaged only by a flush that was counted in `io_errors`. |
| `CompactionProofs` | `RangesAlwaysCoverKeys`, `LevelsAlwaysDisjoint` | `LevelsInv`, on top of `CatalogueInv`. While the catalogue is updated one file at a time it does hold overlapping files, so the invariant is about the files that count (`Live`): the catalogue until the merge is done, then the kept files and the outputs. What makes the outputs fit in is `SeparatedInv`: a file of the target level that was not selected lies to one side of all the inputs, which follows from how `SelectCompactionFiles` widens its range. |
| `CompactionProofs` | `LookupAlwaysFindsNewestLeft` | `AgesAreOrdered`: of the files that count, an upper level has the newer versions; level 0 files are numbered by age; the inputs of the upper level win; and what comes to level 0 during a merge of level 0 is newer than its inputs. Hypothesis `MaxPending <= 1`: one flush under way at a time. |
| `CompactionProofs` | `KeyAlwaysThere`, `NewestAlwaysUnlessContested` | `KeyInv`: all versions of a key never deleted are puts, so no merge drops it, and from the end of the merge the kept files and outputs have what the inputs have; any number of flushes may be under way. `NewestInv`: among the files that count the newest version is on top, or there is none and the newest is a tombstone; it needs `AgesAreOrdered`, and with it `MaxPending <= 1`. |
| `CheckpointProofs`, the files | `SaveIsAtomic`, `LoadsAlwaysSavedOrFails` | First `EncodingIsLossless`: what is written in full reads back as itself. The files of a checkpoint are counted through, as a least counterexample: up to the n-th file, writing and reading are at the same cell. `SaveInv`: only one thread is between opening and renaming, and the temporary file is complete when it is renamed. `PartsInv`: all that a power loss may leave is the beginning of a file that was written, and reading any proper beginning runs over its end. |
| `ComponentProofs` | `MissesLostOnlyWhenOverlapping` | `CountInv`: what a counting thread has read of `misses_` is current unless two such threads met, and never too large. |
| `ComponentProofs` | `SizeAlwaysAccounted`, `CachedAlwaysMostRecent`, `CachedAlwaysNewest` | `CacheInv`: the three together, and that no key was used twice in the order of use. Lemmas say what taking an item from a list, putting one in front and cutting off the end do to the sum of the sizes. |
| `ComponentProofs` | `AlwaysTakenInOrder`, `NothingEverLeftBehind` | `PoolInv`: a task taken is finished or held by a worker, and a worker that returned saw an empty queue on a stopped pool, to which nothing is added. |
| `CheckpointProofs`, the clock | `AlwaysOrderedWithinEra` | `HLCInv`: timestamps are words, and where every reading so far was in the first era no timestamp is ahead of one that fits. The work is in the arithmetic of packing two fields into one word, with the truncation the code does, for readings in any era. The assumption that the width of the physical field is even stands for a power of two. |
| `ComponentProofs` | `CandidateAlwaysVotedForItself`, `VoteAlwaysLastsItsTerm`, `ListenerAlwaysKnowsRole`, `RaftTypeCorrect` | `RaftInv`: a node on which nothing but `LoadState` and `SetStateChangeCallback` was called is a follower; otherwise `LoadState` could change the vote of a candidate. |
| `ComponentProofs` | `ServedIsAlwaysHandedOut` | `MetricsInv`: registries are numbered as they are made, so a family that is kept is of the registry in place or of an older one, and those that the registry holds are of itself. |

How the theorems about compaction come together: `EngineImplementsCompaction` says
that what the engine does to its SSTables is what `CompactionSpec` does, so within a
session `CatalogueOnDisk`, `RangesCoverKeys` and `LevelsDisjoint` hold of the engine's
catalogue, whatever its threads do. The versions of `CompactionAges` are ordered by
flush; the engine has that order when its flushes do not overlap, which is what
`MaxPending <= 1` says, and with two at a time the code does not have it
(`HigherNumberIsNewer` in section 5). The proviso `unranged = 0` inside the properties is
the code's too (`DeepLevelsDisjoint` in section 5).

The theorems about recovery hold where the code has the property; TLC has a
counterexample without each of these conditions (section 5). One is a hypothesis:

- calls that follow one another (`Serial`, any number of threads taking turns; with
  one thread, as in `engine_recover`, it is always true): log and memtable are written
  under two locks, and a flush captures the log's LSN after it swapped the memtable out.

The others are the proviso `Undisturbed` inside the properties, about the past of the
state and not about the constants:

- no failed append and no record at which ReadAll stops, torn or over 64 MB: behind
  one the log is not read further, while writes go on to be acknowledged;
- no failed access to an SSTable: a memtable whose file cannot be written is gone;
- no compaction begun: its inputs are deleted before a checkpoint without them is
  saved, and that checkpoint takes an LSN the memtable has not reached on disk;
- no flush to a path that was in use: file numbers restart from one.

A save of the checkpoint may fail, and a crash may come between any two steps, in an
append and in a flush.
`OnlyPuts` in `EngineAckedIsSomewhere` leaves out deletes, because a delete takes effect
before it is acknowledged: a merge into the last level may have dropped its tombstone
while the put before it is still the version acknowledged last
(`MCStorageEngine_tables` with `"delete"` and `max_level = 2` shows it). It leaves out
restarts, after which the catalogue may name files that a compaction deleted.

Two arguments that are inductions over data are carried by the invariant instead:
that every key of a log has a last entry, and that a part of a log has a least and
a greatest key, is `Settled`, true of the empty log and kept by every append.

Only model-checked:

- the liveness properties of `CompactionLoop` and `ThreadPool`: the prover has no
  rules for fairness and ENABLED here;
- the properties of `SkipList` and `SSTable`: they rest on what searches along
  pointers and through blocks return, and no argument by counting has been written
  for these.

## 5. Where the code differs from what it says

Four disagreements are runs of their own:

- `engine_cplsn`: `checkpoint_manager.h:18` says "All WAL entries <= this LSN are
  safely in SSTables". The checkpoint saved after a compaction takes the log's
  current LSN (`storage_engine.cpp:353`) although the memtable holds entries below
  it. After a crash recovery skips them.
- `engine_deleted`: `memtable/README.md:38` says that a reader of a deleted key hits the
  tombstone "and the engine correctly returns "Not Found."" `MemTable::Get` answers
  nullopt for a tombstone as for a key it does not have (`memtable.cpp:18`), and the
  engine goes on to the SSTables, where the deleted put still is.
- `clock`: `clock/README.md:26` says "This guarantees that if Event A caused Event B,
  `Timestamp(A) < Timestamp(B)`, regardless of hardware clock drift." Microseconds since
  1970 have 51 bits (`physical_clock.cpp:12`) and 48 are kept (`hlc.cpp:16`). What is kept
  is below every reading, so that the logical counter is never used: two events in
  one microsecond get the same timestamp, and when the kept part starts over, every
  nine years, later events get smaller ones.
- `checkpoint_power`: `checkpoint/README.md:25` says "2. Run `fsync` to guarantee it
  is on disk." of the temporary file. The code flushes the stream and renames
  (`checkpoint_manager.cpp:41`, `:48`); a power loss can leave a part of the
  checkpoint, which `LoadCheckpoint` rejects, so that `Open` fails for good.

TLC shows the following ones when the property is put into the named
configuration in place of its properties, with the constants changed as given.
The definitions are at the end of their modules.

| Property | Configuration | The text | The code |
|---|---|---|---|
| `TornTailTruncated` | `MCStandalone` | `wal/README.md:38` "truncates the file at this exact byte" | appends behind the torn record, `wal.cpp:191` |
| `LsnUnique` | `MCStandalone` | `wal/README.md:43` "It uniquely identifies a mutation." | numbers on from the last readable entry, `wal.cpp:184` |
| `AckedSurvivesPowerLoss` | `MCStandalone` | `wal.h:33` "Appends an entry to the WAL and fsyncs to disk." | `ofstream::flush`, `wal.cpp:216` |
| `AckedIsFlushed` | `MCStandalone` | `wal.cpp:215` "fsync to guarantee durability" | stream not checked after the flush |
| `AckedIsNotCorrupted` | `MCStandalone` | `wal.cpp:246` "reject obviously corrupted length values" | Append writes records over 64 MB and acknowledges them, `wal.cpp:207`; ReadAll stops there, `wal.cpp:247` |
| `RegisteredCanBeRead` | `MCCompaction` | @sst@ | the last flush is not checked, `sstable_writer.cpp:159`; the file is registered, and the memtable or the inputs are dropped |
| `DeepLevelsDisjoint` | `MCCompaction` | `leveled_compaction.h:38` "Level 1+: Fully sorted, non-overlapping" | empty key range when the read-back fails, `storage_engine.cpp:293` |
| `NewestWins` | `MCCompaction` | `tests/unit/test_compaction.cpp:75` "newer version wins" | precedence in key order, `compaction_manager.cpp:351` |
| `NewestPresentIsFound` | `MCCompaction` | `compaction/README.md:38` "The file catalogue is atomically updated" | one file at a time, `compaction_manager.cpp:371` |
| `MergeKeepsEveryKey` | `MCCompaction`, `MinKey = 0`, `MaxKey = 1` | `compaction_manager.cpp:296` "Skip duplicate keys" | the empty key equals the initial `last_emitted_key` |
| `GetSeesAckedPuts` | `MCStorageEngine_recover`, two threads, `MaxWrites = 1` | `storage_engine.h:94` "Searches: Active MemTable → Immutable MemTable" | the memtable being flushed is in neither, `storage_engine.cpp:263` |
| `RecoveryIsExact` | `MCStorageEngine_recover`, two threads | `recovery/README.md:19` "exactly as it was just before the crash" | log and memtable written under two locks in turn, `storage_engine.cpp:147` |
| `CheckpointOnDisk` | `MCStorageEngine_restart` | `checkpoint_manager.h:19` "The exact catalogue of active SSTable files" | inputs deleted before the checkpoint is saved, `compaction_manager.cpp:372`; a crash in the writing of an SSTable whose path was in use, `sstable_writer.cpp:30` |
| `AckedRecoverable` | `MCStorageEngine_recover` | `recovery/README.md:5` "no data is actually lost" | file numbers restart from one, `storage_engine.cpp:276`; ReadAll stops at a torn or oversized record, `wal.cpp:247` |
| `GetNeverFails` | `MCStorageEngine_recover`, two threads, trigger 1 | `compaction/README.md:51` "Compaction runs safely alongside concurrent read queries" | a file of the reader's copy is deleted, `storage_engine.cpp:225` |
| `FlushedLsnIsSafe` | `MCStorageEngine_recover`, two threads; or `MaxFaults = 1`; or `MaxIoErrors = 1` | `checkpoint_manager.h:18` as above | LSN read after the swap, `storage_engine.cpp:272`; LSN of a failed append, `wal.cpp:216`; memtable dropped when its file cannot be written, `storage_engine.cpp:281` |
| `HigherNumberIsNewer` | `MCStorageEngine_recover`, two threads | `storage_engine.cpp:206` "Within L0, higher sequence_number = newer" | the number is drawn long after the memtable is swapped out, `storage_engine.cpp:276`: of two flushes the older may get the higher one |
| `NotifiedOnChangeOnly` | `MCStandalone` | `raft_state.h:28` "triggers callbacks on role changes" | candidate to candidate, `raft_state.cpp:42` |
| `EveryGetIsCounted` | `MCStandalone` | `block_cache.h:23` "Thread-safety is achieved using a shared_mutex" | increment under the shared lock, `block_cache.cpp:22` |
| `RetrievedIsLive` | `MCStandalone` | `metrics_registry.h:30` "Creates or retrieves a Counter metric" | the maps of families survive Shutdown, `metrics_registry.cpp:29` |

## 6. Not modelled

- **Logging.** The methods hand over to spdlog; its queue, thread and overflow
  policy are in the library and no result depends on them.
- **Configuration.** One sequential parse; a section that is missing leaves its
  fields as they are. Nothing reads the result yet.
- **Floats and vectors of floats** in the serializer: no code calls them.
- **Errors, string functions, hashing, UUIDs.** Values and functions without state;
  the hash functions of the Bloom filter are all functions in `SSTable`.
- **Raft log, election, replication, snapshots, membership; index, router, metadata
  server, RPC, ML.** Build files, empty files and documents, without code. The
  components that exist are not called by a node yet, so there is nothing to
  compose them with.
- **Two concurrent flushes in `CompactionAges`.** There the versions of a later flush
  are newer by construction. With two flushers the code does not have that order
  (`HigherNumberIsNewer`), so no property about the newest version would remain.
- **Compactions in `engine_recover`.** With them the code has none of the properties of
  this run, because of the checkpoint they save (section 5); `engine_restart` has them.
- **A lookup while the file it reads is written again.** In the model it sees the old
  contents or the new; the code could see a part of the new file. It takes a restart
  and a reused path, after which the properties about lookups claim nothing.
- **Payloads of 4 GB and more**, whose length does not fit the log's header.
