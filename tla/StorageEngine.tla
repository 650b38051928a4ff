---------------------------- MODULE StorageEngine ----------------------------
(***************************************************************************)
(* The storage engine, src/storage/engine: client threads that put, delete,*)
(* get and flush, the background compaction thread, the checkpoint on disk,*)
(* recovery, the destructor and crashes, over the write-ahead log and the  *)
(* compaction manager.                                                     *)
(*                                                                         *)
(* A step is what a thread does under one lock (or in one call of a        *)
(* component with a lock of its own).  call[t] holds where thread t is and *)
(* the locals it still needs.  Every write carries an id of its own, in    *)
(* the order of the log, in place of the bytes of its value; sizes are not *)
(* modelled, so any write may be the one that fills the memtable.          *)
(*                                                                         *)
(* immutable_memtable_ is only ever assigned nullptr (lines 264, 265 and   *)
(* 315), so it is left out, with the branch of Get that reads it.          *)
(***************************************************************************)
EXTENDS WAL, CompactionManager

CONSTANTS
  Thread,         \* client threads
  Calls,          \* what happens in the run: "put", "delete", "get", "flush",
                  \* "close", "crash", "torn" (a crash in the middle of a write)
  MaxWrites,      \* bound of the runs: puts and deletes
  MaxFlushes,     \* bound of the runs: flushes clients begin in a session
  MaxSessions     \* bound of the runs: times the engine is opened

ASSUME EngineConstants ==
  /\ WALPayload = [key : Key, version : Version]
  /\ [id : 1 .. MaxWrites, kind : {"put", "delete"}] \subseteq Version
  /\ {MaxWrites, MaxFlushes, MaxSessions} \subseteq Nat

VARIABLES
  engine,             \* "closed", "open", or "closing" once shutdown_ is set
  active_memtable,    \* active_memtable_
  next_sst_sequence,  \* next_sst_sequence_
  call,               \* for each client thread, the call it is in
  loop,               \* the compaction thread: "wait", "run", "files", "save", "exited"
  loop_cp,            \* the checkpoint it is about to save
  checkpoint,         \* MANIFEST.checkpoint
  writes,             \* history: writes begun
  acked_version,      \* history: for each key the newest version a call returned Ok for
  sessions,           \* history: times opened
  unranged,           \* history: new files whose key range could not be read
  save_errors,        \* history: checkpoints that could not be saved
  compacted,          \* history: whether a compaction was begun
  overwritten         \* history: whether a flush took the path of an older SSTable

sessionVars == <<engine, sessions>>
clientVars == <<active_memtable, call, writes, acked_version>>
loopVars == <<loop, loop_cp>>
pastVars == <<compacted, overwritten>>
engineVars == <<walVars, compactionVars, sessionVars, clientVars, loopVars,
                next_sst_sequence, checkpoint, unranged, save_errors, pastVars>>

EmptyTable == [k \in {} |-> 0]
NoVersion == [id |-> 0, kind |-> "none"]
Failed == [id |-> 0, kind |-> "error"]
NoCheckpoint == [last_flushed_lsn |-> 0, sstables |-> {}]

Idle == [pc |-> "idle"]
At(t, pc) == call[t].pc = pc
Goto(t, locals) == call' = [call EXCEPT ![t] = locals]

MayFlush == next_sst_sequence <= MaxFlushes
----------------------------------------------------------------------------
(* Returning from a call.  `ack' is the write to acknowledge, if any; the  *)
(* destructor's flush goes on to the end of the destructor.                *)

Newer(v, w) == IF v.id > w.id THEN v ELSE w

Acknowledge(ack) ==
  acked_version' = [k \in Key |->
    IF \E a \in ack : a.key = k
    THEN Newer((CHOOSE a \in ack : a.key = k).version, acked_version[k])
    ELSE acked_version[k]]

ReturnOk(t, ack) ==
  /\ Goto(t, IF engine = "closing" THEN [pc |-> "gone"] ELSE Idle)
  /\ Acknowledge(ack)

ReturnError(t) ==
  /\ Goto(t, IF engine = "closing" THEN [pc |-> "gone"] ELSE Idle)
  /\ UNCHANGED acked_version
----------------------------------------------------------------------------
(* Put and Delete: WriteEntry.                                             *)

\* Step 1, under wal_mutex_.
WriteEntry(t, kind, k) ==
  LET w == [key |-> k, version |-> [id |-> writes + 1, kind |-> kind]]
  IN  /\ engine = "open" /\ At(t, "idle")
      /\ writes < MaxWrites
      /\ writes' = writes + 1
      /\ \/ WALAppend(w, "ok") /\ Goto(t, [pc |-> "apply", write |-> w])
         \/ WALAppend(w, "error") /\ Goto(t, Idle)
      /\ UNCHANGED <<compactionVars, sessionVars, loopVars, active_memtable,
                     acked_version, next_sst_sequence, checkpoint, unranged, save_errors, pastVars>>

\* Step 2, under memtable_mutex_: the memtable takes the entry and may be full.
ApplyToMemTable(t) ==
  /\ At(t, "apply")
  /\ LET w == call[t].write
     IN  /\ active_memtable' = [k \in DOMAIN active_memtable \cup {w.key} |->
                                  IF k = w.key THEN w.version ELSE active_memtable[k]]
         /\ \/ ReturnOk(t, {w})
            \/ /\ MayFlush
               /\ Goto(t, [pc |-> "swap", ack |-> {w}])
               /\ UNCHANGED acked_version
  /\ UNCHANGED <<walVars, compactionVars, sessionVars, loopVars, writes,
                 next_sst_sequence, checkpoint, unranged, save_errors, pastVars>>
----------------------------------------------------------------------------
(* FlushMemTable.                                                          *)

CallFlush(t) ==
  /\ engine = "open" /\ At(t, "idle")
  /\ MayFlush
  /\ Goto(t, [pc |-> "swap", ack |-> {}])
  /\ UNCHANGED <<walVars, compactionVars, sessionVars, loopVars, active_memtable, writes,
                 acked_version, next_sst_sequence, checkpoint, unranged, save_errors, pastVars>>

\* Under memtable_mutex_: a fresh memtable takes the place of the full one.
SwapMemTable(t) ==
  /\ At(t, "swap")
  /\ \/ /\ active_memtable = EmptyTable
        /\ ReturnOk(t, call[t].ack)
        /\ UNCHANGED active_memtable
     \/ /\ active_memtable # EmptyTable
        /\ Goto(t, [pc |-> "lsn", ack |-> call[t].ack, table |-> active_memtable])
        /\ active_memtable' = EmptyTable
        /\ UNCHANGED acked_version
  /\ UNCHANGED <<walVars, compactionVars, sessionVars, loopVars, writes,
                 next_sst_sequence, checkpoint, unranged, save_errors, pastVars>>

\* Under wal_mutex_, with the memtable swapped some time ago.
CaptureFlushLsn(t) ==
  /\ At(t, "lsn")
  /\ Goto(t, [pc |-> "write", ack |-> call[t].ack, table |-> call[t].table,
              flush_lsn |-> current_sequence_number])
  /\ UNCHANGED <<walVars, compactionVars, sessionVars, loopVars, active_memtable, writes,
                 acked_version, next_sst_sequence, checkpoint, unranged, save_errors, pastVars>>

\* The new SSTable takes the next path, whatever is there.
TakesNextPath ==
  /\ overwritten' = IF Level0Path(next_sst_sequence) \in DOMAIN disk THEN TRUE ELSE overwritten
  /\ UNCHANGED compacted

\* The sequence number is drawn, the SSTable written and read back.  The flush
\* that ends the writing may fail unnoticed, and then so does reading back.
WriteLevel0(t) ==
  /\ At(t, "write")
  /\ next_sst_sequence' = next_sst_sequence + 1
  /\ TakesNextPath
  /\ LET c == call[t]
         filepath == Level0Path(next_sst_sequence)
         Ranged(lo, hi) ==
           Goto(t, [pc |-> "add", ack |-> c.ack, flush_lsn |-> c.flush_lsn,
                    meta |-> Level0Meta(next_sst_sequence, c.table, lo, hi)])
     IN  \/ /\ disk' = WithTable(filepath, c.table)
            /\ \/ /\ Ranged(Min(DOMAIN c.table), Max(DOMAIN c.table))
                  /\ damaged' = damaged \ {filepath}
                  /\ UNCHANGED <<io_errors, unranged>>
               \/ /\ io_errors < MaxIoErrors
                  /\ Ranged(EmptyKey, EmptyKey)
                  /\ damaged' \in {damaged \ {filepath}, damaged \cup {filepath}}
                  /\ io_errors' = io_errors + 1
                  /\ unranged' = unranged + 1
            /\ UNCHANGED acked_version
         \/ /\ io_errors < MaxIoErrors
            /\ disk' = Unreadable(disk, filepath)
            /\ damaged' = damaged \ {filepath}
            /\ io_errors' = io_errors + 1
            /\ ReturnError(t)
            /\ UNCHANGED unranged
  /\ UNCHANGED <<walVars, files, next_file_number, jobVars, sessionVars, loopVars,
                 active_memtable, writes, checkpoint, save_errors>>

\* The new file is not registered.
RegisterNothing(t) ==
  /\ At(t, "add")
  /\ Goto(t, [pc |-> "files", ack |-> call[t].ack, flush_lsn |-> call[t].flush_lsn])
  /\ UNCHANGED <<walVars, compactionVars, sessionVars, loopVars, active_memtable, writes,
                 acked_version, next_sst_sequence, checkpoint, unranged, save_errors, pastVars>>

RegisterLevel0(t) ==
  /\ At(t, "add")
  /\ AddFile(call[t].meta)
  /\ Goto(t, [pc |-> "files", ack |-> call[t].ack, flush_lsn |-> call[t].flush_lsn])
  /\ UNCHANGED <<walVars, disk, damaged, next_file_number, jobVars, io_errors, sessionVars,
                 loopVars, active_memtable, writes, acked_version, next_sst_sequence,
                 checkpoint, unranged, save_errors, pastVars>>

CollectFiles(t) ==
  /\ At(t, "files")
  /\ Goto(t, [pc |-> "save", ack |-> call[t].ack,
              cp |-> [last_flushed_lsn |-> call[t].flush_lsn, sstables |-> files]])
  /\ UNCHANGED <<walVars, compactionVars, sessionVars, loopVars, active_memtable, writes,
                 acked_version, next_sst_sequence, checkpoint, unranged, save_errors, pastVars>>

\* The temporary file could not be written or renamed: the old one stays.
SaveFails ==
  /\ save_errors < MaxIoErrors
  /\ save_errors' = save_errors + 1
  /\ UNCHANGED checkpoint

\* SaveCheckpoint, under its mutex: the rename is what makes it count.
SaveFlushCheckpoint(t) ==
  /\ At(t, "save")
  /\ \/ /\ checkpoint' = call[t].cp
        /\ ReturnOk(t, call[t].ack)
        /\ UNCHANGED save_errors
     \/ /\ SaveFails
        /\ ReturnError(t)
  /\ UNCHANGED <<walVars, compactionVars, sessionVars, loopVars, active_memtable, writes,
                 next_sst_sequence, unranged, pastVars>>
----------------------------------------------------------------------------
(* Get.  The history variable call[t].latest is the newest acknowledged    *)
(* version of the key when the call began; at "got" the call has its answer.*)

Got(t, k, latest, found) ==
  Goto(t, [pc |-> "got", key |-> k, latest |-> latest, found |-> found])

\* Under memtable_mutex_.  MemTable::Get answers nullopt for a tombstone too.
GetFromMemTable(t, k) ==
  /\ engine = "open" /\ At(t, "idle")
  /\ IF k \in DOMAIN active_memtable /\ active_memtable[k].kind = "put"
     THEN Got(t, k, acked_version[k], active_memtable[k])
     ELSE Goto(t, [pc |-> "look", key |-> k, latest |-> acked_version[k]])
  /\ UNCHANGED <<walVars, compactionVars, sessionVars, loopVars, active_memtable, writes,
                 acked_version, next_sst_sequence, checkpoint, unranged, save_errors, pastVars>>

InRange(f, k) == f.smallest_key <= k /\ k <= f.largest_key

\* AllFiles, sorted; the files whose range excludes the key are skipped.
GetSnapshot(t) ==
  /\ At(t, "look")
  /\ Goto(t, [pc |-> "search", key |-> call[t].key, latest |-> call[t].latest,
              left |-> {f \in files : InRange(f, call[t].key)}])
  /\ UNCHANGED <<walVars, compactionVars, sessionVars, loopVars, active_memtable, writes,
                 acked_version, next_sst_sequence, checkpoint, unranged, save_errors, pastVars>>

\* What the file says of k: a version, nothing, or an error when it is gone or damaged.
ReadKey(f, k) ==
  IF ~ CanRead(f) THEN Failed
  ELSE IF k \in DOMAIN disk[f.filepath] THEN disk[f.filepath][k] ELSE NoVersion

\* One file of the snapshot is opened and searched.
GetFromSSTable(t) ==
  /\ At(t, "search")
  /\ LET c == call[t]
     IN  \/ /\ c.left = {}
            /\ Got(t, c.key, c.latest, NoVersion)
         \/ \E f \in c.left :
              /\ \A g \in c.left : ~ SearchedBefore(g, f)
              /\ LET v == ReadKey(f, c.key)
                 IN  IF v = NoVersion THEN Goto(t, [c EXCEPT !.left = @ \ {f}])
                     ELSE Got(t, c.key, c.latest, IF v.kind = "delete" THEN NoVersion ELSE v)
  /\ UNCHANGED <<walVars, compactionVars, sessionVars, loopVars, active_memtable, writes,
                 acked_version, next_sst_sequence, checkpoint, unranged, save_errors, pastVars>>

GetReturns(t) ==
  /\ At(t, "got")
  /\ Goto(t, Idle)
  /\ UNCHANGED <<walVars, compactionVars, sessionVars, loopVars, active_memtable, writes,
                 acked_version, next_sst_sequence, checkpoint, unranged, save_errors, pastVars>>
----------------------------------------------------------------------------
(* The compaction thread.  That it wakes up is the subject of module       *)
(* CompactionLoop; here it may at any time.                                *)

LoopStart ==
  /\ engine = "open" /\ loop = "wait"
  /\ SelectCompactionFiles
  /\ loop' = "run"
  /\ compacted' = TRUE
  /\ UNCHANGED <<walVars, sessionVars, clientVars, loop_cp, next_sst_sequence, checkpoint,
                 unranged, save_errors, overwritten>>

LoopCompact ==
  /\ loop = "run"
  /\ \/ MergeFiles \/ MergeReadFails \/ MergeWriteFails
     \/ AddOutput \/ RemoveInput \/ UnlinkInput
  /\ UNCHANGED <<walVars, sessionVars, clientVars, loopVars, next_sst_sequence, checkpoint,
                 unranged, save_errors, pastVars>>

\* RunCompaction is back, with or without success.  The LSN of the checkpoint
\* is the log's current one, whatever is in the memtable.
LoopCaptureLsn ==
  /\ loop = "run" /\ step = "idle"
  /\ loop' = "files"
  /\ loop_cp' = [NoCheckpoint EXCEPT !.last_flushed_lsn = current_sequence_number]
  /\ UNCHANGED <<walVars, compactionVars, sessionVars, clientVars, next_sst_sequence,
                 checkpoint, unranged, save_errors, pastVars>>

LoopCollectFiles ==
  /\ loop = "files"
  /\ loop' = "save"
  /\ loop_cp' = [loop_cp EXCEPT !.sstables = files]
  /\ UNCHANGED <<walVars, compactionVars, sessionVars, clientVars, next_sst_sequence,
                 checkpoint, unranged, save_errors, pastVars>>

\* The status of SaveCheckpoint is ignored.
LoopSaveCheckpoint ==
  /\ loop = "save"
  /\ loop' = "wait"
  /\ loop_cp' = NoCheckpoint
  /\ \/ checkpoint' = loop_cp /\ UNCHANGED save_errors
     \/ SaveFails
  /\ UNCHANGED <<walVars, compactionVars, sessionVars, clientVars, next_sst_sequence,
                 unranged, pastVars>>

LoopExit ==
  /\ engine = "closing" /\ loop = "wait"
  /\ loop' = "exited"
  /\ UNCHANGED <<walVars, compactionVars, sessionVars, clientVars, loop_cp,
                 next_sst_sequence, checkpoint, unranged, save_errors, pastVars>>
----------------------------------------------------------------------------
(* Opening, closing, crashing.                                             *)

\* Replay that keeps the first entry for each key.
ReplayedFirst(last_flushed_lsn) ==
  LET entries == {i \in Readable(wal_file) : wal_file[i].lsn > last_flushed_lsn}
      Of(k) == {i \in entries : wal_file[i].payload.key = k}
  IN  [k \in {wal_file[i].payload.key : i \in entries} |->
         wal_file[Min(Of(k))].payload.version]

\* Replay that also skips the entry after the checkpoint's.
ReplayedFromNext(last_flushed_lsn) ==
  LET entries == {i \in Readable(wal_file) : wal_file[i].lsn > last_flushed_lsn + 1}
      Of(k) == {i \in entries : wal_file[i].payload.key = k}
  IN  [k \in {wal_file[i].payload.key : i \in entries} |->
         wal_file[Max(Of(k))].payload.version]

\* The entries of the log that recovery applies, the last one for each key.
Replayed(last_flushed_lsn) ==
  LET entries == {i \in Readable(wal_file) : wal_file[i].lsn > last_flushed_lsn}
      Of(k) == {i \in entries : wal_file[i].payload.key = k}
  IN  [k \in {wal_file[i].payload.key : i \in entries} |->
         wal_file[Max(Of(k))].payload.version]

\* Open: a new engine object, Recover, and the compaction thread is started.
\* The counters next_sst_sequence_ and next_file_number_ start from one.
Open ==
  /\ engine = "closed"
  /\ sessions < MaxSessions
  /\ sessions' = sessions + 1
  /\ engine' = "open"
  /\ files' = checkpoint.sstables
  /\ WALOpen
  /\ active_memtable' = Replayed(checkpoint.last_flushed_lsn)
  /\ loop' = "wait"
  /\ UNCHANGED <<disk, damaged, next_file_number, jobVars, io_errors, call, writes,
                 acked_version, loop_cp, next_sst_sequence, checkpoint, unranged, save_errors,
                 pastVars>>

\* The destructor is called, by contract with no other call under way.
Destroy(t) ==
  /\ engine = "open"
  /\ \A u \in Thread : At(u, "idle")
  /\ engine' = "closing"
  /\ Goto(t, [pc |-> "join"])
  /\ UNCHANGED <<walVars, compactionVars, sessions, loopVars, active_memtable, writes,
                 acked_version, next_sst_sequence, checkpoint, unranged, save_errors, pastVars>>

JoinThenFlush(t) ==
  /\ At(t, "join")
  /\ loop = "exited"
  /\ Goto(t, IF active_memtable = EmptyTable THEN [pc |-> "gone"]
             ELSE [pc |-> "swap", ack |-> {}])
  /\ UNCHANGED <<walVars, compactionVars, sessionVars, loopVars, active_memtable, writes,
                 acked_version, next_sst_sequence, checkpoint, unranged, save_errors, pastVars>>

\* Nothing of the object is left; the files on disk are.
ObjectGone ==
  /\ engine' = "closed"
  /\ active_memtable' = EmptyTable
  /\ call' = [t \in Thread |-> Idle]
  /\ loop' = "exited"
  /\ loop_cp' = NoCheckpoint
  /\ next_sst_sequence' = 1
  /\ files' = {}
  /\ next_file_number' = 1
  /\ step' = "idle"
  /\ target_level' = 0
  /\ all_inputs' = {}
  /\ new_files' = {}
  /\ UNCHANGED <<io_errors, sessions, acked_version, checkpoint, unranged, save_errors>>

Destroyed(t) ==
  /\ At(t, "gone")
  /\ WALClose /\ ObjectGone
  /\ UNCHANGED <<disk, damaged, writes, pastVars>>

Crash ==
  /\ engine # "closed"
  /\ WALCrash /\ ObjectGone
  /\ UNCHANGED <<disk, damaged, writes, pastVars>>

\* The process dies while a thread is inside the log's Append.
CrashInAppend ==
  /\ engine = "open"
  /\ \E t \in Thread : At(t, "idle")
  /\ writes < MaxWrites
  /\ writes' = writes + 1
  /\ \E k \in Key, kind \in Calls \cap {"put", "delete"} :
       WALCrashInAppend([key |-> k, version |-> [id |-> writes + 1, kind |-> kind]])
  /\ ObjectGone
  /\ UNCHANGED <<disk, damaged, pastVars>>

\* The process dies while a flush writes its SSTable: the writer has truncated
\* whatever was under the path.
CrashInFlush ==
  /\ \E t \in Thread : At(t, "write")
  /\ disk' = Unreadable(disk, Level0Path(next_sst_sequence))
  /\ damaged' = damaged \ {Level0Path(next_sst_sequence)}
  /\ TakesNextPath
  /\ WALCrash /\ ObjectGone
  /\ UNCHANGED writes

\* ... or while a merge writes its j-th output.
CrashInMerge ==
  /\ loop = "run" /\ step = "merge"
  /\ InputsReadable
  /\ \E m \in 1 .. MaxOutputs : \E part \in Splits(m), j \in 1 .. m : WriteUpTo(part, j)
  /\ WALCrash /\ ObjectGone
  /\ UNCHANGED <<writes, pastVars>>

EngineInit ==
  /\ WALInit
  /\ CompactionInit
  /\ engine = "closed" /\ sessions = 0
  /\ active_memtable = EmptyTable
  /\ call = [t \in Thread |-> Idle]
  /\ loop = "exited" /\ loop_cp = NoCheckpoint
  /\ next_sst_sequence = 1
  /\ checkpoint = NoCheckpoint
  /\ writes = 0
  /\ acked_version = [k \in Key |-> NoVersion]
  /\ unranged = 0
  /\ save_errors = 0
  /\ compacted = FALSE /\ overwritten = FALSE

ClientStep(t) ==
  \/ \E kind \in Calls \cap {"put", "delete"}, k \in Key : WriteEntry(t, kind, k)
  \/ ApplyToMemTable(t)
  \/ "flush" \in Calls /\ CallFlush(t)
  \/ SwapMemTable(t) \/ CaptureFlushLsn(t) \/ WriteLevel0(t) \/ RegisterLevel0(t)
  \/ CollectFiles(t) \/ SaveFlushCheckpoint(t)
  \/ "get" \in Calls /\ \E k \in Key : GetFromMemTable(t, k)
  \/ GetSnapshot(t) \/ GetFromSSTable(t) \/ GetReturns(t)
  \/ "close" \in Calls /\ Destroy(t)
  \/ JoinThenFlush(t) \/ Destroyed(t)

LoopStep ==
  \/ LoopStart \/ LoopCompact \/ LoopCaptureLsn \/ LoopCollectFiles \/ LoopSaveCheckpoint
  \/ LoopExit

EngineNext ==
  \/ Open
  \/ \E t \in Thread : ClientStep(t)
  \/ LoopStep
  \/ "crash" \in Calls /\ Crash
  \/ "torn" \in Calls /\ (CrashInAppend \/ CrashInFlush \/ CrashInMerge)

EngineSpec == EngineInit /\ [][EngineNext]_engineVars
----------------------------------------------------------------------------
(* Properties.                                                             *)

\* Types of the engine's own state (storage_engine.h).  A flush under way has
\* something to write: SSTableWriter::Write would reject an empty memtable.
EngineTypeOK ==
  /\ engine \in {"closed", "open", "closing"}
  /\ active_memtable \in Table
  /\ next_sst_sequence \in Nat \ {0}
  /\ \A t \in Thread : call[t].pc \in
       {"idle", "apply", "swap", "lsn", "write", "add", "files", "save", "look", "search",
        "got", "join", "gone"}
  /\ \A t \in Thread : call[t].pc \in {"lsn", "write"} => call[t].table \in Table \ {EmptyTable}
  /\ loop \in {"wait", "run", "files", "save", "exited"}
  /\ {checkpoint.last_flushed_lsn, loop_cp.last_flushed_lsn} \subseteq Nat
  /\ checkpoint.sstables \cup loop_cp.sstables \subseteq SSTableMeta
  /\ \A k \in Key : acked_version[k] \in Version \cup {NoVersion}

\* Of the files, the one whose version of k a search that opens them all meets
\* first; NoVersion when a file cannot be read or none has the key.
FirstVersion(fs, k) ==
  LET having == {f \in fs : InRange(f, k) /\ ReadKey(f, k) # NoVersion}
      first == {f \in having : \A g \in having : ~ SearchedBefore(g, f)}
  IN  IF having = {} \/ \E f \in fs : ~ CanRead(f) THEN NoVersion
      ELSE ReadKey(CHOOSE f \in first : TRUE, k)

\* The version of k that the engine would have after a crash now and recovery.
Recovered(k) ==
  LET memtable == Replayed(checkpoint.last_flushed_lsn)
  IN  IF k \in DOMAIN memtable THEN memtable[k] ELSE FirstVersion(checkpoint.sstables, k)

\* The version of k that the engine has now.
Current(k) ==
  IF k \in DOMAIN active_memtable THEN active_memtable[k] ELSE FirstVersion(files, k)

\* Nothing has happened that may cost recovery a write, as far as calls that
\* follow one another go: an access to the log or to an SSTable that failed, a
\* record in the log at which ReadAll stops, a compaction (whose checkpoint takes
\* the LSN of writes that are in the memtable only), or a flush whose SSTable took
\* the place of one of an earlier session.
Undisturbed ==
  /\ faults = 0 /\ io_errors = 0
  /\ \A i \in DOMAIN wal_file : ~ Stops(wal_file[i])
  /\ ~ compacted /\ ~ overwritten

\* An entry of the log up to the checkpoint's LSN, which recovery skips, is in
\* an SSTable of the checkpoint, or a newer version of its key is.
SkippedIsFlushed ==
  Undisturbed
    => \A i \in Readable(wal_file) :
         wal_file[i].lsn <= checkpoint.last_flushed_lsn
           => FirstVersion(checkpoint.sstables, wal_file[i].payload.key).id
                >= wal_file[i].payload.version.id

\* Whenever no call is under way, recovery would rebuild what the engine holds:
\* over any flushes, closings, crashes and restarts that came before.
RecoveryIsExact ==
  (Undisturbed /\ engine = "open" /\ \A t \in Thread : At(t, "idle"))
    => \A k \in Key : Recovered(k) = Current(k)

\* The log never hands out an LSN that recovery would take for flushed already:
\* Open goes on behind the LSN of every checkpoint, if no append failed and no
\* record is torn.
NewWritesAreReplayed ==
  (write_file = "good" /\ faults = 0 /\ NoneTorn)
    => checkpoint.last_flushed_lsn < next_sequence_number

\* A key that was put is in the active memtable, in one that is being flushed,
\* in a file that is being registered or in a file of the catalogue.
AckedIsSomewhere ==
  (engine = "open" /\ io_errors = 0)
    => \A k \in Key \ {EmptyKey} :
         acked_version[k].kind = "put" =>
           \/ k \in DOMAIN active_memtable
           \/ \E t \in Thread : /\ call[t].pc \in {"lsn", "write"}
                                /\ k \in DOMAIN call[t].table
           \/ \E t \in Thread : At(t, "add") /\ Has(call[t].meta, k)
           \/ \E f \in files : Has(f, k) /\ InRange(f, k)

\* Where a client of the key-value store is while its thread is in a call of the
\* engine.  A write has taken effect once it is in the log.
ClientAt(c) ==
  CASE c.pc = "idle" -> [at |-> "idle"]
    [] c.pc = "apply" -> [at |-> "written", key |-> c.write.key, version |-> c.write.version]
    [] c.pc \in {"swap", "lsn", "write", "add", "files", "save"} /\ c.ack # {} ->
         LET w == CHOOSE w \in c.ack : TRUE
         IN  [at |-> "written", key |-> w.key, version |-> w.version]
    [] c.pc \in {"look", "search"} -> [at |-> "reading", key |-> c.key]
    [] c.pc = "got" -> [at |-> "answered", key |-> c.key, answer |-> c.found]
    [] OTHER -> [at |-> "maintaining"]

Promise == INSTANCE KeyValueStore
  WITH store <- [k \in Key |-> Recovered(k)],
       client <- [t \in Thread |-> ClientAt(call[t])],
       acked <- acked_version

\* t looks in the files for a key that has a tombstone in the memtable, where
\* memtable.cpp answers the same nullopt as for a key it does not have.
PassedTombstone(t) ==
  /\ At(t, "search")
  /\ call[t].key \in DOMAIN active_memtable
  /\ active_memtable[call[t].key].kind = "delete"

\* The engine is a key-value store that survives crashes: what recovery would
\* rebuild changes when a write enters the log and at no other step, be it a
\* flush, a checkpoint, a restart or a crash between any two of them, and a Get
\* answers from just that, except one that passed a tombstone.
RefinesKeyValueStore ==
  /\ Promise!Init
  /\ [][Undisturbed' => \/ Promise!Next
                        \/ UNCHANGED Promise!kvVars
                        \/ \E t \in Thread : PassedTombstone(t) /\ GetFromSSTable(t)]_engineVars

(* What the comments and documents say and the code does not do.           *)

\* A write that returned Ok is still there after a crash at any moment.
AckedRecoverable ==
  \A k \in Key : Recovered(k).id >= acked_version[k].id

\* checkpoint_manager.h: the checkpoint is the "exact catalogue of active SSTable
\* files": the files it names are there.
CheckpointOnDisk ==
  \A f \in checkpoint.sstables : f.filepath \in DOMAIN disk

\* checkpoint_manager.h: "All WAL entries <= this LSN are safely in SSTables",
\* so that some SSTable of the checkpoint has the key at least (or is itself
\* gone, which is CheckpointOnDisk's concern).
FlushedLsnIsSafe ==
  \A i \in Readable(wal_file) :
    wal_file[i].lsn <= checkpoint.last_flushed_lsn
      => \E f \in checkpoint.sstables :
           f.filepath \in DOMAIN disk => Has(f, wal_file[i].payload.key)

\* memtable/README.md: a reader that meets the tombstone gets "Not Found".
DeletedIsNotFound ==
  \A t \in Thread :
    (At(t, "got") /\ call[t].latest.kind = "delete")
      => call[t].found.id = 0 \/ call[t].found.id > call[t].latest.id

\* storage_engine.h: Get searches the active memtable, the immutable one (the one
\* that is being flushed) and the SSTables.  So it answers with the newest put of
\* its key that was acknowledged when it began, or with a newer version, unless a
\* newer delete of the key is in the log.
GetSeesAckedPuts ==
  \A t \in Thread :
    (At(t, "got") /\ call[t].latest.kind = "put")
      => \/ call[t].found.id >= call[t].latest.id
         \/ \E i \in Readable(wal_file) :
              LET write == wal_file[i].payload
              IN  /\ write.key = call[t].key
                  /\ write.version.kind = "delete" /\ write.version.id > call[t].latest.id

\* storage_engine.cpp, GetFromSSTables: "Within L0, higher sequence_number =
\* newer", also when two threads flush at the same time.
HigherNumberIsNewer ==
  \A f, g \in GetFilesAtLevel(0) : \A k \in Key :
    (f.sequence_number > g.sequence_number /\ Has(f, k) /\ Has(g, k))
      => disk[f.filepath][k].id >= disk[g.filepath][k].id

\* compaction/README.md: compaction "runs safely alongside concurrent read queries".
GetNeverFails == \A t \in Thread : At(t, "got") => call[t].found # Failed
=============================================================================
