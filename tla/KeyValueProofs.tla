---------------------------- MODULE KeyValueProofs ----------------------------
(***************************************************************************)
(* The engine is a key-value store that survives crashes, under the limits *)
(* of RecoveryProofs: with what recovery from the disk would rebuild as    *)
(* the store, every step of it is a step of KeyValueStore or a stutter,    *)
(* but for the answer of a Get that passed a tombstone in the memtable.    *)
(***************************************************************************)
EXTENDS RecoveryProofs, LogProofs

----------------------------------------------------------------------------
(* Recovery, from what RecoveryProofs shows of every step.                 *)

\* So an engine that nothing has disturbed was not disturbed a step before.
LEMMA UndisturbedBefore ==
  ASSUME WALInv, WritesCounted, FailuresCounted, [EngineNext]_engineVars
  PROVE  FailuresCounted' /\ (Undisturbed' => Undisturbed)
<1>1. CASE UNCHANGED engineVars
  BY <1>1, ZenonT(30) DEF engineVars, walVars, compactionVars, pastVars, FailuresCounted,
     Undisturbed, Stops
<1>2. CASE EngineNext
  <2>1. /\ io_errors' \in {io_errors, io_errors + 1}
        /\ (compacted => compacted') /\ (overwritten => overwritten')
    BY <1>2, FailuresStay, PastStays, Zenon
  <2>2. FailuresCounted' /\ (io_errors' = 0 => io_errors = 0)
    BY <2>1 DEF FailuresCounted
  <2>3. [WALStep]_walVars /\ power_losses' = power_losses
    BY EngineStepIsLogStep, Zenon
  <2>4. wal_file \in Seq(WALRecord) /\ faults \in Nat
    BY Zenon DEF WALInv, WALTypeOK
  <2>5. Extends(wal_file, wal_file')
    BY <2>3, StepExtends, Zenon DEF Extends, walVars
  <2>6. \A i \in DOMAIN wal_file : i \in DOMAIN wal_file' /\ wal_file'[i] = wal_file[i]
    BY <2>4, <2>5, ExtendsKeepsRecords, Zenon
  <2>7. faults' = 0 => faults = 0
    BY <2>3, <2>4 DEF walVars, WALStep, WALOpen, WALAppend, AppendOk, AppendFlushFails,
       AppendWriteFails, AppendOnBadStream, WALCrashInAppend, WALSync, WALClose, WALCrash,
       WALPowerLoss
  <2>8. ASSUME Undisturbed' PROVE \A i \in DOMAIN wal_file : ~ Stops(wal_file[i])
    BY <2>6, <2>8, Zenon DEF Undisturbed, Stops
  <2> QED
    BY <2>1, <2>2, <2>7, <2>8, Zenon DEF Undisturbed
<1> QED
  BY <1>1, <1>2, Zenon

\* If the engine's calls follow one another (Serial), the files, the memtable, the
\* call under way and the checkpoint fit together as RecoveryInv says for as long as
\* nothing disturbs the engine, whatever the order of puts, deletes, gets, flushes,
\* failed saves, restarts and crashes.
THEOREM EngineRecoveryInv == EngineSpec /\ []Serial => [](Undisturbed => RecoveryInv)
<1>1. EngineInit => RecoveryInv /\ FailuresCounted
  <2>1. ASSUME EngineInit PROVE FailuresCounted
    BY <2>1 DEF EngineInit, CompactionInit, FailuresCounted
  <2> QED
    BY <2>1, RecoveryInvInit, Zenon
<1>2. ASSUME WALInv, WritesCounted, FailuresCounted, Serial, Serial',
             Undisturbed => RecoveryInv, [EngineNext]_engineVars
      PROVE  FailuresCounted' /\ (Undisturbed' => RecoveryInv')
  BY <1>2, UndisturbedBefore, RecoveryInvNext, Zenon DEF Quiet
<1>3. EngineSpec => []WALInv
  BY EngineImplementsLog, WALInvariant, PTL
<1> QED
  BY <1>1, <1>2, <1>3, WritesCountedInit, WritesCountedNext, PTL DEF EngineSpec

\* Then recovery rebuilds exactly what the engine holds, tombstones included,
\* whenever no call is under way (Recover, storage_engine.cpp).
THEOREM EngineRecoveryIsExact == EngineSpec /\ []Serial => []RecoveryIsExact
<1>1. (Undisturbed => RecoveryInv) => RecoveryIsExact
  BY RecoveryInvExact
<1> QED
  BY <1>1, EngineRecoveryInv, PTL

\* And an entry of the log that recovery skips, because the checkpoint's LSN covers
\* it, is in an SSTable of the checkpoint, or a newer version of its key is.
THEOREM EngineSkippedIsFlushed == EngineSpec /\ []Serial => []SkippedIsFlushed
<1>1. (Undisturbed => RecoveryInv) => SkippedIsFlushed
  BY RecoveryInvSkipped
<1> QED
  BY <1>1, EngineRecoveryInv, PTL
----------------------------------------------------------------------------
(* The engine implements the key-value store.                              *)

\* The variables of KeyValueStore under the refinement, and two values of a client.
Store == [k \in Key |-> Recovered(k)]
Client == [t \in Thread |-> ClientAt(call[t])]
Written(w) == [at |-> "written", key |-> w.key, version |-> w.version]
Maintaining == [at |-> "maintaining"]

\* What a client of the store sees of a call.
LEMMA ClientCases ==
  ASSUME NEW c
  PROVE  /\ c.pc = "idle" => ClientAt(c) = [at |-> "idle"]
         /\ c.pc = "apply" => ClientAt(c) = Written(c.write)
         /\ c.pc \in FlushPcs /\ c.ack = {} => ClientAt(c) = Maintaining
         /\ \A w : c.pc \in FlushPcs /\ c.ack = {w} => ClientAt(c) = Written(w)
         /\ c.pc \in {"look", "search"} => ClientAt(c) = [at |-> "reading", key |-> c.key]
         /\ c.pc = "got" => ClientAt(c) = [at |-> "answered", key |-> c.key, answer |-> c.found]
         /\ c.pc \in {"join", "gone"} => ClientAt(c) = Maintaining
<1>1. ASSUME NEW w, c.pc \in FlushPcs, c.ack = {w} PROVE ClientAt(c) = Written(w)
  <2>1. (CHOOSE x \in c.ack : TRUE) = w
    BY <1>1
  <2>2. c.ack # {}
    BY <1>1
  <2> QED
    BY <1>1, <2>1, <2>2 DEF ClientAt, FlushPcs, Written
<1>2. c.pc = "idle" => ClientAt(c) = [at |-> "idle"]
  BY DEF ClientAt
<1>3. c.pc = "apply" => ClientAt(c) = Written(c.write)
  BY DEF ClientAt, Written
<1>4. c.pc \in FlushPcs /\ c.ack = {} => ClientAt(c) = Maintaining
  BY DEF ClientAt, FlushPcs, Maintaining
<1>5. c.pc \in {"look", "search"} => ClientAt(c) = [at |-> "reading", key |-> c.key]
  BY DEF ClientAt
<1>6. c.pc = "got" => ClientAt(c) = [at |-> "answered", key |-> c.key, answer |-> c.found]
  BY DEF ClientAt
<1>7. c.pc \in {"join", "gone"} => ClientAt(c) = Maintaining
  BY DEF ClientAt, Maintaining
<1> QED
  BY <1>1, <1>2, <1>3, <1>4, <1>5, <1>6, <1>7, Zenon

\* A step of one call is a step of one client.
LEMMA ClientMoves ==
  ASSUME NEW t \in Thread, NEW c, Goto(t, c), DOMAIN call = Thread
  PROVE  /\ Client' = [Client EXCEPT ![t] = ClientAt(c)]
         /\ Client[t] = ClientAt(call[t])
<1>1. \A u \in Thread : call'[u] = IF u = t THEN c ELSE call[u]
  BY DEF Goto
<1>2. [u \in Thread |-> ClientAt(call'[u])]
        = [u \in Thread |-> IF u = t THEN ClientAt(c) ELSE ClientAt(call[u])]
  BY <1>1
<1> QED
  BY <1>2, Zenon DEF Client

\* While the log stays as it is, so does what recovery would rebuild.
LEMMA StoreStays ==
  ASSUME StoreIsLog, StoreIsLog', wal_file \in EngineLog, wal_file' = wal_file
  PROVE  Store' = Store
<1>1. ASSUME NEW k \in Key PROVE Recovered(k)' = Recovered(k)
  <2>1. PICK v, w : v = Recovered(k) /\ w = Recovered(k)'
    OBVIOUS
  <2>2. Latest(wal_file, k, v) /\ Latest(wal_file', k, w)
    BY <2>1, Zenon DEF StoreIsLog
  <2> QED
    BY <2>1, <2>2, OneLatest, Zenon
<1> QED
  BY <1>1 DEF Store

\* The steps of the key-value store, in these terms.
LEMMA PromiseStutters ==
  ASSUME Store' = Store, Client' = Client, acked_version' = acked_version
  PROVE  UNCHANGED Promise!kvVars
BY DEF Store, Client, Promise!kvVars

\* A client whose write enters the store ...
LEMMA PromiseWrites ==
  ASSUME NEW t \in Thread, NEW k \in Key, NEW v \in Version,
         Client[t] = [at |-> "idle"],
         Client' = [Client EXCEPT ![t] = [at |-> "written", key |-> k, version |-> v]],
         Store' = [Store EXCEPT ![k] = v], acked_version' = acked_version
  PROVE  Promise!Next
<1>1. Promise!Write(t, k, v)
  BY DEF Store, Client, Promise!Write, Promise!Goes, Promise!Idle
<1> QED
  BY <1>1, Zenon DEF Promise!Next

\* ... and is acknowledged ...
LEMMA PromiseWriteReturns ==
  ASSUME NEW t \in Thread, NEW w, Client[t] = Written(w),
         Client' = [Client EXCEPT ![t] = [at |-> "idle"]],
         Store' = Store, acked_version' = [acked_version EXCEPT ![w.key] = w.version]
  PROVE  Promise!Next
<1>1. PICK c : c = Client[t]
  OBVIOUS
<1>2. c.at = "written" /\ c.key = w.key /\ c.version = w.version
  BY <1>1 DEF Written
<1>3. Promise!WriteReturns(t)
  BY <1>1, <1>2, Zenon DEF Store, Client, Promise!WriteReturns, Promise!Goes, Promise!Idle
<1> QED
  BY <1>3, Zenon DEF Promise!Next

\* ... a client that begins or ends a flush or the closing ...
LEMMA PromiseMaintains ==
  ASSUME NEW t \in Thread,
         \/ Client[t] = [at |-> "idle"] /\ Client' = [Client EXCEPT ![t] = Maintaining]
         \/ Client[t] = Maintaining /\ Client' = [Client EXCEPT ![t] = [at |-> "idle"]],
         Store' = Store, acked_version' = acked_version
  PROVE  Promise!Next
<1>1. Promise!Maintain(t)
  BY DEF Store, Client, Maintaining, Promise!Maintain, Promise!Goes, Promise!Idle
<1> QED
  BY <1>1, Zenon DEF Promise!Next

\* ... a client that begins to read ...
LEMMA PromiseGetBegins ==
  ASSUME NEW t \in Thread, NEW k \in Key, Client[t] = [at |-> "idle"],
         Client' = [Client EXCEPT ![t] = [at |-> "reading", key |-> k]],
         Store' = Store, acked_version' = acked_version
  PROVE  Promise!Next
<1>1. Promise!GetBegins(t, k)
  BY DEF Store, Client, Promise!GetBegins, Promise!Goes, Promise!Idle
<1> QED
  BY <1>1, Zenon DEF Promise!Next

\* ... the answer it is to get ...
LEMMA PromiseAnswers ==
  ASSUME NEW k \in Key, NEW found, NEW v, v = Recovered(k),
         \/ v = NoVersion /\ found = NoVersion
         \/ v.kind = "put" /\ found = v
         \/ v.kind = "delete" /\ found = NoVersion
  PROVE  found = Promise!Answer(k)
<1>1. [x \in Key |-> Recovered(x)][k] = v
  OBVIOUS
<1>2. NoVersion.kind # "put"
  BY DEF NoVersion
<1> QED
  BY <1>1, <1>2 DEF Promise!Answer

\* ... a client that has its answer ...
LEMMA PromiseGetAnswers ==
  ASSUME NEW t \in Thread, NEW k \in Key, NEW found, found = Promise!Answer(k),
         Client[t] \in {[at |-> "idle"], [at |-> "reading", key |-> k]},
         Client' = [Client EXCEPT ![t] = [at |-> "answered", key |-> k, answer |-> found]],
         Store' = Store, acked_version' = acked_version
  PROVE  Promise!Next
<1>1. Promise!GetAnswers(t, k)
  <2> SUFFICES \E from \in {Promise!Idle, [at |-> "reading", key |-> k]} :
                 Promise!Goes(t, from, [at |-> "answered", key |-> k, answer |-> found])
    BY Zenon DEF Promise!GetAnswers, Store
  <2> QED
    BY DEF Client, Promise!Goes, Promise!Idle
<1> QED
  BY <1>1, Zenon DEF Promise!Next

\* ... and a crash, whose calls are gone ...
LEMMA ClientsGone ==
  ASSUME \A u \in Thread : call'[u].pc = "idle"
  PROVE  Client' = [u \in Thread |-> [at |-> "idle"]]
<1>1. \A u \in Thread : ClientAt(call'[u]) = [at |-> "idle"]
  <2> SUFFICES ASSUME NEW u \in Thread PROVE ClientAt(call'[u]) = [at |-> "idle"]
    OBVIOUS
  <2>1. PICK c : c = call'[u]
    OBVIOUS
  <2>2. ClientAt(c) = [at |-> "idle"]
    BY <2>1, ClientCases
  <2> QED
    BY <2>1, <2>2, Zenon
<1> QED
  BY <1>1 DEF Client

\* ... between two writes ...
LEMMA PromiseCrashes ==
  ASSUME \A u \in Thread : call'[u].pc = "idle", Store' = Store, acked_version' = acked_version
  PROVE  Promise!Next
<1>1. Promise!Crash
  BY ClientsGone, Zenon DEF Client, Store, Promise!Crash, Promise!Idle
<1> QED
  BY <1>1, Zenon DEF Promise!Next

\* ... or within one take steps of the store.
LEMMA PromiseCrashesInWrite ==
  ASSUME \A u \in Thread : call'[u].pc = "idle", acked_version' = acked_version,
         NEW k \in Key, NEW v \in Version, Store' = [Store EXCEPT ![k] = v]
  PROVE  Promise!Next
<1>1. Promise!CrashInWrite(k, v)
  BY ClientsGone, Zenon DEF Client, Store, Promise!CrashInWrite, Promise!Idle
<1> QED
  BY <1>1, Zenon DEF Promise!Next
----------------------------------------------------------------------------
(* The steps of the engine, as steps of the store.                         *)

\* A step of the store or a stutter.
PromiseStep == Promise!Next \/ UNCHANGED Promise!kvVars

\* A call goes on without its client's noticing.
LEMMA ClientStays ==
  ASSUME NEW t \in Thread, NEW c, Goto(t, c), DOMAIN call = Thread,
         ClientAt(c) = ClientAt(call[t]), Store' = Store, acked_version' = acked_version
  PROVE  PromiseStep
<1>1. Client' = [Client EXCEPT ![t] = Client[t]]
  BY ClientMoves, Zenon
<1>2. Client' = Client
  BY <1>1, Zenon DEF Client
<1> QED
  BY <1>2, PromiseStutters, Zenon DEF PromiseStep

\* So does a flush.
LEMMA FlushStays ==
  ASSUME RecoveryInv, NEW t \in Thread, NEW c, Goto(t, c),
         call[t].pc \in FlushPcs, c.pc \in FlushPcs, c.ack = call[t].ack,
         Store' = Store, acked_version' = acked_version
  PROVE  PromiseStep
<1>1. engine # "closed" /\ DOMAIN call = Thread
  BY DEF RecoveryInv, SessionInv, Idle, FlushPcs
<1>2. PICK b \in 0 .. Len(wal_file) : CallInv(call[t], b)
  BY <1>1, Zenon DEF RecoveryInv, CutAt
<1>3. PICK old : old = call[t]
  OBVIOUS
<1>4. old.ack = {} \/ \E w : old.ack = {w}
  BY <1>2, <1>3, Zenon DEF CallInv
<1>5. ClientAt(c) = ClientAt(old)
  <2>1. CASE old.ack = {}
    <3>1. ClientAt(c) = Maintaining /\ ClientAt(old) = Maintaining
      BY <1>3, <2>1, ClientCases, Zenon
    <3> QED
      BY <3>1
  <2>2. ASSUME NEW w, old.ack = {w} PROVE ClientAt(c) = ClientAt(old)
    <3>1. c.ack = {w}
      BY <1>3, <2>2
    <3>2. ClientAt(c) = Written(w)
      BY <3>1, ClientCases, Zenon
    <3>3. ClientAt(old) = Written(w)
      BY <1>3, <2>2, ClientCases, Zenon
    <3> QED
      BY <3>2, <3>3
  <2> QED
    BY <1>4, <2>1, <2>2, Zenon
<1> QED
  BY <1>1, <1>3, <1>5, ClientStays, Zenon

\* A write or a flush returns.
LEMMA ReturnOkStep ==
  ASSUME RecoveryInv, NEW t \in Thread, call[t].pc \in FlushPcs,
         ReturnOk(t, call[t].ack), Store' = Store
  PROVE  PromiseStep
<1>1. engine # "closed" /\ DOMAIN call = Thread
  BY DEF RecoveryInv, SessionInv, Idle, FlushPcs
<1>2. PICK b \in 0 .. Len(wal_file) : CallInv(call[t], b)
  BY <1>1, Zenon DEF RecoveryInv, CutAt
<1>3. PICK old, c : old = call[t] /\ c = IF engine = "closing" THEN [pc |-> "gone"] ELSE Idle
  BY Zenon
<1>4. Goto(t, c) /\ Acknowledge(old.ack)
  BY <1>3, Zenon DEF ReturnOk
<1>5. Client' = [Client EXCEPT ![t] = ClientAt(c)] /\ Client[t] = ClientAt(old)
  BY <1>1, <1>3, <1>4, ClientMoves, Zenon
<1>6. CASE old.ack = {}
  <2>1. acked_version' = acked_version
    BY <1>4, <1>6, AckNone DEF RecoveryInv
  <2>2. ClientAt(old) = Maintaining
    BY <1>3, <1>6, ClientCases, Zenon
  <2>3. CASE c.pc = "gone"
    <3>1. ClientAt(c) = Maintaining
      BY <2>3, ClientCases
    <3> QED
      BY <1>1, <1>3, <1>4, <2>1, <2>2, <3>1, ClientStays, Zenon
  <2>4. CASE c.pc = "idle"
    <3>1. ClientAt(c) = [at |-> "idle"]
      BY <2>4, ClientCases, Zenon
    <3> QED
      BY <1>5, <2>1, <2>2, <3>1, PromiseMaintains, Zenon DEF PromiseStep
  <2> QED
    BY <1>3, <2>3, <2>4 DEF Idle
<1>7. CASE old.ack # {}
  <2>1. PICK w : w = wal_file[Len(wal_file)].payload
    BY ZenonT(30)
  <2>2. /\ Len(wal_file) # 0 /\ old.ack = {w} /\ engine = "open"
        /\ \A k \in Key : acked_version[k].id < VersionAt(wal_file, Len(wal_file)).id
    BY <1>2, <1>3, <1>7, <2>1, SMTT(30) DEF CallInv
  <2>3. SerialLog /\ AckedInv
    BY Zenon DEF RecoveryInv
  <2>4. acked_version' = [acked_version EXCEPT ![w.key] = w.version]
    BY <1>4, <2>1, <2>2, <2>3, AckOne, Zenon
  <2>5. c.pc = "idle"
    BY <1>3, <2>2 DEF Idle
  <2>6. ClientAt(c) = [at |-> "idle"] /\ ClientAt(old) = Written(w)
    BY <1>3, <2>2, <2>5, ClientCases, Zenon
  <2> QED
    BY <1>5, <2>4, <2>6, PromiseWriteReturns, Zenon DEF PromiseStep
<1> QED
  BY <1>6, <1>7

\* The checkpoint of a flush cannot be saved: to the client the call has failed, and
\* what it wrote is there all the same.
LEMMA ReturnErrorStep ==
  ASSUME RecoveryInv, Quiet, Quiet', NEW t \in Thread, call[t].pc \in FlushPcs,
         ReturnError(t), Store' = Store
  PROVE  PromiseStep
<1>1. engine # "closed" /\ DOMAIN call = Thread
  BY DEF RecoveryInv, SessionInv, Idle, FlushPcs
<1>2. PICK b \in 0 .. Len(wal_file) : CallInv(call[t], b)
  BY <1>1, Zenon DEF RecoveryInv, CutAt
<1>3. PICK old, c : old = call[t] /\ c = IF engine = "closing" THEN [pc |-> "gone"] ELSE Idle
  BY Zenon
<1>4. Goto(t, c) /\ acked_version' = acked_version
  BY <1>3, Zenon DEF ReturnError
<1>5. CASE engine = "closing"
  <2>1. c.pc = "gone" /\ old.ack = {}
    BY <1>2, <1>3, <1>5, Zenon DEF CallInv
  <2>2. ClientAt(c) = Maintaining /\ ClientAt(old) = Maintaining
    BY <1>3, <2>1, ClientCases
  <2> QED
    BY <1>1, <1>3, <1>4, <2>2, ClientStays, Zenon
<1>6. CASE engine # "closing"
  <2>1. c.pc = "idle" /\ call[t].pc # "idle"
    BY <1>3, <1>6 DEF Idle, FlushPcs
  <2>2. /\ call'[t] = c
        /\ \A u \in Thread \ {t} : call[u].pc = "idle" /\ call'[u] = call[u]
    BY <1>1, <1>4, <2>1, OthersIdle, Zenon DEF Quiet
  <2>3. \A u \in Thread : call'[u].pc = "idle"
    BY <2>1, <2>2
  <2> QED
    BY <1>4, <2>3, PromiseCrashes, Zenon DEF PromiseStep
<1> QED
  BY <1>5, <1>6

\* A write that enters the log changes the store at its key.
LEMMA StoreGrows ==
  ASSUME RecoveryInv, StoreIsLog, StoreIsLog', Undisturbed', NEW k \in Key,
         NEW kind \in {"put", "delete"}, Logs(k, kind), NEW v, v = Entry(k, kind).version
  PROVE  v \in Version /\ Store' = [Store EXCEPT ![k] = v]
<1>1. PICK log, new, n, w : /\ log = wal_file /\ new = wal_file' /\ n = Len(wal_file)
                            /\ w = Entry(k, kind)
  BY Zenon
<1>2. /\ w.version \in Version /\ new \in EngineLog /\ new[n + 1].payload = w
      /\ Len(new) = n + 1
  BY <1>1, LogGrows, ZenonT(30)
<1>3. log \in EngineLog /\ n \in Nat
  BY <1>1, InvTypes, Zenon
<1>4. w.key = k /\ w.version = v
  BY <1>1 DEF Entry
<1>5. KeyAt(new, n + 1) = k /\ VersionAt(new, n + 1) = v
  BY <1>2, <1>4, Zenon DEF KeyAt, VersionAt
<1>6. LastEntry(new, n + 1, k, 0, n + 1)
  <2>1. 0 \in Nat /\ 0 < n + 1
    BY <1>3
  <2> QED
    BY <1>2, <1>5, <2>1, NewLast, Zenon
<1>7. Recovered(k)' = v
  <2>1. PICK u : u = Recovered(k)'
    OBVIOUS
  <2>2. Latest(new, k, u)
    BY <1>1, <2>1, Zenon DEF StoreIsLog
  <2>3. n + 1 \in 1 .. Len(new)
    BY <1>2, <1>3
  <2>4. Latest(new, k, v)
    BY <1>2, <1>5, <1>6, <2>3, Zenon DEF Latest
  <2> QED
    BY <1>2, <2>1, <2>2, <2>4, OneLatest, Zenon
<1>8. ASSUME NEW x \in Key, x # k PROVE Recovered(x)' = Recovered(x)
  <2>1. PICK u, o : u = Recovered(x)' /\ o = Recovered(x)
    OBVIOUS
  <2>2. Latest(new, x, u) /\ Latest(log, x, o)
    BY <1>1, <2>1, Zenon DEF StoreIsLog
  <2>3. PICK r : new = Append(log, r)
    BY <1>1, Zenon DEF Logs
  <2>4. Latest(new, x, o)
    BY <1>1, <1>2, <1>3, <1>5, <1>8, <2>2, <2>3, AppendKeepsLatest, Zenon
  <2> QED
    BY <1>2, <2>1, <2>2, <2>4, OneLatest, Zenon
<1> QED
  BY <1>2, <1>4, <1>7, <1>8, Zenon DEF Store

\* WriteEntry is where a write takes effect.
LEMMA WriteStep ==
  ASSUME RecoveryInv, StoreIsLog, StoreIsLog', Quiet, Quiet', NEW t \in Thread,
         NEW k \in Key, NEW kind \in {"put", "delete"}, WriteEntry(t, kind, k)
  PROVE  PromiseStep
<1>1. PICK v : v = [id |-> writes + 1, kind |-> kind]
  BY Zenon
<1>2. PICK w : w = [key |-> k, version |-> v]
  BY Zenon
<1>3. PICK c : c = [pc |-> "apply", write |-> w]
  BY Zenon
<1>4. AppendOk(w) /\ Goto(t, c) /\ writes < MaxWrites
  BY <1>1, <1>2, <1>3, WriteAppends, Zenon
<1>5. /\ engine = "open" /\ call[t].pc = "idle" /\ acked_version' = acked_version
      /\ writes' = writes + 1 /\ DOMAIN call = Thread
  BY InvTypes, Zenon DEF WriteEntry, At
<1>6. Logs(k, kind)
  <2>1. PICK n : n = Len(wal_file)
    BY Zenon
  <2>2. PICK r : r = [lsn |-> n + 1, payload |-> w, crc |-> "match"]
    BY Zenon
  <2>3. next_sequence_number = n + 1
    BY <1>5, <2>1 DEF RecoveryInv, SerialLog
  <2>4. wal_file' = Append(wal_file, r)
    BY <1>4, <2>2, <2>3, Zenon DEF AppendOk, Stamped
  <2> QED
    BY <1>1, <1>2, <1>4, <1>5, <2>1, <2>2, <2>4, Zenon DEF Logs, Entry
<1>7. v = Entry(k, kind).version
  BY <1>1 DEF Entry
<1>8. v \in Version /\ Store' = [Store EXCEPT ![k] = v]
  BY <1>6, <1>7, StoreGrows, Zenon DEF Quiet
<1>9. c.pc = "apply" /\ c.write = w /\ w.key = k /\ w.version = v
  BY <1>2, <1>3
<1>10. ClientAt(c) = [at |-> "written", key |-> k, version |-> v]
  BY <1>9, ClientCases, SMTT(30) DEF Written
<1>11. ClientAt(call[t]) = [at |-> "idle"]
  BY <1>5, ClientCases
<1>12. Client' = [Client EXCEPT ![t] = ClientAt(c)] /\ Client[t] = ClientAt(call[t])
  BY <1>4, <1>5, ClientMoves, Zenon
<1> QED
  BY <1>5, <1>8, <1>10, <1>11, <1>12, PromiseWrites, Zenon DEF PromiseStep

\* ApplyToMemTable acknowledges the write, or goes on to flush, which no client sees.
LEMMA ApplyStep ==
  ASSUME RecoveryInv, NEW t \in Thread, ApplyToMemTable(t), Store' = Store
  PROVE  PromiseStep
<1>1. PICK n, w, old : n = Len(wal_file) /\ w = wal_file[n].payload /\ old = call[t]
  BY Zenon
<1>2. call[t].pc = "apply" /\ DOMAIN call = Thread /\ SerialLog /\ AckedInv
  BY InvTypes, Zenon DEF ApplyToMemTable, At, RecoveryInv
<1>3. engine # "closed"
  BY <1>2, InvTypes, Zenon
<1>4. PICK b \in 0 .. n : CallInv(call[t], b)
  BY <1>1, <1>3, Zenon DEF RecoveryInv, CutAt
<1>5. /\ engine = "open" /\ call[t].write = w /\ n # 0
      /\ \A k \in Key : acked_version[k].id < VersionAt(wal_file, n).id
  <2>1. /\ engine = "open" /\ call[t] = [pc |-> "apply", write |-> w] /\ b < n
        /\ \A k \in Key : acked_version[k].id < VersionAt(wal_file, n).id
    BY <1>1, <1>2, <1>4, Zenon DEF CallInv
  <2> QED
    BY <1>4, <2>1
<1>6. ClientAt(old) = Written(w)
  BY <1>1, <1>2, <1>5, ClientCases, Zenon
<1>7. \/ Goto(t, Idle) /\ Acknowledge({w})
      \/ Goto(t, [pc |-> "swap", ack |-> {w}]) /\ acked_version' = acked_version
  BY <1>5 DEF ApplyToMemTable, ReturnOk
<1>8. CASE Goto(t, Idle) /\ Acknowledge({w})
  <2>1. acked_version' = [acked_version EXCEPT ![w.key] = w.version]
    BY <1>1, <1>2, <1>5, <1>8, AckOne, Zenon
  <2>2. PICK c : c = Idle
    OBVIOUS
  <2>3. ClientAt(c) = [at |-> "idle"]
    BY <2>2, ClientCases DEF Idle
  <2>4. Client' = [Client EXCEPT ![t] = ClientAt(c)] /\ Client[t] = ClientAt(old)
    BY <1>1, <1>2, <1>8, <2>2, ClientMoves, Zenon
  <2> QED
    BY <1>6, <2>1, <2>3, <2>4, PromiseWriteReturns, Zenon DEF PromiseStep
<1>9. CASE Goto(t, [pc |-> "swap", ack |-> {w}]) /\ acked_version' = acked_version
  <2>1. PICK c : c = [pc |-> "swap", ack |-> {w}]
    BY Zenon
  <2>2. c.pc \in FlushPcs /\ c.ack = {w}
    BY <2>1 DEF FlushPcs
  <2>3. ClientAt(c) = Written(w)
    BY <2>2, ClientCases, Zenon
  <2> QED
    BY <1>1, <1>2, <1>6, <1>9, <2>1, <2>3, ClientStays, Zenon
<1> QED
  BY <1>7, <1>8, <1>9, Zenon

\* A flush, up to its return.
LEMMA FlushStep ==
  ASSUME RecoveryInv, Quiet, Quiet', NEW t \in Thread, Store' = Store,
         \/ SwapMemTable(t) \/ CaptureFlushLsn(t) \/ WriteLevel0(t) \/ RegisterLevel0(t)
         \/ CollectFiles(t) \/ SaveFlushCheckpoint(t)
  PROVE  PromiseStep
<1>1. ASSUME NEW c, Goto(t, c), call[t].pc \in FlushPcs, c.pc \in FlushPcs, c.ack = call[t].ack,
             acked_version' = acked_version
      PROVE  PromiseStep
  BY <1>1, FlushStays, Zenon
<1>2. PICK a, tb, l : a = call[t].ack /\ tb = call[t].table /\ l = call[t].flush_lsn
  BY SMTT(30)
<1>3. CASE SwapMemTable(t)
  <2>1. call[t].pc \in FlushPcs
    BY <1>3 DEF SwapMemTable, At, FlushPcs
  <2>2. CASE ReturnOk(t, call[t].ack)
    BY <2>1, <2>2, ReturnOkStep, Zenon
  <2>3. CASE /\ Goto(t, [pc |-> "lsn", ack |-> call[t].ack, table |-> active_memtable])
             /\ acked_version' = acked_version
    <3>1. PICK c : c = [pc |-> "lsn", ack |-> a, table |-> active_memtable]
      BY Zenon
    <3>2. c.pc \in FlushPcs /\ c.ack = a
      BY <3>1 DEF FlushPcs
    <3> QED
      BY <1>1, <1>2, <2>1, <2>3, <3>1, <3>2, Zenon
  <2> QED
    BY <1>3, <2>2, <2>3, Zenon DEF SwapMemTable
<1>4. CASE CaptureFlushLsn(t)
  <2>1. PICK c : c = [pc |-> "write", ack |-> a, table |-> tb,
                      flush_lsn |-> current_sequence_number]
    BY Zenon
  <2>2. c.pc \in FlushPcs /\ c.ack = a
    BY <2>1 DEF FlushPcs
  <2>3. Goto(t, c) /\ acked_version' = acked_version
    BY <1>2, <1>4, <2>1, Zenon DEF CaptureFlushLsn
  <2>4. call[t].pc \in FlushPcs
    BY <1>4, SMTT(30) DEF CaptureFlushLsn, At, FlushPcs
  <2> QED
    BY <1>1, <1>2, <2>2, <2>3, <2>4, Zenon
<1>5. CASE WriteLevel0(t)
  <2>1. PICK c : c = [pc |-> "add", ack |-> a, flush_lsn |-> l,
                      meta |-> Level0Meta(next_sst_sequence, tb, Min(DOMAIN tb), Max(DOMAIN tb))]
    BY Zenon
  <2>2. c.pc \in FlushPcs /\ c.ack = a
    BY <2>1 DEF FlushPcs
  <2>3. Goto(t, c) /\ acked_version' = acked_version
    <3>1. io_errors = 0 /\ ~ (io_errors' = io_errors + 1)
      BY SMTT(30) DEF Quiet, Undisturbed
    <3> QED
      BY <1>2, <1>5, <2>1, <3>1, Zenon DEF WriteLevel0
  <2>4. call[t].pc \in FlushPcs
    BY <1>5, ZenonT(30) DEF WriteLevel0, At, FlushPcs
  <2> QED
    BY <1>1, <1>2, <2>2, <2>3, <2>4, Zenon
<1>6. CASE RegisterLevel0(t)
  <2>1. PICK c : c = [pc |-> "files", ack |-> a, flush_lsn |-> l]
    BY Zenon
  <2>2. c.pc \in FlushPcs /\ c.ack = a
    BY <2>1 DEF FlushPcs
  <2>3. Goto(t, c) /\ acked_version' = acked_version
    BY <1>2, <1>6, <2>1, Zenon DEF RegisterLevel0
  <2>4. call[t].pc \in FlushPcs
    BY <1>6, ZenonT(30) DEF RegisterLevel0, At, FlushPcs
  <2> QED
    BY <1>1, <1>2, <2>2, <2>3, <2>4, Zenon
<1>7. CASE CollectFiles(t)
  <2>1. PICK c : c = [pc |-> "save", ack |-> a,
                      cp |-> [last_flushed_lsn |-> l, sstables |-> files]]
    BY Zenon
  <2>2. c.pc \in FlushPcs /\ c.ack = a
    BY <2>1 DEF FlushPcs
  <2>3. Goto(t, c) /\ acked_version' = acked_version
    BY <1>2, <1>7, <2>1, Zenon DEF CollectFiles
  <2>4. call[t].pc \in FlushPcs
    BY <1>7, Zenon DEF CollectFiles, At, FlushPcs
  <2> QED
    BY <1>1, <1>2, <2>2, <2>3, <2>4, Zenon
<1>8. CASE SaveFlushCheckpoint(t)
  <2>1. call[t].pc \in FlushPcs
    BY <1>8, Zenon DEF SaveFlushCheckpoint, At, FlushPcs
  <2>2. CASE ReturnOk(t, call[t].ack)
    BY <2>1, <2>2, ReturnOkStep, Zenon
  <2>3. CASE ReturnError(t)
    BY <2>1, <2>3, ReturnErrorStep, Zenon
  <2> QED
    BY <1>8, <2>2, <2>3, Zenon DEF SaveFlushCheckpoint
<1> QED
  BY <1>3, <1>4, <1>5, <1>6, <1>7, <1>8, Zenon

\* A Get begins, and may have its answer from the memtable.
LEMMA GetStep ==
  ASSUME RecoveryInv, Quiet, Quiet', NEW t \in Thread, NEW k \in Key,
         GetFromMemTable(t, k), Store' = Store
  PROVE  PromiseStep
<1>1. /\ engine = "open" /\ call[t].pc = "idle" /\ acked_version' = acked_version
      /\ DOMAIN call = Thread
  BY Zenon DEF GetFromMemTable, At, RecoveryInv, SessionInv
<1>2. PICK old : old = call[t]
  OBVIOUS
<1>3. ClientAt(old) = [at |-> "idle"]
  BY <1>1, <1>2, ClientCases, SMTT(30)
<1>4. CASE k \in DOMAIN active_memtable /\ active_memtable[k].kind = "put"
  <2>1. PICK c : c = [pc |-> "got", key |-> k, latest |-> acked_version[k],
                      found |-> active_memtable[k]]
    BY Zenon
  <2>2. Goto(t, c)
    BY <1>4, <2>1, Zenon DEF GetFromMemTable, Got
  <2>3. c.pc = "got" /\ c.key = k /\ c.found = active_memtable[k]
    BY <2>1
  <2>4. \A u \in Thread : ~ Apart(call[u])
    <3>1. \A u \in Thread \ {t} : call[u].pc = "idle"
      BY <1>1, <2>2, <2>3, OthersIdle, Zenon DEF Quiet
    <3> QED
      BY <1>1, <3>1, Zenon DEF Apart
  <2>5. Recovered(k) = active_memtable[k]
    BY <1>1, <1>4, <2>4, RecoveryInvCurrent, ZenonT(30) DEF Current
  <2>7. PICK v : v = active_memtable[k]
    OBVIOUS
  <2>8. v = Promise!Answer(k)
    BY <1>4, <2>5, <2>7, PromiseAnswers, ZenonT(30)
  <2>9. ClientAt(c) = [at |-> "answered", key |-> k, answer |-> v]
    BY <2>3, <2>7, ClientCases
  <2>10. Client' = [Client EXCEPT ![t] = ClientAt(c)] /\ Client[t] = ClientAt(old)
    BY <1>1, <1>2, <2>2, ClientMoves, Zenon
  <2>11. Client[t] \in {[at |-> "idle"], [at |-> "reading", key |-> k]}
    BY <1>3, <2>10
  <2> QED
    BY <1>1, <2>8, <2>9, <2>10, <2>11, PromiseGetAnswers, Zenon DEF PromiseStep
<1>5. CASE ~ (k \in DOMAIN active_memtable /\ active_memtable[k].kind = "put")
  <2>1. PICK c : c = [pc |-> "look", key |-> k, latest |-> acked_version[k]]
    BY Zenon
  <2>2. Goto(t, c)
    BY <1>5, <2>1, Zenon DEF GetFromMemTable
  <2>3. c.pc = "look" /\ c.key = k
    BY <2>1
  <2>4. ClientAt(c) = [at |-> "reading", key |-> k]
    BY <2>3, ClientCases, Zenon
  <2>5. Client' = [Client EXCEPT ![t] = ClientAt(c)] /\ Client[t] = ClientAt(old)
    BY <1>1, <1>2, <2>2, ClientMoves, Zenon
  <2> QED
    BY <1>1, <1>3, <2>4, <2>5, PromiseGetBegins, Zenon DEF PromiseStep
<1> QED
  BY <1>4, <1>5, ZenonT(30)

\* Copying the catalogue is no step of the store.
LEMMA SnapshotStep ==
  ASSUME RecoveryInv, NEW t \in Thread, GetSnapshot(t), Store' = Store
  PROVE  PromiseStep
<1>1. PICK old, c : /\ old = call[t]
                    /\ c = [pc |-> "search", key |-> call[t].key, latest |-> call[t].latest,
                            left |-> {f \in files : InRange(f, call[t].key)}]
  BY Zenon
<1>2. /\ Goto(t, c) /\ old.pc = "look" /\ acked_version' = acked_version
      /\ DOMAIN call = Thread
  BY <1>1, Zenon DEF GetSnapshot, At, RecoveryInv, SessionInv
<1>3. c.pc = "search" /\ c.key = old.key
  BY <1>1
<1>4. ClientAt(c) = [at |-> "reading", key |-> old.key]
  BY <1>3, ClientCases, ZenonT(30)
<1>5. ClientAt(old) = [at |-> "reading", key |-> old.key]
  BY <1>2, ClientCases
<1> QED
  BY <1>1, <1>2, <1>4, <1>5, ClientStays

\* A search for a key that the memtable does not have finds what recovery would rebuild.
LEMMA SearchAnswers ==
  ASSUME RecoveryInv, \A u \in Thread : ~ Apart(call[u]), NEW t \in Thread,
         call[t].pc = "search", NEW k, k = call[t].key, NEW left, left = call[t].left,
         k \notin DOMAIN active_memtable, NEW found,
         \/ left = {} /\ found = NoVersion
         \/ \E f \in left : /\ \A g \in left : ~ SearchedBefore(g, f)
                            /\ ReadKey(f, k) # NoVersion
                            /\ found = IF ReadKey(f, k).kind = "delete" THEN NoVersion
                                       ELSE ReadKey(f, k)
  PROVE  found = Promise!Answer(k)
<1>1. engine = "open" /\ wal_file \in EngineLog /\ damaged = {}
  BY GetAt DEF RecoveryInv, SerialLog, Whole, CheckpointInv, PathsInv
<1>2. PICK b \in 0 .. Len(wal_file) : CutAt(b)
  BY <1>1, Zenon DEF RecoveryInv
<1>3. FilesHold(wal_file, disk, files, b) /\ CallInv(call[t], b)
  BY <1>2, Zenon DEF CutAt
<1>4. /\ k \in Key /\ left \subseteq files
      /\ \A f \in files : HasKey(disk, f, k) => f \in left
  BY <1>3, ZenonT(30) DEF CallInv
<1>5. PICK v : v = Recovered(k)
  OBVIOUS
<1>6. v = FirstVersion(files, k)
  BY <1>1, <1>4, <1>5, RecoveryInvCurrent, ZenonT(30) DEF Current
<1>7. Len(wal_file) \in Nat /\ b \in Nat
  <2>1. Len(wal_file) \in Nat
    BY InvTypes, Zenon
  <2> QED
    BY <1>2, <2>1
<1>8. CASE left = {} /\ found = NoVersion
  <2>1. \A f \in files : ~ HasKey(disk, f, k)
    BY <1>4, <1>8
  <2>2. NoEntry(wal_file, k, 0, b)
    BY <1>3, <1>4, <2>1, Zenon DEF FilesHold, FoundFirst
  <2>3. FirstVersion(files, k) = NoVersion
    <3>1. \A i : ~ LastEntry(wal_file, i, k, 0, b)
      BY <1>7, <2>2, OneLast
    <3> QED
      BY <1>1, <1>2, <1>3, <1>4, <3>1, SearchFinds, Zenon
  <2> QED
    BY <1>4, <1>5, <1>6, <1>8, <2>3, PromiseAnswers, Zenon
<1>9. ASSUME NEW f \in left, \A g \in left : ~ SearchedBefore(g, f), ReadKey(f, k) # NoVersion,
             found = IF ReadKey(f, k).kind = "delete" THEN NoVersion ELSE ReadKey(f, k)
      PROVE  found = Promise!Answer(k)
  <2>1. f \in files /\ CanRead(f)
    <3>1. f \in files /\ f.filepath \in DOMAIN disk
      BY <1>3, <1>4, Zenon DEF FilesHold, Flushed
    <3> QED
      BY <1>1, <3>1 DEF CanRead
  <2>2. HasKey(disk, f, k) /\ ReadKey(f, k) = disk[f.filepath][k]
    BY <1>9, <2>1, Zenon DEF ReadKey, HasKey
  <2>3. PICK i \in 1 .. b : /\ LastEntry(wal_file, i, k, 0, b)
                            /\ disk[f.filepath][k] = VersionAt(wal_file, i)
    <3>1. f \in left /\ \A g \in left : ~ SearchedBefore(g, f)
      BY <1>9, Zenon
    <3> QED
      <4>1. FilesHold(wal_file, disk, files, b) /\ HasKey(disk, f, k)
        BY <1>3, <2>2, Zenon
      <4> QED
        BY <1>4, <3>1, <4>1, FirstIsFound, SMTT(30)
  <2>4. PICK j \in 1 .. b : /\ LastEntry(wal_file, j, k, 0, b)
                            /\ FirstVersion(files, k) = VersionAt(wal_file, j)
    <3>1. ~ NoEntry(wal_file, k, 0, b)
      BY <1>7, <2>3, OneLast, Zenon
    <3> QED
      BY <1>1, <1>2, <1>3, <1>4, <3>1, SearchFinds, Zenon
  <2>5. j = i
    BY <1>7, <2>3, <2>4, OneLast, Zenon
  <2>6. v = ReadKey(f, k)
    BY <1>6, <2>2, <2>3, <2>4, <2>5, ZenonT(30)
  <2>7. v.kind \in {"put", "delete"}
    <3>1. i \in 1 .. Len(wal_file)
      BY <1>2, <1>7, SMTT(30)
    <3>2. VersionAt(wal_file, i).kind \in {"put", "delete"}
      BY <1>1, <3>1, EntryType, Zenon
    <3> QED
      BY <1>6, <2>4, <2>5, <3>2, Zenon
  <2>8. \/ v.kind = "put" /\ found = v
        \/ v.kind = "delete" /\ found = NoVersion
    BY <1>9, <2>6, <2>7
  <2> QED
    BY <1>4, <1>5, <2>8, PromiseAnswers, Zenon
<1> QED
  BY <1>8, <1>9, Zenon

\* A search that passed no tombstone ends with the store's answer or goes on unseen.
LEMMA SearchStep ==
  ASSUME RecoveryInv, Quiet, Quiet', NEW t \in Thread, GetFromSSTable(t),
         ~ PassedTombstone(t), Store' = Store
  PROVE  PromiseStep
<1>1. /\ call[t].pc = "search" /\ call[t].pc # "idle" /\ acked_version' = acked_version
      /\ DOMAIN call = Thread
  BY DEF GetFromSSTable, At, RecoveryInv, SessionInv
<1>2. PICK old, k, latest, left :
        old = call[t] /\ k = call[t].key /\ latest = call[t].latest /\ left = call[t].left
  OBVIOUS
<1>3. ClientAt(old) = [at |-> "reading", key |-> k]
  BY <1>1, <1>2, ClientCases, SMTT(30)
<1>4. k \in Key /\ k \notin DOMAIN active_memtable
  <2>1. PICK b \in 0 .. Len(wal_file) : CallInv(call[t], b)
    BY <1>1, GetAt, ZenonT(30)
  <2>2. k \in Key /\ (k \in DOMAIN active_memtable => active_memtable[k].kind = "delete")
    BY <1>1, <1>2, <2>1, ZenonT(30) DEF CallInv
  <2> QED
    BY <1>1, <1>2, <2>2, Zenon DEF PassedTombstone, At
<1>5. ASSUME NEW found, Got(t, k, latest, found),
             \/ left = {} /\ found = NoVersion
             \/ \E f \in left : /\ \A g \in left : ~ SearchedBefore(g, f)
                                /\ ReadKey(f, k) # NoVersion
                                /\ found = IF ReadKey(f, k).kind = "delete" THEN NoVersion
                                           ELSE ReadKey(f, k)
      PROVE  PromiseStep
  <2>1. PICK c : c = [pc |-> "got", key |-> k, latest |-> latest, found |-> found]
    BY Zenon
  <2>2. Goto(t, c)
    BY <1>5, <2>1, Zenon DEF Got
  <2>3. c.pc = "got" /\ c.key = k /\ c.found = found
    BY <2>1
  <2>4. \A u \in Thread : ~ Apart(call[u])
    <3>1. \A u \in Thread \ {t} : call[u].pc = "idle"
      BY <1>1, <2>2, OthersIdle, Zenon DEF Quiet
    <3> QED
      BY <1>1, <3>1 DEF Apart
  <2>5. found = Promise!Answer(k)
    BY <1>1, <1>2, <1>4, <1>5, <2>4, SearchAnswers, Zenon
  <2>6. ClientAt(c) = [at |-> "answered", key |-> k, answer |-> found]
    BY <2>3, ClientCases
  <2>7. Client' = [Client EXCEPT ![t] = ClientAt(c)] /\ Client[t] = ClientAt(old)
    BY <1>1, <1>2, <2>2, ClientMoves, Zenon
  <2>8. Client[t] \in {[at |-> "idle"], [at |-> "reading", key |-> k]}
    BY <1>3, <2>7
  <2> QED
    BY <1>1, <1>4, <2>5, <2>6, <2>7, <2>8, PromiseGetAnswers, Zenon DEF PromiseStep
<1>6. ASSUME NEW f, Goto(t, [call[t] EXCEPT !.left = @ \ {f}]) PROVE PromiseStep
  <2>1. PICK c : c = [old EXCEPT !.left = @ \ {f}]
    BY Zenon
  <2>2. c.pc = "search" /\ c.key = k
    BY <1>1, <1>2, <2>1
  <2>3. ClientAt(c) = [at |-> "reading", key |-> k]
    BY <2>2, ClientCases
  <2> QED
    BY <1>1, <1>2, <1>3, <1>6, <2>1, <2>3, ClientStays, Zenon
<1> QED
  BY <1>2, <1>5, <1>6, Zenon DEF GetFromSSTable

\* Calls that are no reads and no writes, and their beginnings.
LEMMA MaintenanceStep ==
  ASSUME RecoveryInv, NEW t \in Thread, Store' = Store,
         CallFlush(t) \/ Destroy(t) \/ JoinThenFlush(t)
  PROVE  PromiseStep
<1>1. DOMAIN call = Thread /\ acked_version' = acked_version
  BY Zenon DEF RecoveryInv, SessionInv, CallFlush, Destroy, JoinThenFlush
<1>2. PICK old : old = call[t]
  OBVIOUS
<1>3. PICK c : Goto(t, c) /\ c \in {[pc |-> "join"], [pc |-> "gone"], [pc |-> "swap", ack |-> {}]}
  BY Zenon DEF CallFlush, Destroy, JoinThenFlush
<1>4. ClientAt(c) = Maintaining
  <2>1. c.pc \in {"join", "gone"} \/ (c.pc \in FlushPcs /\ c.ack = {})
    BY <1>3, SMTT(30) DEF FlushPcs
  <2> QED
    BY <2>1, ClientCases, Zenon
<1>5. old.pc = "idle" \/ old.pc = "join"
  BY <1>2 DEF CallFlush, Destroy, JoinThenFlush, At
<1>6. CASE old.pc = "idle"
  <2>1. ClientAt(old) = [at |-> "idle"]
    BY <1>6, ClientCases
  <2>2. Client' = [Client EXCEPT ![t] = ClientAt(c)] /\ Client[t] = ClientAt(old)
    BY <1>1, <1>2, <1>3, ClientMoves, Zenon
  <2> QED
    BY <1>1, <1>4, <2>1, <2>2, PromiseMaintains, Zenon DEF PromiseStep
<1>7. CASE old.pc = "join"
  <2>1. ClientAt(old) = Maintaining
    BY <1>7, ClientCases
  <2> QED
    BY <1>1, <1>2, <1>3, <1>4, <2>1, ClientStays, Zenon
<1> QED
  BY <1>5, <1>6, <1>7

\* A Get returns.
LEMMA GetReturnsStep ==
  ASSUME RecoveryInv, Quiet, Quiet', NEW t \in Thread, GetReturns(t), Store' = Store
  PROVE  PromiseStep
<1>1. /\ DOMAIN call = Thread /\ acked_version' = acked_version /\ Goto(t, Idle)
      /\ call[t].pc # "idle"
  BY DEF RecoveryInv, SessionInv, GetReturns, At
<1>2. PICK c : c = Idle
  OBVIOUS
<1>3. /\ call'[t] = c
      /\ \A u \in Thread \ {t} : call[u].pc = "idle" /\ call'[u] = call[u]
  BY <1>1, <1>2, OthersIdle, Zenon DEF Quiet
<1>4. \A u \in Thread : call'[u].pc = "idle"
  BY <1>2, <1>3 DEF Idle
<1> QED
  BY <1>1, <1>4, PromiseCrashes, Zenon DEF PromiseStep

\* The end of the process, in good order or not.
LEMMA ProcessEnds ==
  ASSUME ObjectGone, Store' = Store
  PROVE  PromiseStep
<1>1. acked_version' = acked_version /\ call' = [t \in Thread |-> Idle]
  BY Zenon DEF ObjectGone
<1>2. \A u \in Thread : call'[u].pc = "idle"
  BY <1>1 DEF Idle
<1> QED
  BY <1>1, <1>2, PromiseCrashes, Zenon DEF PromiseStep

\* A crash in the middle of a write, which is in the log or is not.
LEMMA WriteCrashes ==
  ASSUME RecoveryInv, StoreIsLog, StoreIsLog', Undisturbed', CrashInAppend
  PROVE  PromiseStep
<1>1. ObjectGone
  BY Zenon DEF CrashInAppend
<1>2. CASE wal_file' = wal_file
  <2>1. Store' = Store
    BY <1>2, InvTypes, StoreStays, Zenon
  <2> QED
    BY <1>1, <2>1, ProcessEnds, Zenon
<1>3. ASSUME NEW k \in Key, NEW kind \in {"put", "delete"}, Logs(k, kind) PROVE PromiseStep
  <2>1. PICK v : v = Entry(k, kind).version
    BY Zenon
  <2>2. v \in Version /\ Store' = [Store EXCEPT ![k] = v]
    BY <1>3, <2>1, StoreGrows, Zenon
  <2>3. acked_version' = acked_version /\ call' = [t \in Thread |-> Idle]
    BY <1>1, Zenon DEF ObjectGone
  <2>4. \A u \in Thread : call'[u].pc = "idle"
    BY <2>3 DEF Idle
  <2> QED
    BY <2>2, <2>3, <2>4, PromiseCrashesInWrite, Zenon DEF PromiseStep
<1> QED
  BY <1>2, <1>3, CrashInAppendLogs, Zenon

\* A step that no client notices.
LEMMA CallsStay ==
  ASSUME call' = call, acked_version' = acked_version, Store' = Store
  PROVE  PromiseStep
<1>1. Client' = Client
  BY DEF Client
<1> QED
  BY <1>1, PromiseStutters, Zenon DEF PromiseStep

\* Only a write changes the log.
LEMMA LogStays ==
  ASSUME RecoveryInv, [EngineNext]_engineVars, ~ CrashInAppend,
         ~ \E t \in Thread, kind \in {"put", "delete"}, k \in Key : WriteEntry(t, kind, k)
  PROVE  wal_file' = wal_file
<1>1. ASSUME NEW t \in Thread, ClientStep(t) PROVE wal_file' = wal_file
  <2>1. CASE Destroyed(t)
    <3>1. unflushed = <<>> /\ wal_file \in EngineLog
      BY DEF RecoveryInv, SerialLog, Whole
    <3>2. wal_file \o unflushed = wal_file
      BY <3>1 DEF EngineLog
    <3> QED
      BY <2>1, <3>2, Zenon DEF Destroyed, WALClose
  <2>2. CASE \/ ApplyToMemTable(t) \/ CallFlush(t) \/ SwapMemTable(t) \/ CaptureFlushLsn(t)
             \/ WriteLevel0(t) \/ RegisterLevel0(t) \/ CollectFiles(t) \/ SaveFlushCheckpoint(t)
    <3>1. UNCHANGED walVars
      BY <2>2, Zenon DEF ApplyToMemTable, CallFlush, SwapMemTable, CaptureFlushLsn, WriteLevel0,
          RegisterLevel0, CollectFiles, SaveFlushCheckpoint
    <3> QED
      BY <3>1, Zenon DEF walVars
  <2>3. CASE \/ \E k \in Key : GetFromMemTable(t, k)
             \/ GetSnapshot(t) \/ GetFromSSTable(t) \/ GetReturns(t)
             \/ Destroy(t) \/ JoinThenFlush(t)
    <3>1. UNCHANGED walVars
      BY <2>3, Zenon DEF GetFromMemTable, GetSnapshot, GetFromSSTable, GetReturns, Destroy,
          JoinThenFlush
    <3> QED
      BY <3>1, Zenon DEF walVars
  <2>4. ~ \E kind \in Calls \cap {"put", "delete"}, k \in Key : WriteEntry(t, kind, k)
    OBVIOUS
  <2> QED
    BY <1>1, <2>1, <2>2, <2>3, <2>4, Zenon DEF ClientStep
<1>2. CASE LoopStep
  <2>1. UNCHANGED walVars
    BY <1>2, Zenon DEF LoopStep, LoopStart, LoopCompact, LoopCaptureLsn, LoopCollectFiles,
        LoopSaveCheckpoint, LoopExit
  <2> QED
    BY <2>1, Zenon DEF walVars
<1>3. CASE Open \/ Crash \/ CrashInFlush \/ CrashInMerge
  BY <1>3, Zenon DEF Open, WALOpen, Crash, CrashInFlush, CrashInMerge, WALCrash
<1>4. CASE UNCHANGED engineVars
  BY <1>4, Zenon DEF engineVars, walVars
<1> QED
  BY <1>1, <1>2, <1>3, <1>4, Zenon DEF EngineNext

\* Every step of the engine is a step of the store or a stutter, or it is one of a
\* search that passed a tombstone.
LEMMA EngineStep ==
  ASSUME RecoveryInv, StoreIsLog, StoreIsLog', Quiet, Quiet', [EngineNext]_engineVars,
         ~ \E t \in Thread : PassedTombstone(t) /\ GetFromSSTable(t)
  PROVE  PromiseStep
<1>1. CASE \E t \in Thread, kind \in {"put", "delete"}, k \in Key : WriteEntry(t, kind, k)
  BY <1>1, WriteStep, Zenon
<1>2. CASE CrashInAppend
  BY <1>2, WriteCrashes, Zenon DEF Quiet
<1>3. CASE /\ ~ CrashInAppend
           /\ ~ \E t \in Thread, kind \in {"put", "delete"}, k \in Key : WriteEntry(t, kind, k)
  <2>1. Store' = Store
    <3>1. wal_file' = wal_file
      BY <1>3, LogStays, Zenon
    <3> QED
      BY <3>1, InvTypes, StoreStays, Zenon
  <2>2. ASSUME NEW t \in Thread, ClientStep(t) PROVE PromiseStep
    <3>1. CASE ApplyToMemTable(t)
      BY <2>1, <3>1, ApplyStep, Zenon
    <3>2. CASE \/ SwapMemTable(t) \/ CaptureFlushLsn(t) \/ WriteLevel0(t) \/ RegisterLevel0(t)
               \/ CollectFiles(t) \/ SaveFlushCheckpoint(t)
      BY <2>1, <3>2, FlushStep, Zenon
    <3>3. CASE CallFlush(t) \/ Destroy(t) \/ JoinThenFlush(t)
      BY <2>1, <3>3, MaintenanceStep, Zenon
    <3>4. CASE \E k \in Key : GetFromMemTable(t, k)
      BY <2>1, <3>4, GetStep, Zenon
    <3>5. CASE GetSnapshot(t)
      BY <2>1, <3>5, SnapshotStep, Zenon
    <3>6. CASE GetFromSSTable(t)
      BY <2>1, <3>6, SearchStep, Zenon
    <3>7. CASE GetReturns(t)
      BY <2>1, <3>7, GetReturnsStep, Zenon
    <3>8. CASE Destroyed(t)
      BY <2>1, <3>8, ProcessEnds, Zenon DEF Destroyed
    <3>9. ~ \E kind \in Calls \cap {"put", "delete"}, k \in Key : WriteEntry(t, kind, k)
      BY <1>3
    <3> QED
      BY <2>2, <3>1, <3>2, <3>3, <3>4, <3>5, <3>6, <3>7, <3>8, <3>9, Zenon DEF ClientStep
  <2>3. CASE Crash \/ CrashInFlush \/ CrashInMerge
    BY <2>1, <2>3, ProcessEnds, Zenon DEF Crash, CrashInFlush, CrashInMerge
  <2>4. CASE LoopStep \/ Open \/ UNCHANGED engineVars
    <3>1. call' = call /\ acked_version' = acked_version
      <4>1. CASE LoopStep
        <5>1. UNCHANGED clientVars
          BY <4>1, Zenon DEF LoopStep, LoopStart, LoopCompact, LoopCaptureLsn, LoopCollectFiles,
              LoopSaveCheckpoint, LoopExit
        <5> QED
          BY <5>1, Zenon DEF clientVars
      <4>2. CASE Open
        BY <4>2, Zenon DEF Open
      <4>3. CASE UNCHANGED engineVars
        BY <4>3, Zenon DEF engineVars, clientVars
      <4> QED
        BY <2>4, <4>1, <4>2, <4>3
    <3> QED
      BY <2>1, <3>1, CallsStay, Zenon
  <2> QED
    BY <1>3, <2>2, <2>3, <2>4, Zenon DEF EngineNext
<1> QED
  BY <1>1, <1>2, <1>3, Zenon

\* If its calls follow one another (Serial), the engine implements the key-value store
\* for as long as nothing disturbs it: every step, a crash anywhere and a failed save of
\* the checkpoint included, is a step of the store or changes nothing a client can see,
\* unless it is the step of a Get that passed a tombstone in the memtable.
THEOREM EngineRefinesKeyValueStore == EngineSpec /\ []Serial => RefinesKeyValueStore
<1>1. EngineInit => Promise!Init
  <2> SUFFICES ASSUME EngineInit PROVE Promise!Init
    OBVIOUS
  <2>1. /\ wal_file = <<>> /\ call = [t \in Thread |-> Idle]
        /\ acked_version = [k \in Key |-> NoVersion]
    BY Zenon DEF EngineInit, WALInit
  <2>2. \A k \in Key : Latest(wal_file, k, Recovered(k))
    BY RecoveryInvInit, RecoveryInvStore, Zenon DEF StoreIsLog
  <2>3. ASSUME NEW k \in Key PROVE Recovered(k) = NoVersion
    <3>1. Len(wal_file) = 0
      BY <2>1
    <3>2. ~ \E i \in 1 .. Len(wal_file) : TRUE
      BY <3>1, SMTT(30)
    <3> QED
      BY <2>2, <3>2, Zenon DEF Latest
  <2>4. ASSUME NEW t \in Thread PROVE ClientAt(call[t]) = [at |-> "idle"]
    <3>1. PICK c : c = call[t]
      OBVIOUS
    <3>2. c.pc = "idle"
      BY <2>1, <3>1 DEF Idle
    <3> QED
      BY <3>1, <3>2, ClientCases
  <2> QED
    BY <2>1, <2>3, <2>4 DEF Promise!Init, Promise!Idle
<1> DEFINE Step == \/ Promise!Next
                   \/ UNCHANGED Promise!kvVars
                   \/ \E t \in Thread : PassedTombstone(t) /\ GetFromSSTable(t)
<1>2. ASSUME WALInv, WritesCounted, FailuresCounted, Serial, Serial',
             Undisturbed => RecoveryInv, Undisturbed => StoreIsLog,
             (Undisturbed => StoreIsLog)', [EngineNext]_engineVars
      PROVE  FailuresCounted' /\ [Undisturbed' => Step]_engineVars
  <2>1. FailuresCounted' /\ (Undisturbed' => Undisturbed)
    BY <1>2, UndisturbedBefore, Zenon
  <2>2. ASSUME Undisturbed', ~ \E t \in Thread : PassedTombstone(t) /\ GetFromSSTable(t)
        PROVE  PromiseStep
    <3>1. RecoveryInv /\ StoreIsLog /\ StoreIsLog' /\ Quiet /\ Quiet'
      BY <1>2, <2>1, <2>2, Zenon DEF Quiet
    <3> QED
      BY <1>2, <2>2, <3>1, EngineStep, Zenon
  <2> QED
    BY <2>1, <2>2, Zenon DEF PromiseStep
<1>3. EngineInit => FailuresCounted
  BY DEF EngineInit, CompactionInit, FailuresCounted
<1>4. EngineSpec => []WALInv
  BY EngineImplementsLog, WALInvariant, PTL
<1>5. (Undisturbed => RecoveryInv) => (Undisturbed => StoreIsLog)
  BY RecoveryInvStore
<1> QED
  BY <1>1, <1>2, <1>3, <1>4, <1>5, EngineRecoveryInv, WritesCountedInit, WritesCountedNext, PTL
     DEF EngineSpec, RefinesKeyValueStore
=============================================================================
