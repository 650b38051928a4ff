------------------------- MODULE EngineTablesProofs --------------------------
(***************************************************************************)
(* Within a session the engine uses the SSTables as CompactionSpec says:   *)
(* any number of client threads that write, flush and read next to the     *)
(* compaction thread, with failing reads and writes.  What is proved of    *)
(* CompactionSpec in CompactionProofs so holds in the engine.              *)
(***************************************************************************)
EXTENDS EngineTables, FiniteSetTheorems, TLAPS

\* The engine is opened once: nobody closes it and it does not crash.
OneSession == Calls \cap {"close", "crash", "torn"} = {}
----------------------------------------------------------------------------
(* The engine and CompactionSpec mean the same by the catalogue, the disk  *)
(* and the steps of RunCompaction.                                         *)

\* Sets.
LEMMA SameSets ==
  /\ \A S : SSTables!Cardinality(S) = Cardinality(S)
  /\ \A S : SSTables!Min(S) = Min(S) /\ SSTables!Max(S) = Max(S)
  /\ \A S, T : SSTables!Surjection(S, T) = Surjection(S, T)
  /\ \A S, T : SSTables!Bijection(S, T) = Bijection(S, T)
<1>1. \A S : SSTables!Cardinality(S) = Cardinality(S)
  BY Zenon DEF Cardinality, SSTables!Cardinality
<1>2. \A S : SSTables!Min(S) = Min(S) /\ SSTables!Max(S) = Max(S)
  BY Zenon DEF Min, Max, SSTables!Min, SSTables!Max
<1>3. \A S, T : SSTables!Surjection(S, T) = Surjection(S, T)
  BY Zenon DEF Surjection, SSTables!Surjection
<1>4. \A S, T : SSTables!Bijection(S, T) = Bijection(S, T)
  BY <1>3, Zenon DEF Bijection, SSTables!Bijection, Injection, SSTables!Injection,
              IsInjective, SSTables!IsInjective
<1> QED
  BY <1>1, <1>2, <1>3, <1>4, ZenonT(30)

\* The choice of the input.
LEMMA SameSelect == SSTables!SelectCompactionFiles <=> SelectCompactionFiles
<1>1. \A l : SSTables!GetFilesAtLevel(l) = GetFilesAtLevel(l)
  BY Zenon DEF GetFilesAtLevel, SSTables!GetFilesAtLevel
<1>2. \A l : SSTables!TotalBytesAtLevel(l) = TotalBytesAtLevel(l)
  BY <1>1, Zenon DEF TotalBytesAtLevel, SSTables!TotalBytesAtLevel, MapThenSumSet,
              SSTables!MapThenSumSet, MapThenFoldSet, SSTables!MapThenFoldSet
<1>3. \A l : SSTables!MaxBytesForLevel(l) = MaxBytesForLevel(l)
  BY Zenon DEF MaxBytesForLevel, SSTables!MaxBytesForLevel
<1>4. SSTables!PickCompactionLevel = PickCompactionLevel
  BY <1>1, <1>2, <1>3, SameSets, Zenon DEF PickCompactionLevel, SSTables!PickCompactionLevel
<1>5. \A l : SSTables!SourceChoices(l) = SourceChoices(l)
  BY <1>1, Zenon DEF SourceChoices, SSTables!SourceChoices
<1>6. \A s, l : SSTables!Overlapping(s, l) = Overlapping(s, l)
  BY <1>1, SameSets, Zenon
     DEF Overlapping, SSTables!Overlapping, OverlapsWith, SSTables!OverlapsWith
<1>7. \A s : SSTables!SortOrders(s) = SortOrders(s)
  BY SameSets, ZenonT(30) DEF SortOrders, SSTables!SortOrders
<1>8. \A s, t, a, b : SSTables!Numbered(s, t, a, b) = Numbered(s, t, a, b)
  BY SameSets, Zenon DEF Numbered, SSTables!Numbered
<1> QED
  BY <1>4, <1>5, <1>6, <1>7, <1>8, Zenon
  DEF SelectCompactionFiles, NeedsCompaction, SSTables!SelectCompactionFiles,
      SSTables!NeedsCompaction

\* The merge.
LEMMA SameMerge ==
  /\ SSTables!MergeFiles <=> MergeFiles
  /\ SSTables!MergeReadFails <=> MergeReadFails
  /\ SSTables!MergeWriteFails <=> MergeWriteFails
<1>1. \A k : SSTables!Winner(k) = Winner(k)
  BY Zenon DEF Winner, SSTables!Winner, Has, SSTables!Has
<1>2. SSTables!MergedKeys = MergedKeys
  BY <1>1, Zenon DEF MergedKeys, SSTables!MergedKeys, EmptyKey, SSTables!EmptyKey
<1>3. SSTables!Merged = Merged
  BY <1>1, <1>2, Zenon DEF Merged, SSTables!Merged
<1>4. \A m : SSTables!Splits(m) = Splits(m)
  BY <1>2, SameSets, Zenon DEF Splits, SSTables!Splits
<1>5. \A part, j : SSTables!PartKeys(part, j) = PartKeys(part, j)
  BY <1>2, Zenon DEF PartKeys, SSTables!PartKeys
<1>6. \A j : SSTables!OutputPath(j) = OutputPath(j)
  BY Zenon DEF OutputPath, SSTables!OutputPath
<1>7. \A part, j, size : SSTables!OutputMeta(part, j, size) = OutputMeta(part, j, size)
  BY <1>5, <1>6, SameSets, Zenon DEF OutputMeta, SSTables!OutputMeta
<1>8. \A part, m : SSTables!WithOutputs(part, m) = WithOutputs(part, m)
  BY <1>3, <1>5, <1>6, Zenon DEF WithOutputs, SSTables!WithOutputs
<1>9. SSTables!InputsReadable <=> InputsReadable
  BY Zenon DEF InputsReadable, SSTables!InputsReadable, CanRead, SSTables!CanRead
<1>10. \A d, path : SSTables!Unreadable(d, path) = Unreadable(d, path)
  BY Zenon DEF Unreadable, SSTables!Unreadable
<1>11. SSTables!JobGivenUp <=> JobGivenUp
  BY Zenon DEF JobGivenUp, SSTables!JobGivenUp
<1>12. \A part, m, lost : SSTables!OutputSizes(part, m, lost) = OutputSizes(part, m, lost)
  BY <1>2, <1>5, SameSets, Zenon DEF OutputSizes, SSTables!OutputSizes
<1>13. \A m, lost : SSTables!DamagedBy(m, lost) = DamagedBy(m, lost)
  BY <1>6, Zenon DEF DamagedBy, SSTables!DamagedBy
<1>14. \A part, j : SSTables!WriteUpTo(part, j) <=> WriteUpTo(part, j)
  BY <1>6, <1>8, <1>10, <1>13, Zenon DEF WriteUpTo, SSTables!WriteUpTo
<1>15. SSTables!MergeFiles <=> MergeFiles
  <2> DEFINE Writes(m, part, lost) ==
               /\ disk' = WithOutputs(part, m)
               /\ damaged' = DamagedBy(m, lost)
               /\ \E size \in OutputSizes(part, m, lost) :
                    new_files' = {OutputMeta(part, j, size[j]) : j \in 1 .. m}
               /\ next_file_number' = next_file_number + m + 1
               /\ lost # {} => io_errors < MaxIoErrors
               /\ io_errors' = IF lost = {} THEN io_errors ELSE io_errors + 1
             WritesToo(m, part, lost) ==
               /\ disk' = SSTables!WithOutputs(part, m)
               /\ damaged' = SSTables!DamagedBy(m, lost)
               /\ \E size \in SSTables!OutputSizes(part, m, lost) :
                    new_files' = {SSTables!OutputMeta(part, j, size[j]) : j \in 1 .. m}
               /\ next_file_number' = next_file_number + m + 1
               /\ lost # {} => io_errors < MaxIoErrors
               /\ io_errors' = IF lost = {} THEN io_errors ELSE io_errors + 1
  <2>1. \A m, part, lost : WritesToo(m, part, lost) <=> Writes(m, part, lost)
    <3> TAKE m, part, lost
    <3> DEFINE Named(size) == {OutputMeta(part, j, size[j]) : j \in 1 .. m}
               NamedToo(size) == {SSTables!OutputMeta(part, j, size[j]) : j \in 1 .. m}
    <3>1. \A size : NamedToo(size) = Named(size)
      BY <1>7, Zenon
    <3>2. /\ SSTables!OutputSizes(part, m, lost) = OutputSizes(part, m, lost)
          /\ SSTables!WithOutputs(part, m) = WithOutputs(part, m)
          /\ SSTables!DamagedBy(m, lost) = DamagedBy(m, lost)
      BY <1>8, <1>12, <1>13, Zenon
    <3> HIDE DEF Named, NamedToo
    <3>3. (\E size \in SSTables!OutputSizes(part, m, lost) : new_files' = NamedToo(size))
            <=> \E size \in OutputSizes(part, m, lost) : new_files' = Named(size)
      BY <3>1, <3>2, Zenon
    <3> QED
      BY <3>2, <3>3, Zenon DEF Named, NamedToo
  <2>2. MergeFiles <=> /\ step = "merge" /\ InputsReadable
                       /\ \E m \in 0 .. MaxOutputs : \E part \in Splits(m), lost \in SUBSET (1 .. m) :
                            Writes(m, part, lost)
                       /\ step' = IF new_files' = {} THEN "remove" ELSE "add"
                       /\ UNCHANGED <<files, target_level, all_inputs>>
    BY Zenon DEF MergeFiles
  <2>3. SSTables!MergeFiles <=>
          /\ step = "merge" /\ SSTables!InputsReadable
          /\ \E m \in 0 .. MaxOutputs : \E part \in SSTables!Splits(m), lost \in SUBSET (1 .. m) :
               WritesToo(m, part, lost)
          /\ step' = IF new_files' = {} THEN "remove" ELSE "add"
          /\ UNCHANGED <<files, target_level, all_inputs>>
    BY Zenon DEF SSTables!MergeFiles
  <2> HIDE DEF Writes, WritesToo
  <2> QED
    BY <1>4, <1>9, <2>1, <2>2, <2>3, Zenon
<1>16. SSTables!MergeReadFails <=> MergeReadFails
  BY <1>9, <1>11, Zenon DEF MergeReadFails, SSTables!MergeReadFails
<1>17. SSTables!MergeWriteFails <=> MergeWriteFails
  BY <1>4, <1>9, <1>11, <1>14, Zenon DEF MergeWriteFails, SSTables!MergeWriteFails
<1> QED
  BY <1>15, <1>16, <1>17, ZenonT(30)

\* The catalogue.
LEMMA SameAddFile == \A meta : SSTables!AddFile(meta) <=> AddFile(meta)
  BY SameSets, Zenon DEF AddFile, SSTables!AddFile

\* The calls of RunCompaction to it.
LEMMA SameCatalogue ==
  /\ SSTables!AddOutput <=> AddOutput
  /\ SSTables!RemoveInput <=> RemoveInput
  /\ SSTables!UnlinkInput <=> UnlinkInput
<1>1. \A f : SSTables!FirstInput(f) <=> FirstInput(f)
  BY Zenon DEF FirstInput, SSTables!FirstInput, ListedBefore, SSTables!ListedBefore
<1>2. SSTables!AddOutput <=> AddOutput
  BY SameAddFile, Zenon DEF AddOutput, SSTables!AddOutput
<1>3. SSTables!RemoveInput <=> RemoveInput
  BY <1>1, Zenon DEF RemoveInput, SSTables!RemoveInput, RemoveFile, SSTables!RemoveFile
<1>4. SSTables!UnlinkInput <=> UnlinkInput
  BY <1>1, Zenon DEF UnlinkInput, SSTables!UnlinkInput, Unreadable, SSTables!Unreadable
<1> QED
  BY <1>2, <1>3, <1>4, ZenonT(30)

\* The files of a flush.
LEMMA SameFlush ==
  /\ \A seq : SSTables!Level0Path(seq) = Level0Path(seq)
  /\ \A seq, table, lo, hi : SSTables!Level0Meta(seq, table, lo, hi)
                               = Level0Meta(seq, table, lo, hi)
  /\ \A path, table : SSTables!WithTable(path, table) = WithTable(path, table)
  /\ \A d, path : SSTables!Unreadable(d, path) = Unreadable(d, path)
  /\ SSTables!Table = Table /\ SSTables!EmptyKey = EmptyKey
  /\ SSTables!CompactionInit <=> CompactionInit
<1>1. \A seq : SSTables!Level0Path(seq) = Level0Path(seq)
  BY Zenon DEF Level0Path, SSTables!Level0Path
<1>2. \A seq, table, lo, hi : SSTables!Level0Meta(seq, table, lo, hi)
                                = Level0Meta(seq, table, lo, hi)
  BY <1>1, SameSets, Zenon DEF Level0Meta, SSTables!Level0Meta
<1>3. \A path, table : SSTables!WithTable(path, table) = WithTable(path, table)
  BY Zenon DEF WithTable, SSTables!WithTable
<1>4. \A d, path : SSTables!Unreadable(d, path) = Unreadable(d, path)
  BY ZenonT(30) DEF Unreadable, SSTables!Unreadable
<1>5. \A S : SSTables!IsFiniteSet(S) <=> IsFiniteSet(S)
  BY Zenon DEF IsFiniteSet, SSTables!IsFiniteSet
<1>6. SSTables!Table = Table
  BY <1>5, Zenon DEF Table, SSTables!Table
<1>7. SSTables!EmptyKey = EmptyKey
  BY Zenon DEF EmptyKey, SSTables!EmptyKey
<1>8. SSTables!CompactionInit <=> CompactionInit
  BY Zenon DEF CompactionInit, SSTables!CompactionInit
<1> QED
  BY <1>1, <1>2, <1>3, <1>4, <1>6, <1>7, <1>8, Zenon
----------------------------------------------------------------------------
(* The invariant.                                                          *)

\* The calls that will draw a sequence number, and those that have drawn one for
\* a file that they have not registered yet.
FlushPcs == {"swap", "lsn", "write"}
Flushing == {t \in Thread : call[t].pc \in FlushPcs}
Adding == {t \in Thread : At(t, "add")}
Pending == {call[t].meta : t \in Adding}

\* A call, with n the next sequence number: what it writes is an SSTable with at
\* least one key, and the number of its file has been drawn.
CallOK(c, n) ==
  /\ c.pc \notin {"join", "gone"}
  /\ c.pc = "apply" => c.write \in [key : Key, version : Version]
  /\ c.pc \in {"lsn", "write"} => c.table \in Table /\ DOMAIN c.table # {}
  /\ c.pc = "add" => c.meta.sequence_number \in 0 .. n - 1
  /\ c.pc = "search" => c = [pc |-> "search", key |-> c.key, latest |-> c.latest,
                             left |-> c.left]

\* Nothing has happened before the engine is opened.
Unopened ==
  /\ files = {} /\ checkpoint.sstables = {} /\ wal_file = <<>>
  /\ call = [t \in Thread |-> Idle] /\ loop = "exited"

\* Two flushes have drawn different numbers, and each call that will draw one
\* began when fewer than MaxFlushes had been drawn.
TablesInv ==
  /\ DOMAIN call = Thread
  /\ active_memtable \in Table
  /\ next_sst_sequence \in Nat \ {0}
  /\ writes \in Nat
  /\ engine \in {"closed", "open"}
  /\ engine = "closed" => Unopened
  /\ \A t \in Thread : CallOK(call[t], next_sst_sequence)
  /\ \A t, u \in Adding : t # u => call[t].meta.sequence_number # call[u].meta.sequence_number
  /\ next_sst_sequence + Cardinality(Flushing) <= MaxFlushes + Cardinality(Thread) + 1

\* It holds at first.
LEMMA TablesInvInit ==
  ASSUME IsFiniteSet(Thread), EngineInit
  PROVE  TablesInv
<1>1. Flushing = {} /\ Adding = {}
  BY Zenon DEF EngineInit, Flushing, FlushPcs, Adding, At, Idle
<1>2. Cardinality(Flushing) = 0 /\ Cardinality(Thread) \in Nat
  BY <1>1, FS_EmptySet, FS_CardinalityType, Zenon
<1>3. EmptyTable \in Table
  <2>1. IsFiniteSet({}) /\ {} \in SUBSET Key
    BY FS_EmptySet, Zenon
  <2>2. EmptyTable \in [{} -> Version]
    BY Zenon DEF EmptyTable
  <2> QED
    BY <2>1, <2>2, Zenon DEF Table
<1>4. MaxFlushes \in Nat
  BY EngineConstants, Zenon
<1>5. \A t \in Thread : CallOK(call[t], next_sst_sequence)
  BY Zenon DEF EngineInit, CallOK, Idle
<1>6. Unopened
  BY Zenon DEF EngineInit, Unopened, WALInit, CompactionInit, NoCheckpoint
<1>7. DOMAIN call = Thread /\ active_memtable \in Table /\ next_sst_sequence = 1 /\ writes = 0
      /\ engine = "closed"
  BY <1>3, Zenon DEF EngineInit
<1> QED
  BY <1>1, <1>2, <1>4, <1>5, <1>6, <1>7 DEF TablesInv

\* A call that goes on to c changes the set of flushes by its own only.
LEMMA FlushingMoves ==
  ASSUME IsFiniteSet(Thread), DOMAIN call = Thread, NEW t \in Thread, NEW c, Goto(t, c)
  PROVE  /\ Cardinality(Flushing) \in Nat /\ Cardinality(Flushing') \in Nat
         /\ Cardinality(Flushing') <= Cardinality(Thread) /\ Cardinality(Thread) \in Nat
         /\ (c.pc \in FlushPcs <=> call[t].pc \in FlushPcs) => Flushing' = Flushing
         /\ (c.pc \notin FlushPcs /\ call[t].pc \in FlushPcs)
              => Cardinality(Flushing') = Cardinality(Flushing) - 1
<1>1. call' = [call EXCEPT ![t] = c] /\ call'[t] = c /\ \A u \in Thread \ {t} : call'[u] = call[u]
  BY Zenon DEF Goto
<1>2. Flushing \subseteq Thread /\ Flushing' \subseteq Thread
  BY Zenon DEF Flushing
<1>3. IsFiniteSet(Flushing) /\ IsFiniteSet(Flushing')
  BY <1>2, FS_Subset, Zenon
<1>4. (c.pc \in FlushPcs <=> call[t].pc \in FlushPcs) => Flushing' = Flushing
  BY <1>1, Zenon DEF Flushing, FlushPcs
<1>5. ASSUME c.pc \notin FlushPcs, call[t].pc \in FlushPcs
      PROVE  Cardinality(Flushing') = Cardinality(Flushing) - 1
  <2>1. t \in Flushing /\ Flushing' = Flushing \ {t}
    BY <1>1, <1>5, Zenon DEF Flushing, FlushPcs
  <2> QED
    BY <2>1, <1>3, FS_RemoveElement, Zenon
<1>6. Cardinality(Flushing') <= Cardinality(Thread)
  BY <1>2, FS_Subset, Zenon
<1> QED
  BY <1>3, <1>4, <1>5, <1>6, FS_CardinalityType, Zenon

\* The pending files when a call goes on to c.
LEMMA PendingMoves ==
  ASSUME DOMAIN call = Thread, NEW t \in Thread, NEW c, Goto(t, c)
  PROVE  /\ (call[t].pc # "add" /\ c.pc # "add") => Adding' = Adding /\ Pending' = Pending
         /\ (call[t].pc # "add" /\ c.pc = "add")
              => Adding' = Adding \cup {t} /\ Pending' = Pending \cup {c.meta}
         /\ (call[t].pc = "add" /\ c.pc # "add")
              => Adding' = Adding \ {t} /\ Pending' = {call[u].meta : u \in Adding \ {t}}
<1>1. call' = [call EXCEPT ![t] = c] /\ call'[t] = c /\ \A u \in Thread \ {t} : call'[u] = call[u]
  BY Zenon DEF Goto
<1>2. ASSUME call[t].pc # "add", c.pc # "add" PROVE Adding' = Adding /\ Pending' = Pending
  <2>1. Adding' = Adding /\ t \notin Adding
    BY <1>1, <1>2, Zenon DEF Adding, At
  <2> QED
    BY <1>1, <2>1, ZenonT(30) DEF Pending, Adding
<1>3. ASSUME call[t].pc # "add", c.pc = "add"
      PROVE  Adding' = Adding \cup {t} /\ Pending' = Pending \cup {c.meta}
  <2>1. Adding' = Adding \cup {t} /\ t \notin Adding
    BY <1>1, <1>3, Zenon DEF Adding, At
  <2>2. Adding \subseteq Thread \ {t}
    BY <2>1, Zenon DEF Adding
  <2> QED
    BY <1>1, <2>1, <2>2, Zenon DEF Pending
<1>4. ASSUME call[t].pc = "add", c.pc # "add"
      PROVE  Adding' = Adding \ {t} /\ Pending' = {call[u].meta : u \in Adding \ {t}}
  <2>1. Adding' = Adding \ {t}
    BY <1>1, <1>4, Zenon DEF Adding, At
  <2>2. Adding \subseteq Thread
    BY Zenon DEF Adding
  <2> QED
    BY <1>1, <2>1, <2>2, Zenon DEF Pending
<1> QED
  BY <1>2, <1>3, <1>4, Zenon

\* A step of a call keeps the invariant if it either draws no number, and began
\* to flush only while it may, or draws the next one for its file.
LEMMA CallMoves ==
  ASSUME IsFiniteSet(Thread), TablesInv, NEW t \in Thread, NEW c, Goto(t, c),
         engine = "open", engine' = engine, active_memtable' \in Table, writes' \in Nat,
         CallOK(c, next_sst_sequence'),
         \/ /\ next_sst_sequence' = next_sst_sequence
            /\ c.pc # "add"
            /\ c.pc \in FlushPcs =>
                 call[t].pc \in FlushPcs \/ next_sst_sequence <= MaxFlushes
         \/ /\ next_sst_sequence' = next_sst_sequence + 1
            /\ call[t].pc = "write"
            /\ c.pc \in {"idle", "add"}
            /\ c.pc = "add" => c.meta.sequence_number = next_sst_sequence
  PROVE  TablesInv'
<1> DEFINE n == next_sst_sequence
<1>1. call' = [call EXCEPT ![t] = c] /\ DOMAIN call = Thread /\ n \in Nat \ {0}
      /\ n' \in {n, n + 1} /\ n' \in Nat \ {0} /\ MaxFlushes \in Nat
  BY EngineConstants DEF Goto, TablesInv
<1>2. DOMAIN call' = Thread /\ call'[t] = c /\ \A u \in Thread \ {t} : call'[u] = call[u]
  BY <1>1, ZenonT(30)
<1>3. \A u \in Thread : CallOK(call[u], n')
  <2>1. \A u \in Thread : CallOK(call[u], n)
    BY ZenonT(30) DEF TablesInv
  <2> QED
    BY <1>1, <2>1 DEF CallOK
<1>4. \A u \in Thread : CallOK(call'[u], n')
  BY <1>2, <1>3, Zenon
<1>5. \A u, v \in Adding' : u # v => call'[u].meta.sequence_number # call'[v].meta.sequence_number
  <2>1. \A u \in Adding : u \in Thread /\ call[u].meta.sequence_number \in 0 .. n - 1
    BY ZenonT(30) DEF TablesInv, CallOK, Adding, At
  <2>2. \A u, v \in Adding : u # v => call[u].meta.sequence_number # call[v].meta.sequence_number
    BY ZenonT(30) DEF TablesInv
  <2>3. CASE c.pc # "add"
    <3>1. Adding' \subseteq Adding \ {t}
      BY <1>2, <2>3, ZenonT(30) DEF Adding, At
    <3> QED
      BY <3>1, <2>1, <2>2, <1>2, ZenonT(30)
  <2>4. CASE c.pc = "add"
    <3>1. c.meta.sequence_number = n /\ call[t].pc # "add"
      BY <2>4, Zenon
    <3>2. Adding' = Adding \cup {t} /\ t \notin Adding
      BY <1>1, <2>4, <3>1, PendingMoves, ZenonT(30) DEF Adding, At
    <3>3. \A u \in Adding : call'[u] = call[u] /\ call'[u].meta.sequence_number # n
      BY <1>1, <1>2, <2>1, <3>2
    <3> QED
      BY <1>2, <3>1, <3>2, <3>3, <2>2
  <2> QED
    BY <2>3, <2>4, ZenonT(30)
<1>6. n' + Cardinality(Flushing') <= MaxFlushes + Cardinality(Thread) + 1
  <2>1. n + Cardinality(Flushing) <= MaxFlushes + Cardinality(Thread) + 1
    BY ZenonT(30) DEF TablesInv
  <2>2. /\ Cardinality(Flushing) \in Nat /\ Cardinality(Flushing') \in Nat
        /\ Cardinality(Flushing') <= Cardinality(Thread) /\ Cardinality(Thread) \in Nat
        /\ (c.pc \in FlushPcs <=> call[t].pc \in FlushPcs) => Flushing' = Flushing
        /\ (c.pc \notin FlushPcs /\ call[t].pc \in FlushPcs)
             => Cardinality(Flushing') = Cardinality(Flushing) - 1
    BY <1>1, FlushingMoves, ZenonT(30)
  <2>3. CASE n' = n
    BY <1>1, <2>1, <2>2, <2>3
  <2>4. CASE n' = n + 1
    <3>1. call[t].pc \in FlushPcs /\ c.pc \notin FlushPcs
      BY <1>1, <2>4 DEF FlushPcs
    <3> QED
      BY <1>1, <2>1, <2>2, <2>4, <3>1
  <2> QED
    BY <1>1, <2>3, <2>4, ZenonT(30)
<1> QED
  BY <1>1, <1>2, <1>4, <1>5, <1>6, ZenonT(30) DEF TablesInv

\* What the invariant does not mention may change.
LEMMA TablesInvStutters ==
  ASSUME TablesInv, engine' = engine, engine = "closed" => Unopened',
         UNCHANGED <<call, active_memtable, next_sst_sequence, writes>>
  PROVE  TablesInv'
<1>1. Flushing' = Flushing /\ Adding' = Adding
  BY Zenon DEF Flushing, Adding, At
<1> QED
  BY <1>1, Zenon DEF TablesInv
----------------------------------------------------------------------------
(* The steps.                                                              *)

\* What CompactionSpec allows of a step.
TablesStep == [SSTables!Next]_(SSTables!specVars)

\* A step that leaves the SSTables and the flushes under way alone.
LEMMA QuietStep ==
  ASSUME UNCHANGED <<compactionVars, next_sst_sequence, unranged>>, Pending' = Pending
  PROVE  TablesStep
<1>1. UNCHANGED SSTables!compactionVars
  BY ZenonT(30) DEF compactionVars, jobVars, SSTables!compactionVars, SSTables!jobVars
<1> QED
  BY <1>1, Zenon DEF TablesStep, SSTables!specVars, Pending, Adding

\* A step of a call that is not about its file.
LEMMA QuietCall ==
  ASSUME IsFiniteSet(Thread), TablesInv, NEW t \in Thread, NEW c, Goto(t, c),
         engine = "open", engine' = engine, active_memtable' \in Table, writes' \in Nat,
         UNCHANGED <<compactionVars, next_sst_sequence, unranged>>,
         CallOK(c, next_sst_sequence), c.pc # "add", call[t].pc # "add",
         c.pc \in FlushPcs => call[t].pc \in FlushPcs \/ next_sst_sequence <= MaxFlushes
  PROVE  TablesInv' /\ TablesStep
<1>1. TablesInv'
  BY CallMoves, ZenonT(30)
<1>2. Pending' = Pending
  BY PendingMoves, ZenonT(30) DEF TablesInv
<1> QED
  BY <1>1, <1>2, QuietStep, ZenonT(30)

\* A call of a client means that the engine is open.
LEMMA CalledOpen ==
  ASSUME TablesInv, NEW t \in Thread, ~ At(t, "idle")
  PROVE  engine = "open"
  BY DEF TablesInv, Unopened, At, Idle

\* Puts and deletes.
LEMMA WritesMap ==
  ASSUME IsFiniteSet(Thread), TablesInv, NEW t \in Thread,
         \/ \E kind \in Calls \cap {"put", "delete"}, k \in Key : WriteEntry(t, kind, k)
         \/ ApplyToMemTable(t)
  PROVE  TablesInv' /\ TablesStep
<1>1. ASSUME NEW kind \in Calls \cap {"put", "delete"}, NEW k \in Key, WriteEntry(t, kind, k)
      PROVE  TablesInv' /\ TablesStep
  <2> DEFINE w == [key |-> k, version |-> [id |-> writes + 1, kind |-> kind]]
  <2>1. PICK c \in {[pc |-> "apply", write |-> w], Idle} : Goto(t, c)
    BY <1>1, Zenon DEF WriteEntry
  <2>2. /\ engine = "open" /\ engine' = engine /\ call[t].pc = "idle"
        /\ active_memtable' = active_memtable
        /\ writes < MaxWrites /\ writes' = writes + 1
        /\ UNCHANGED <<compactionVars, next_sst_sequence, unranged>>
    BY <1>1, ZenonT(30) DEF WriteEntry, sessionVars, At
  <2>3. writes \in Nat /\ active_memtable \in Table /\ MaxWrites \in Nat
    BY EngineConstants, ZenonT(30) DEF TablesInv
  <2>4. w \in [key : Key, version : Version]
    <3>1. writes + 1 \in 1 .. MaxWrites
      BY <2>2, <2>3
    <3>2. [id |-> writes + 1, kind |-> kind] \in [id : 1 .. MaxWrites, kind : {"put", "delete"}]
      BY <3>1, ZenonT(30)
    <3> QED
      BY <3>2, EngineConstants, ZenonT(30)
  <2>5. CallOK(c, next_sst_sequence) /\ c.pc \notin {"add", "swap", "lsn", "write"}
    BY <2>1, <2>4 DEF CallOK, Idle
  <2>6. c.pc # "add" /\ call[t].pc # "add" /\ c.pc \notin FlushPcs
    BY <2>2, <2>5, ZenonT(30) DEF FlushPcs
  <2>7. active_memtable' \in Table /\ writes' \in Nat
    BY <2>2, <2>3
  <2> HIDE DEF w
  <2> QED
    BY <2>1, <2>2, <2>5, <2>6, <2>7, QuietCall, Zenon
<1>2. ASSUME ApplyToMemTable(t) PROVE TablesInv' /\ TablesStep
  <2> DEFINE w == call[t].write
  <2>1. /\ call[t].pc = "apply" /\ writes' = writes
        /\ UNCHANGED <<compactionVars, next_sst_sequence, unranged>>
        /\ engine' = engine
    BY <1>2, ZenonT(30) DEF ApplyToMemTable, sessionVars, At
  <2>2. engine = "open"
    BY <2>1, CalledOpen, Zenon DEF At
  <2>3. PICK c \in {Idle, [pc |-> "swap", ack |-> {w}]} :
          Goto(t, c) /\ (c.pc = "swap" => MayFlush)
    BY <1>2, <2>2, ZenonT(30) DEF ApplyToMemTable, ReturnOk, Idle
  <2>4. w \in [key : Key, version : Version]
    BY <2>1, ZenonT(30) DEF TablesInv, CallOK
  <2>5. active_memtable' \in Table
    <3>1. PICK K \in SUBSET Key : IsFiniteSet(K) /\ active_memtable \in [K -> Version]
      BY Zenon DEF TablesInv, Table
    <3>2. IsFiniteSet(K \cup {w.key}) /\ K \cup {w.key} \in SUBSET Key
      BY <2>4, <3>1, FS_AddElement, Zenon
    <3>3. active_memtable' = [k \in K \cup {w.key} |->
                                IF k = w.key THEN w.version ELSE active_memtable[k]]
      BY <1>2, <3>1, ZenonT(30) DEF ApplyToMemTable
    <3>4. active_memtable' \in [K \cup {w.key} -> Version]
      BY <2>4, <3>1, <3>3, Zenon
    <3> QED
      BY <3>2, <3>4, ZenonT(30) DEF Table
  <2>6. writes' \in Nat
    BY <2>1, Zenon DEF TablesInv
  <2>7. CallOK(c, next_sst_sequence) /\ c.pc # "add"
        /\ (c.pc \in FlushPcs => next_sst_sequence <= MaxFlushes)
    BY <2>3 DEF CallOK, Idle, MayFlush, FlushPcs
  <2> QED
    BY <2>1, <2>2, <2>3, <2>5, <2>6, <2>7, QuietCall, ZenonT(30)
<1> QED
  BY <1>1, <1>2, ZenonT(30)

\* The steps of a flush before and after the file is written and registered.
LEMMA FlushesMap ==
  ASSUME IsFiniteSet(Thread), TablesInv, NEW t \in Thread,
         \/ CallFlush(t) \/ SwapMemTable(t) \/ CaptureFlushLsn(t)
         \/ CollectFiles(t) \/ SaveFlushCheckpoint(t)
  PROVE  TablesInv' /\ TablesStep
<1>1. /\ writes' = writes /\ UNCHANGED <<compactionVars, next_sst_sequence, unranged>>
      /\ engine' = engine
  BY ZenonT(30) DEF CallFlush, SwapMemTable, CaptureFlushLsn, CollectFiles,
                    SaveFlushCheckpoint, sessionVars
<1>2. engine = "open"
  BY CalledOpen, ZenonT(30) DEF CallFlush, SwapMemTable, CaptureFlushLsn, CollectFiles,
                    SaveFlushCheckpoint, At
<1>3. writes \in Nat /\ active_memtable \in Table /\ CallOK(call[t], next_sst_sequence)
  BY Zenon DEF TablesInv
<1>4. ASSUME CallFlush(t) PROVE TablesInv' /\ TablesStep
  <2>1. PICK c : c = [pc |-> "swap", ack |-> {}]
    BY Zenon
  <2>2. Goto(t, c) /\ call[t].pc = "idle" /\ active_memtable' = active_memtable
        /\ next_sst_sequence <= MaxFlushes
    BY <1>4, <2>1, ZenonT(30) DEF CallFlush, MayFlush, At
  <2>3. CallOK(c, next_sst_sequence) /\ c.pc = "swap"
    BY <2>1, ZenonT(30) DEF CallOK
  <2> QED
    BY <1>1, <1>2, <1>3, <2>2, <2>3, QuietCall, ZenonT(30)
<1>5. ASSUME SwapMemTable(t) PROVE TablesInv' /\ TablesStep
  <2>1. PICK c \in {Idle, [pc |-> "lsn", ack |-> call[t].ack, table |-> active_memtable]} :
          /\ Goto(t, c)
          /\ c.pc = "lsn" => active_memtable # EmptyTable
          /\ active_memtable' \in {active_memtable, EmptyTable}
    BY <1>5, <1>2, ZenonT(30) DEF SwapMemTable, ReturnOk, Idle
  <2>2. call[t].pc = "swap"
    BY <1>5, ZenonT(30) DEF SwapMemTable, At
  <2>3. EmptyTable \in Table
    <3>1. IsFiniteSet({}) /\ {} \in SUBSET Key
      BY FS_EmptySet, Zenon
    <3>2. EmptyTable \in [{} -> Version]
      BY ZenonT(30) DEF EmptyTable
    <3> QED
      BY <3>1, <3>2, ZenonT(30) DEF Table
  <2>4. active_memtable # EmptyTable => DOMAIN active_memtable # {}
    <3>1. PICK K \in SUBSET Key : active_memtable \in [K -> Version]
      BY <1>3, ZenonT(30) DEF Table
    <3> QED
      BY <3>1, Zenon DEF EmptyTable
  <2>5. CallOK(c, next_sst_sequence) /\ c.pc # "add"
    <3>1. CASE c = Idle
      BY <3>1, Zenon DEF CallOK, Idle
    <3>2. CASE c = [pc |-> "lsn", ack |-> call[t].ack, table |-> active_memtable]
      <4>1. c.pc = "lsn" /\ c.table = active_memtable
        BY <3>2, Zenon
      <4>2. active_memtable # EmptyTable
        BY <2>1, <4>1, Zenon
      <4> QED
        BY <1>3, <2>4, <4>1, <4>2, Zenon DEF CallOK
    <3> QED
      BY <2>1, <3>1, <3>2, Zenon
  <2> QED
    BY <1>1, <1>2, <1>3, <2>1, <2>2, <2>3, <2>5, QuietCall, ZenonT(30) DEF FlushPcs
<1>6. ASSUME CaptureFlushLsn(t) PROVE TablesInv' /\ TablesStep
  <2>1. PICK c : c = [pc |-> "write", ack |-> call[t].ack, table |-> call[t].table,
                      flush_lsn |-> current_sequence_number]
    BY Zenon
  <2>2. Goto(t, c) /\ call[t].pc = "lsn" /\ active_memtable' = active_memtable
    BY <1>6, <2>1, ZenonT(30) DEF CaptureFlushLsn, At
  <2>3. CallOK(c, next_sst_sequence) /\ c.pc = "write"
    BY <1>3, <2>1, <2>2, ZenonT(30) DEF CallOK
  <2> QED
    BY <1>1, <1>2, <1>3, <2>2, <2>3, QuietCall, ZenonT(30) DEF FlushPcs
<1>7. ASSUME CollectFiles(t) PROVE TablesInv' /\ TablesStep
  <2>1. PICK c : c = [pc |-> "save", ack |-> call[t].ack,
                      cp |-> [last_flushed_lsn |-> call[t].flush_lsn, sstables |-> files]]
    BY Zenon
  <2>2. Goto(t, c) /\ call[t].pc = "files" /\ active_memtable' = active_memtable
    BY <1>7, <2>1, ZenonT(30) DEF CollectFiles, At
  <2>3. CallOK(c, next_sst_sequence) /\ c.pc = "save"
    BY <2>1, ZenonT(30) DEF CallOK
  <2> QED
    BY <1>1, <1>2, <1>3, <2>2, <2>3, QuietCall, ZenonT(30) DEF FlushPcs
<1>8. ASSUME SaveFlushCheckpoint(t) PROVE TablesInv' /\ TablesStep
  <2>1. Goto(t, Idle) /\ call[t].pc = "save" /\ active_memtable' = active_memtable
    BY <1>8, <1>2, ZenonT(30) DEF SaveFlushCheckpoint, ReturnOk, ReturnError, At
  <2>2. CallOK(Idle, next_sst_sequence) /\ Idle.pc = "idle"
    BY ZenonT(30) DEF CallOK, Idle
  <2> QED
    BY <1>1, <1>2, <1>3, <2>1, <2>2, QuietCall, ZenonT(30) DEF FlushPcs
<1> QED
  BY <1>4, <1>5, <1>6, <1>7, <1>8, Zenon

\* Get.
LEMMA GetsMap ==
  ASSUME IsFiniteSet(Thread), TablesInv, NEW t \in Thread,
         \/ \E k \in Key : GetFromMemTable(t, k)
         \/ GetSnapshot(t) \/ GetFromSSTable(t) \/ GetReturns(t)
  PROVE  TablesInv' /\ TablesStep
<1>1. /\ UNCHANGED <<writes, active_memtable>>
      /\ UNCHANGED <<compactionVars, next_sst_sequence, unranged>>
      /\ engine' = engine
  BY Zenon DEF GetFromMemTable, GetSnapshot, GetFromSSTable, GetReturns, sessionVars
<1>2. engine = "open" /\ call[t].pc # "add"
  BY CalledOpen, Zenon DEF GetFromMemTable, GetSnapshot, GetFromSSTable, GetReturns, At
<1>3. writes \in Nat /\ active_memtable \in Table
  BY Zenon DEF TablesInv
<1> DEFINE Reading(c) == c.pc \in {"idle", "look", "search", "got"}
                         /\ CallOK(c, next_sst_sequence)
<1>4. ASSUME NEW k \in Key, GetFromMemTable(t, k)
      PROVE  \E c : Goto(t, c) /\ Reading(c)
  BY <1>4 DEF GetFromMemTable, Got, CallOK
<1>5. ASSUME GetSnapshot(t)
      PROVE  \E c : Goto(t, c) /\ Reading(c)
  <2>1. PICK c : c = [pc |-> "search", key |-> call[t].key, latest |-> call[t].latest,
                      left |-> {f \in files : InRange(f, call[t].key)}]
    BY Zenon
  <2>2. Goto(t, c)
    BY <1>5, <2>1, ZenonT(30) DEF GetSnapshot
  <2>3. Reading(c)
    BY <2>1, ZenonT(30) DEF CallOK
  <2> QED
    BY <2>2, <2>3, Zenon
<1>6. ASSUME GetFromSSTable(t)
      PROVE  \E c : Goto(t, c) /\ Reading(c)
  <2>1. call[t].pc = "search"
    BY <1>6, Zenon DEF GetFromSSTable, At
  <2>2. call[t] = [pc |-> "search", key |-> call[t].key, latest |-> call[t].latest,
                   left |-> call[t].left]
    BY <2>1, ZenonT(30) DEF TablesInv, CallOK
  <2>3. ASSUME NEW f PROVE Reading([call[t] EXCEPT !.left = @ \ {f}])
    <3>1. PICK c : c = [call[t] EXCEPT !.left = @ \ {f}]
      BY Zenon
    <3>2. c = [pc |-> "search", key |-> call[t].key, latest |-> call[t].latest,
               left |-> call[t].left \ {f}]
      BY <2>2, <3>1
    <3>3. Reading(c)
      BY <3>2, ZenonT(30) DEF CallOK
    <3> QED
      BY <3>1, <3>3, Zenon
  <2>4. \A k, latest, found :
          Reading([pc |-> "got", key |-> k, latest |-> latest, found |-> found])
    BY DEF CallOK
  <2> HIDE DEF Reading
  <2> QED
    BY <1>6, <2>3, <2>4, Zenon DEF GetFromSSTable, Got
<1>7. ASSUME GetReturns(t)
      PROVE  \E c : Goto(t, c) /\ Reading(c)
  BY <1>7 DEF GetReturns, Idle, CallOK
<1>8. PICK c : Goto(t, c) /\ Reading(c)
  BY <1>4, <1>5, <1>6, <1>7, ZenonT(30)
<1>9. c.pc \notin {"add", "swap", "lsn", "write"}
  BY <1>8, ZenonT(30)
<1> QED
  BY <1>1, <1>2, <1>3, <1>8, <1>9, QuietCall, ZenonT(30) DEF FlushPcs

\* There is room for one more pending file, and a number for it.
LEMMA FlushFits ==
  ASSUME IsFiniteSet(Thread), TablesInv, NEW t \in Thread, call[t].pc = "write"
  PROVE  SSTables!MayFlush
<1>1. Adding \subseteq Thread \ {t} /\ t \in Flushing /\ Flushing \subseteq Thread
  BY Zenon DEF Adding, At, Flushing, FlushPcs
<1>2. /\ IsFiniteSet(Thread \ {t}) /\ Cardinality(Thread \ {t}) = Cardinality(Thread) - 1
      /\ Cardinality(Thread) \in Nat
  BY FS_RemoveElement, FS_CardinalityType, Zenon
<1>3. IsFiniteSet(Adding) /\ Cardinality(Adding) <= Cardinality(Thread) - 1
  BY <1>1, <1>2, FS_Subset, Zenon
<1>4. IsFiniteSet(Pending) /\ Cardinality(Pending) <= Cardinality(Adding)
  <2> DEFINE f == [u \in Adding |-> call[u].meta]
  <2>1. f \in Surjection(Adding, Pending)
    BY Zenon DEF Surjection, Pending
  <2> QED
    BY <2>1, <1>3, FS_Surjection, Zenon
<1>5. Cardinality(Pending) \in Nat /\ Cardinality(Adding) \in Nat
  BY <1>3, <1>4, FS_CardinalityType, Zenon
<1>6. Cardinality(Pending) < Cardinality(Thread)
  BY <1>2, <1>3, <1>4, <1>5
<1>7. IsFiniteSet(Flushing) /\ Cardinality(Flushing) \in Nat /\ Cardinality(Flushing) # 0
  BY <1>1, FS_Subset, FS_CardinalityType, FS_EmptySet, Zenon
<1>8. next_sst_sequence <= MaxFlushes + Cardinality(Thread)
  BY <1>2, <1>7, EngineConstants DEF TablesInv
<1> QED
  BY <1>6, <1>8, SameSets, ZenonT(30) DEF SSTables!MayFlush, Pending, Adding

\* The file is written, under a number that no other flush has, or fails to be.
LEMMA WriteLevel0Maps ==
  ASSUME IsFiniteSet(Thread), TablesInv, NEW t \in Thread, WriteLevel0(t)
  PROVE  TablesInv' /\ TablesStep
<1> DEFINE n == next_sst_sequence
<1>0. PICK table : table = call[t].table
  BY ZenonT(30)
<1>1. /\ call[t].pc = "write" /\ engine' = engine /\ n' = n + 1
      /\ UNCHANGED <<active_memtable, writes>>
      /\ UNCHANGED <<files, next_file_number, step, target_level, all_inputs, new_files>>
  BY ZenonT(30) DEF WriteLevel0, At, sessionVars, jobVars
<1>2. engine = "open"
  BY <1>1, CalledOpen, ZenonT(30) DEF At
<1>3. /\ writes \in Nat /\ active_memtable \in Table /\ n \in Nat \ {0}
      /\ table \in Table /\ DOMAIN table # {} /\ DOMAIN call = Thread
  BY <1>0, <1>1, ZenonT(30) DEF TablesInv, CallOK
<1>4. SSTables!MayFlush
  BY <1>1, FlushFits, ZenonT(30)
<1>5. ASSUME NEW lo, NEW hi,
             Goto(t, [pc |-> "add", ack |-> call[t].ack, flush_lsn |-> call[t].flush_lsn,
                      meta |-> Level0Meta(n, table, lo, hi)])
      PROVE  TablesInv' /\ Pending' = Pending \cup {Level0Meta(n, table, lo, hi)}
  <2>1. PICK meta : meta = Level0Meta(n, table, lo, hi)
    BY Zenon
  <2>2. PICK c : c = [pc |-> "add", ack |-> call[t].ack, flush_lsn |-> call[t].flush_lsn,
                      meta |-> meta]
    BY Zenon
  <2>3. Goto(t, c)
    BY <1>5, <2>1, <2>2, Zenon
  <2>4. c.pc = "add" /\ c.meta = meta /\ meta.sequence_number = n
    BY <2>1, <2>2, Zenon DEF Level0Meta
  <2>5. CallOK(c, n')
    BY <1>1, <1>3, <2>4 DEF CallOK
  <2>6. TablesInv'
    BY <1>1, <1>2, <1>3, <2>3, <2>4, <2>5, CallMoves, ZenonT(30)
  <2>7. Pending' = Pending \cup {meta}
    BY <1>1, <1>3, <2>3, <2>4, PendingMoves, ZenonT(30)
  <2> QED
    BY <2>1, <2>6, <2>7, Zenon
<1>6. ASSUME disk' = WithTable(Level0Path(n), table),
             damaged' = damaged \ {Level0Path(n)},
             Goto(t, [pc |-> "add", ack |-> call[t].ack, flush_lsn |-> call[t].flush_lsn,
                      meta |-> Level0Meta(n, table, Min(DOMAIN table), Max(DOMAIN table))]),
             UNCHANGED <<io_errors, unranged>>
      PROVE  TablesInv' /\ TablesStep
  <2>1. /\ TablesInv'
        /\ Pending' = Pending \cup {Level0Meta(n, table, Min(DOMAIN table), Max(DOMAIN table))}
    BY <1>6, <1>5, ZenonT(30)
  <2>2. SSTables!FlushWrite(table)
    BY <1>1, <1>3, <1>6, <2>1, SameFlush, SameSets, ZenonT(30)
    DEF SSTables!FlushWrite, SSTables!jobVars, Pending, Adding
  <2>3. table \in SSTables!Table
    BY <1>3, SameFlush, Zenon
  <2>4. SSTables!Next
    BY <1>4, <2>2, <2>3, Zenon DEF SSTables!Next
  <2> QED
    BY <2>1, <2>4, Zenon DEF TablesStep
<1>7. ASSUME disk' = WithTable(Level0Path(n), table),
             io_errors < MaxIoErrors,
             Goto(t, [pc |-> "add", ack |-> call[t].ack, flush_lsn |-> call[t].flush_lsn,
                      meta |-> Level0Meta(n, table, EmptyKey, EmptyKey)]),
             damaged' \in {damaged \ {Level0Path(n)}, damaged \cup {Level0Path(n)}},
             io_errors' = io_errors + 1, unranged' = unranged + 1
      PROVE  TablesInv' /\ TablesStep
  <2>1. TablesInv' /\ Pending' = Pending \cup {Level0Meta(n, table, EmptyKey, EmptyKey)}
    BY <1>7, <1>5, ZenonT(30)
  <2>2. SSTables!FlushWrite(table)
    BY <1>1, <1>3, <1>7, <2>1, SameFlush, SameSets, ZenonT(30)
    DEF SSTables!FlushWrite, SSTables!jobVars, Pending, Adding
  <2>3. table \in SSTables!Table
    BY <1>3, SameFlush, ZenonT(30)
  <2>4. SSTables!Next
    BY <1>4, <2>2, <2>3, Zenon DEF SSTables!Next
  <2> QED
    BY <2>1, <2>4, Zenon DEF TablesStep
<1>8. ASSUME io_errors < MaxIoErrors, disk' = Unreadable(disk, Level0Path(n)),
             damaged' = damaged \ {Level0Path(n)},
             io_errors' = io_errors + 1, ReturnError(t), UNCHANGED unranged
      PROVE  TablesInv' /\ TablesStep
  <2>1. Goto(t, Idle) /\ Idle.pc = "idle" /\ CallOK(Idle, n')
    BY <1>2, <1>8, ZenonT(30) DEF ReturnError, Idle, CallOK
  <2>2. TablesInv'
    BY <1>1, <1>2, <1>3, <2>1, CallMoves, ZenonT(30)
  <2>3. Pending' = Pending
    BY <1>1, <1>3, <2>1, PendingMoves, ZenonT(30)
  <2>4. SSTables!FlushWriteFails
    BY <1>1, <1>8, <2>3, SameFlush, ZenonT(30)
    DEF SSTables!FlushWriteFails, SSTables!jobVars, Pending, Adding
  <2> QED
    BY <1>4, <2>2, <2>4, ZenonT(30) DEF TablesStep, SSTables!Next
<1> QED
  BY <1>0, <1>6, <1>7, <1>8, ZenonT(30) DEF WriteLevel0

\* The file is registered; another flush's is not taken for it.
LEMMA RegisterLevel0Maps ==
  ASSUME IsFiniteSet(Thread), TablesInv, NEW t \in Thread, RegisterLevel0(t)
  PROVE  TablesInv' /\ TablesStep
<1>1. PICK c : c = [pc |-> "files", ack |-> call[t].ack, flush_lsn |-> call[t].flush_lsn]
  BY Zenon
<1>2. /\ call[t].pc = "add" /\ Goto(t, c) /\ engine' = engine
      /\ UNCHANGED <<active_memtable, writes, next_sst_sequence, unranged>>
      /\ UNCHANGED <<disk, damaged, next_file_number, step, target_level, all_inputs,
                     new_files, io_errors>>
      /\ AddFile(call[t].meta)
  BY <1>1, ZenonT(30) DEF RegisterLevel0, At, sessionVars, jobVars
<1>3. engine = "open" /\ t \in Adding
  BY <1>2, CalledOpen, ZenonT(30) DEF At, Adding
<1>4. writes \in Nat /\ active_memtable \in Table /\ DOMAIN call = Thread
  BY Zenon DEF TablesInv
<1>5. CallOK(c, next_sst_sequence) /\ c.pc = "files"
  BY <1>1, ZenonT(30) DEF CallOK
<1>6. TablesInv'
  BY <1>2, <1>3, <1>4, <1>5, CallMoves, ZenonT(30) DEF FlushPcs
<1>7. Pending' = {call[u].meta : u \in Adding \ {t}}
  BY <1>2, <1>4, <1>5, PendingMoves, ZenonT(30)
<1>8. Pending' = Pending \ {call[t].meta}
  <2>1. \A u \in Adding \ {t} : call[u].meta # call[t].meta
    BY <1>3, Zenon DEF TablesInv
  <2> QED
    BY <1>3, <1>7, <2>1, ZenonT(30) DEF Pending
<1>9. PICK meta : meta = call[t].meta
  BY ZenonT(30)
<1>10. meta \in Pending /\ SSTables!FlushAdd(meta)
  <2>1. AddFile(meta)
    BY <1>2, <1>9, Zenon DEF AddFile
  <2> QED
    BY <1>2, <1>3, <1>8, <1>9, <2>1, SameAddFile, ZenonT(30)
    DEF SSTables!FlushAdd, SSTables!jobVars, Pending, Adding
<1>11. SSTables!Next
  BY <1>10, Zenon DEF SSTables!Next, Pending, Adding
<1> QED
  BY <1>6, <1>11, Zenon DEF TablesStep

\* The compaction thread.
LEMMA LoopMaps ==
  ASSUME TablesInv, LoopStep
  PROVE  TablesInv' /\ TablesStep
<1>1. loop # "exited"
  BY Zenon DEF LoopStep, LoopStart, LoopCompact, LoopCaptureLsn, LoopCollectFiles,
         LoopSaveCheckpoint, LoopExit
<1>2. engine = "open"
  BY <1>1, Zenon DEF TablesInv, Unopened
<1>3. UNCHANGED <<call, active_memtable, next_sst_sequence, writes, unranged, engine>>
  BY Zenon DEF LoopStep, LoopStart, LoopCompact, LoopCaptureLsn, LoopCollectFiles,
         LoopSaveCheckpoint, LoopExit, clientVars, sessionVars
<1>4. TablesInv'
  BY <1>2, <1>3, TablesInvStutters, Zenon
<1>5. Pending' = Pending
  BY <1>3, Zenon DEF Pending, Adding, At
<1>6. ASSUME LoopStart \/ LoopCompact PROVE TablesStep
  <2>1. SSTables!RunCompaction
    BY <1>6, SameSelect, SameMerge, SameCatalogue, Zenon
       DEF LoopStart, LoopCompact, SSTables!RunCompaction
  <2>2. SSTables!Compact
    BY <2>1, <1>3, <1>5, Zenon DEF SSTables!Compact, Pending, Adding
  <2> QED
    BY <2>2, Zenon DEF TablesStep, SSTables!Next
<1>7. ASSUME LoopCaptureLsn \/ LoopCollectFiles \/ LoopSaveCheckpoint \/ LoopExit
      PROVE  TablesStep
  <2>1. UNCHANGED compactionVars
    BY <1>7, Zenon DEF LoopCaptureLsn, LoopCollectFiles, LoopSaveCheckpoint, LoopExit
  <2> QED
    BY <2>1, <1>3, <1>5, QuietStep, Zenon
<1> QED
  BY <1>4, <1>6, <1>7, Zenon DEF LoopStep

\* The engine is opened, on an empty directory.
LEMMA OpenMaps ==
  ASSUME TablesInv, Open
  PROVE  TablesInv' /\ TablesStep
<1>1. engine = "closed" /\ Unopened /\ engine' = "open"
  BY Zenon DEF Open, TablesInv
<1>2. UNCHANGED <<call, next_sst_sequence, writes, unranged>> /\ UNCHANGED compactionVars
  BY <1>1, ZenonT(30) DEF Open, Unopened, compactionVars, jobVars
<1>3. active_memtable' = EmptyTable
  <2>1. Readable(wal_file) = {}
    BY <1>1 DEF Unopened, Readable
  <2>2. active_memtable' = Replayed(checkpoint.last_flushed_lsn)
    BY ZenonT(30) DEF Open
  <2> QED
    BY <2>1, <2>2, Zenon DEF Replayed, EmptyTable
<1>4. EmptyTable \in Table
  <2>1. IsFiniteSet({}) /\ {} \in SUBSET Key
    BY FS_EmptySet, ZenonT(30)
  <2>2. EmptyTable \in [{} -> Version]
    BY ZenonT(30) DEF EmptyTable
  <2> QED
    BY <2>1, <2>2, ZenonT(30) DEF Table
<1>5. Flushing' = Flushing /\ Adding' = Adding /\ Pending' = Pending
  BY <1>2, ZenonT(30) DEF Flushing, Adding, Pending, At
<1>6. TablesInv'
  BY <1>1, <1>2, <1>3, <1>4, <1>5, Zenon DEF TablesInv
<1> QED
  BY <1>2, <1>5, <1>6, QuietStep, Zenon

\* The engine's steps in a session.
LEMMA EngineMaps ==
  ASSUME IsFiniteSet(Thread), OneSession, TablesInv, [EngineNext]_engineVars
  PROVE  TablesInv' /\ TablesStep
<1>1. ASSUME NEW t \in Thread, ClientStep(t) PROVE TablesInv' /\ TablesStep
  <2>1. "close" \notin Calls /\ call[t].pc \notin {"join", "gone"}
    BY ZenonT(30) DEF OneSession, TablesInv, CallOK
  <2>2. ~ JoinThenFlush(t) /\ ~ Destroyed(t)
    BY <2>1, ZenonT(30) DEF JoinThenFlush, Destroyed, At
  <2> QED
    BY <1>1, <2>1, <2>2, WritesMap, FlushesMap, GetsMap, WriteLevel0Maps, RegisterLevel0Maps,
       ZenonT(30)
    DEF ClientStep
<1>2. ASSUME UNCHANGED engineVars PROVE TablesInv' /\ TablesStep
  <2>1. /\ UNCHANGED <<call, active_memtable, next_sst_sequence, writes, unranged, engine,
                       checkpoint, wal_file, loop>>
        /\ UNCHANGED compactionVars
    BY <1>2, Zenon DEF engineVars, sessionVars, clientVars, loopVars, walVars
  <2>2. Pending' = Pending
    BY <2>1, Zenon DEF Pending, Adding, At
  <2>3. engine = "closed" => Unopened'
    BY <2>1, ZenonT(30) DEF TablesInv, Unopened, compactionVars
  <2> QED
    BY <2>1, <2>2, <2>3, QuietStep, TablesInvStutters, Zenon
<1>3. "crash" \notin Calls /\ "torn" \notin Calls
  BY Zenon DEF OneSession
<1> QED
  BY <1>1, <1>2, <1>3, OpenMaps, LoopMaps, ZenonT(30) DEF EngineNext

\* Within a session, with any number of client threads, every step of the engine
\* is one that CompactionSpec allows or leaves the SSTables alone: flushes never
\* share a sequence number or a path, a file is registered as it was written,
\* and the catalogue and the disk change in no other way.
THEOREM EngineImplementsCompaction ==
  ASSUME IsFiniteSet(Thread), OneSession
  PROVE  EngineSpec => RefinesCompactionSpec
<1>1. EngineInit => TablesInv /\ SSTables!Init
  <2>1. ASSUME EngineInit PROVE SSTables!Init
    <3>1. Adding = {}
      BY <2>1, Zenon DEF EngineInit, Adding, At, Idle
    <3>2. Pending = {}
      BY <3>1, Zenon DEF Pending
    <3> QED
      BY <2>1, <3>2, SameFlush, ZenonT(30) DEF EngineInit, SSTables!Init, Pending, Adding
  <2> QED
    BY <2>1, TablesInvInit, Zenon
<1>2. TablesInv /\ [EngineNext]_engineVars => TablesInv' /\ [SSTables!Next]_(SSTables!specVars)
  BY EngineMaps, Zenon DEF TablesStep
<1> QED
  BY <1>1, <1>2, PTL DEF EngineSpec, RefinesCompactionSpec, SSTables!Spec
=============================================================================
