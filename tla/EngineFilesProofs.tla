-------------------------- MODULE EngineFilesProofs --------------------------
(***************************************************************************)
(* What the storage engine keeps, for any number of threads whose calls    *)
(* interleave at will: a put that was acknowledged is never dropped on its *)
(* way from the memtable through the flushes and the compactions.          *)
(***************************************************************************)
EXTENDS StorageEngine, FiniteSetTheorems, TLAPS

----------------------------------------------------------------------------
(* Acknowledged puts, with any number of concurrent calls and compactions. *)

\* The engine is opened once and nothing is deleted.
OnlyPuts == Calls \cap {"close", "crash", "torn", "delete"} = {}

\* A table without tombstones.
Puts(table) == table \in Table /\ \A k \in DOMAIN table : table[k].kind = "put"

\* The fields of a catalogue entry the argument is about.
IsMeta(f) ==
  /\ {"filepath", "level", "smallest_key", "largest_key", "sequence_number"} \subseteq DOMAIN f
  /\ f.filepath \in Nat \X Nat /\ f.level \in Nat /\ f.sequence_number \in Nat

\* A flush or a merge has had the number of the file.
Drawn(f, flushes, outputs) ==
  \/ f.filepath[1] = 0 /\ f.filepath[2] < flushes
  \/ f.filepath[1] # 0 /\ f.filepath[2] < outputs

Paths(S) == {f.filepath : f \in S}

\* A lookup of k in f finds it.
InFile(d, f, k) == f.filepath \in DOMAIN d /\ k \in DOMAIN d[f.filepath] /\ InRange(f, k)

\* Every key of the inputs is in a file that is none of them.
Replaced(d, inputs, S) ==
  \A f \in inputs : f.filepath \in DOMAIN d =>
    \A k \in DOMAIN d[f.filepath] \ {EmptyKey} :
      \E g \in S : InFile(d, g, k) /\ g.filepath \notin Paths(inputs)

\* The tables hold puts, and RunCompaction drops a file once its keys are elsewhere.
FilesOk ==
  /\ next_sst_sequence \in Nat /\ next_file_number \in Nat
  /\ \A p \in DOMAIN disk : Puts(disk[p])
  /\ IsFiniteSet(files) /\ IsFiniteSet(all_inputs)
  /\ \A f \in files \cup all_inputs \cup new_files :
       IsMeta(f) /\ Drawn(f, next_sst_sequence, next_file_number)
  /\ step # "idle" => target_level \in Nat \ {0}
  /\ step # "add" => new_files = {}
  /\ step \in {"add", "remove", "unlink"} => Replaced(disk, all_inputs, files \cup new_files)
  /\ step = "unlink" => \A f \in files, g \in all_inputs :
                          FirstInput(g) => f.filepath # g.filepath

\* Where a thread is while it flushes, and what its position says of its locals.
FlushPcs == {"swap", "lsn", "write", "add", "files", "save"}

CallOk(c, flushes) ==
  /\ c.pc \notin {"join", "gone"}
  /\ c.pc = "apply" => /\ c.write.key \in Key /\ c.write.version \in Version
                       /\ c.write.version.kind = "put"
  /\ c.pc \in {"lsn", "write"} => Puts(c.table)
  /\ c.pc = "add" => IsMeta(c.meta) /\ c.meta.filepath[1] = 0 /\ c.meta.filepath[2] < flushes
  /\ c.pc = "search" => "pc" \in DOMAIN c

\* No other file has the path of one that is about to be registered.
PendingOk ==
  /\ \A t \in Thread : At(t, "add") =>
       call[t].meta.filepath \notin Paths(files \cup all_inputs \cup new_files)
  /\ \A t, u \in Thread :
       (At(t, "add") /\ At(u, "add") /\ call[t].meta.filepath = call[u].meta.filepath) => t = u

\* Nothing has happened before the engine is opened.
Untouched ==
  /\ wal_file = <<>> /\ checkpoint = NoCheckpoint /\ files = {} /\ step = "idle"
  /\ active_memtable = EmptyTable
  /\ loop = "exited"
  /\ \A t \in Thread : At(t, "idle")
  /\ \A k \in Key : acked_version[k] = NoVersion

\* The engine object and the calls.
EngineOk ==
  /\ DOMAIN call = Thread /\ writes \in Nat
  /\ engine \in {"closed", "open"}
  /\ engine = "closed" => Untouched
  /\ Puts(active_memtable)
  /\ \A t \in Thread : CallOk(call[t], next_sst_sequence)

\* The engine has the key somewhere.
Present(k) ==
  \/ k \in DOMAIN active_memtable
  \/ \E t \in Thread : call[t].pc \in {"lsn", "write"} /\ k \in DOMAIN call[t].table
  \/ \E t \in Thread : At(t, "add") /\ InFile(disk, call[t].meta, k)
  \/ \E f \in files : InFile(disk, f, k)

\* It has every key that was put, and those of puts about to be acknowledged.
AckOk ==
  /\ \A k \in Key \ {EmptyKey} : acked_version[k].kind = "put" => Present(k)
  /\ \A t \in Thread : call[t].pc \in FlushPcs =>
       \A a \in call[t].ack : (a.key # EmptyKey) => Present(a.key)

\* The inductive invariant behind AckedIsSomewhere.
AckedInv == EngineOk /\ FilesOk /\ PendingOk /\ AckOk

\* A failed access may lose something.
AckedInvUnlessFailed == io_errors \in Nat /\ (io_errors = 0 => AckedInv)

\* A nonempty set of naturals has a least element.
LEMMA LeastNat ==
  ASSUME NEW S \in SUBSET Nat, S # {}
  PROVE  \E m \in S : \A y \in S : m <= y
<1>1. IsWellFoundedOn(OpToRel(<, Nat), Nat)
  BY NatLessThanWellFounded, Zenon
<1>2. PICK x \in S : \A y \in S : ~ (<<y, x>> \in OpToRel(<, Nat))
  BY <1>1, WFMin, Zenon
<1>3. \A y \in S : ~ (y < x)
  BY <1>2, Zenon DEF OpToRel
<1> QED
  BY <1>3

\* A nonempty bounded set of naturals has a greatest element, and Max is it.
LEMMA MaxOfBounded ==
  ASSUME NEW S \in SUBSET Nat, S # {}, NEW b \in Nat, \A x \in S : x <= b
  PROVE  Max(S) \in S /\ \A y \in S : y <= Max(S)
<1> DEFINE T == {b - x : x \in S}
<1>1. \A x \in S : b - x \in Nat
  OBVIOUS
<1>2. T \in SUBSET Nat /\ T # {}
  BY <1>1, Zenon
<1>3. PICK m \in T : \A y \in T : m <= y
  BY <1>2, LeastNat, Zenon
<1>4. PICK x \in S : m = b - x
  OBVIOUS
<1>5. \A y \in S : x >= y
  <2> TAKE y \in S
  <2>1. m <= b - y
    BY <1>3
  <2> QED
    BY <2>1, <1>4
<1> QED
  BY <1>5, Zenon DEF Max

\* A finite set of naturals has a bound: of the unbounded subsets one would be
\* the smallest.
LEMMA FiniteBound ==
  ASSUME NEW S \in SUBSET Nat, IsFiniteSet(S)
  PROVE  \E b \in Nat : \A x \in S : x <= b
<1> DEFINE Bounded(T) == \E b \in Nat : \A x \in T : x <= b
           N == {n \in Nat : \E T \in SUBSET S : Cardinality(T) = n /\ ~ Bounded(T)}
<1> SUFFICES ASSUME ~ Bounded(S) PROVE FALSE
  OBVIOUS
<1>1. \A T \in SUBSET S : IsFiniteSet(T) /\ Cardinality(T) \in Nat
  BY FS_Subset, FS_CardinalityType, Zenon
<1>2. N \in SUBSET Nat /\ N # {}
  BY <1>1
<1>3. PICK n \in N : \A m \in N : n <= m
  BY <1>2, LeastNat, Zenon
<1>4. PICK T \in SUBSET S : Cardinality(T) = n /\ ~ Bounded(T)
  BY <1>3
<1>5. PICK x \in T : TRUE
  BY <1>4
<1>6. Cardinality(T \ {x}) = n - 1 /\ n - 1 \in Nat
  <2>1. Cardinality(T \ {x}) = Cardinality(T) - 1
    BY <1>1, <1>5, FS_RemoveElement, Zenon
  <2>2. T \ {x} \in SUBSET S
    BY <1>4, Zenon
  <2> QED
    BY <1>1, <1>4, <2>1, <2>2, Zenon
<1>7. ~ (n - 1 \in N)
  BY <1>3, <1>6
<1>8. Bounded(T \ {x})
  BY <1>6, <1>7
<1>9. PICK b \in Nat : \A y \in T \ {x} : y <= b
  BY <1>8, Zenon
<1>10. \A y \in T : y <= (IF b < x THEN x ELSE b)
  BY <1>9
<1> QED
  BY <1>4, <1>10, Zenon

\* The values of a function on a finite set.
LEMMA FiniteImage ==
  ASSUME NEW S, IsFiniteSet(S), NEW f, NEW T, \A y \in T : \E x \in S : y = f[x]
  PROVE  IsFiniteSet(T)
<1> DEFINE U == {f[x] : x \in S}
           g == [x \in S |-> f[x]]
<1>1. g \in Surjection(S, U)
  BY DEF Surjection
<1>2. IsFiniteSet(U)
  BY <1>1, FS_Surjection, Zenon
<1>3. T \subseteq U
  OBVIOUS
<1> QED
  BY <1>2, <1>3, FS_Subset, Zenon

\* The range of a finite set of keys.
LEMMA RangeOfKeys ==
  ASSUME NEW K \in SUBSET Nat, IsFiniteSet(K), NEW k \in K
  PROVE  Min(K) <= k /\ k <= Max(K)
<1>1. PICK b \in Nat : \A x \in K : x <= b
  BY FiniteBound, Zenon
<1>2. \A y \in K : y <= Max(K)
  BY <1>1, MaxOfBounded, Zenon
<1>3. PICK m \in K : \A y \in K : m <= y
  BY LeastNat, Zenon
<1>4. \A y \in K : Min(K) <= y
  <2>1. Min(K) = CHOOSE x \in K : \A y \in K : x <= y
    BY Zenon DEF Min
  <2> QED
    BY <1>3, <2>1, Zenon
<1> QED
  BY <1>2, <1>4, Zenon

\* The keys of a table.
LEMMA TableKeys ==
  ASSUME NEW T \in Table
  PROVE  /\ DOMAIN T \in SUBSET Key /\ DOMAIN T \in SUBSET Nat /\ IsFiniteSet(DOMAIN T)
         /\ T \in [DOMAIN T -> Version]
<1>1. PICK K \in SUBSET Key : IsFiniteSet(K) /\ T \in [K -> Version]
  BY DEF Table
<1>2. DOMAIN T = K
  BY <1>1
<1> QED
  BY <1>1, <1>2, CompactionConstants, ZenonT(30)

\* An entry of the catalogue is a copy of the metadata, RunCompaction's input a copy
\* with another number.
LEMMA MetaCopy ==
  ASSUME NEW f, IsMeta(f), NEW n, NEW g, g = [f EXCEPT !.copy = n]
  PROVE  /\ IsMeta(g) /\ g.filepath = f.filepath
         /\ g.smallest_key = f.smallest_key /\ g.largest_key = f.largest_key
  BY DEF IsMeta

\* An entry that is given another sequence number keeps its path.
LEMMA MetaNumber ==
  ASSUME NEW f, IsMeta(f), NEW n \in Nat, NEW g, g = [f EXCEPT !.sequence_number = n]
  PROVE  IsMeta(g) /\ g.filepath = f.filepath
  BY Zenon DEF IsMeta

\* What the entry of a flushed file says.
LEMMA MetaOfFlush ==
  ASSUME NEW seq \in Nat, NEW T, NEW lo, NEW hi, NEW f, f = Level0Meta(seq, T, lo, hi)
  PROVE  /\ IsMeta(f) /\ f.filepath = <<0, seq>> /\ f.smallest_key = lo /\ f.largest_key = hi
  BY DEF IsMeta, Level0Meta, Level0Path

\* What a file has depends on its path and its range.
LEMMA InFileStays ==
  ASSUME NEW d, NEW e, NEW f, NEW g, NEW k, InFile(d, f, k),
         g.filepath = f.filepath, g.smallest_key = f.smallest_key, g.largest_key = f.largest_key,
         f.filepath \in DOMAIN e, e[f.filepath] = d[f.filepath]
  PROVE  InFile(e, g, k)
  BY Zenon DEF InFile, InRange

\* A new file under a path that none had.
LEMMA WithTableKeeps ==
  ASSUME NEW p, NEW T, disk' = WithTable(p, T)
  PROVE  /\ DOMAIN disk' = DOMAIN disk \cup {p} /\ disk'[p] = T
         /\ \A q \in DOMAIN disk : (q # p) => disk'[q] = disk[q]
  BY DEF WithTable

----------------------------------------------------------------------------
(* The steps of the clients.                                               *)

\* What a call leaves alone.
LEMMA CallMoves ==
  ASSUME EngineOk, NEW t \in Thread, NEW c, Goto(t, c)
  PROVE  /\ DOMAIN call' = Thread /\ call'[t] = c
         /\ \A u \in Thread : (u # t) => call'[u] = call[u]
  BY DEF EngineOk, Goto

\* A thread that is in a call is so in an open engine.
LEMMA CallIsOpen ==
  ASSUME EngineOk, NEW t \in Thread, ~ At(t, "idle")
  PROVE  engine = "open"
  BY Zenon DEF EngineOk, Untouched

\* FilesOk in a step that leaves the files and the job alone.
LEMMA FilesStay ==
  ASSUME FilesOk, UNCHANGED <<files, disk, next_file_number, jobVars, next_sst_sequence>>
  PROVE  FilesOk'
<1>1. UNCHANGED <<files, disk, next_file_number, next_sst_sequence, step, target_level,
                  all_inputs, new_files>>
  BY Zenon DEF jobVars
<1> QED
  BY <1>1 DEF FilesOk, FirstInput, ListedBefore

\* A call that is not about to register a file.
LEMMA PendingStays ==
  ASSUME EngineOk, PendingOk, NEW t \in Thread, NEW c, Goto(t, c), c.pc # "add",
         Paths(files \cup all_inputs \cup new_files)'
           \subseteq Paths(files \cup all_inputs \cup new_files)
             \cup (IF At(t, "add") THEN {call[t].meta.filepath} ELSE {})
  PROVE  PendingOk'
<1>1. /\ call'[t] = c
      /\ \A u \in Thread : (u # t) => call'[u] = call[u]
  BY CallMoves, Zenon
<1>2. ASSUME NEW u \in Thread, At(u, "add")' PROVE u # t /\ At(u, "add") /\ call'[u] = call[u]
  BY <1>1, <1>2, ZenonT(30) DEF At
<1>3. ASSUME NEW u \in Thread, At(u, "add")'
      PROVE  call'[u].meta.filepath \notin Paths(files \cup all_inputs \cup new_files)'
  BY <1>2, <1>3, Zenon DEF PendingOk
<1>4. ASSUME NEW u \in Thread, NEW v \in Thread, At(u, "add")', At(v, "add")',
             call'[u].meta.filepath = call'[v].meta.filepath
      PROVE  u = v
  BY <1>2, <1>4, Zenon DEF PendingOk
<1> QED
  BY <1>3, <1>4, Zenon DEF PendingOk

\* The state of the engine after a step of a call.
LEMMA EngineStays ==
  ASSUME EngineOk, NEW t \in Thread, NEW c, Goto(t, c), engine = "open", engine' = "open",
         writes' \in Nat, Puts(active_memtable'), CallOk(c, next_sst_sequence'),
         \/ next_sst_sequence' = next_sst_sequence
         \/ next_sst_sequence \in Nat /\ next_sst_sequence' = next_sst_sequence + 1
  PROVE  EngineOk'
<1>1. /\ DOMAIN call' = Thread /\ call'[t] = c
      /\ \A u \in Thread : (u # t) => call'[u] = call[u]
  BY CallMoves
<1>2. ASSUME NEW u \in Thread, u # t PROVE CallOk(call'[u], next_sst_sequence')
  <2>1. CallOk(call[u], next_sst_sequence) /\ call'[u] = call[u]
    BY <1>1, <1>2, ZenonT(30) DEF EngineOk
  <2>2. ASSUME NEW n \in Nat, n < next_sst_sequence, next_sst_sequence \in Nat,
               next_sst_sequence' = next_sst_sequence + 1
        PROVE  n < next_sst_sequence'
    BY <2>2, SMTT(30)
  <2>3. call[u].pc = "add" => call[u].meta.filepath[2] \in Nat
    BY <2>1 DEF CallOk, IsMeta
  <2> QED
    BY <2>1, <2>2, <2>3, Zenon DEF CallOk
<1>3. \A u \in Thread : CallOk(call'[u], next_sst_sequence')
  BY <1>1, <1>2, Zenon
<1> QED
  BY <1>1, <1>3, Zenon DEF EngineOk

\* A key that is there stays there, and those acknowledged now are there.
LEMMA AcksStay ==
  ASSUME AckOk, NEW A,
         \A k : (k # EmptyKey /\ Present(k)) => Present(k)',
         \A a \in A : (a.key # EmptyKey) => Present(a.key)',
         \A k \in Key : acked_version'[k] = acked_version[k] \/ \E a \in A : a.key = k,
         \A u \in Thread : call'[u].pc \in FlushPcs =>
           \/ call[u].pc \in FlushPcs /\ call'[u].ack = call[u].ack
           \/ \A a \in call'[u].ack : a \in A
  PROVE  AckOk'
<1>1. ASSUME NEW k \in Key \ {EmptyKey}, acked_version'[k].kind = "put" PROVE Present(k)'
  BY <1>1 DEF AckOk
<1>2. ASSUME NEW u \in Thread, call'[u].pc \in FlushPcs, NEW a \in call'[u].ack,
             a.key # EmptyKey
      PROVE  Present(a.key)'
  BY <1>2, Zenon DEF AckOk
<1> QED
  BY <1>1, <1>2, ZenonT(30) DEF AckOk

\* Where a key was, it still is, for a step that leaves tables and files alone.
LEMMA PresentStays ==
  ASSUME EngineOk, NEW t \in Thread, NEW c, Goto(t, c), UNCHANGED <<active_memtable, disk, files>>,
         \/ call[t].pc \notin {"lsn", "write", "add"}
         \/ /\ call[t].pc \in {"lsn", "write"} /\ c.pc \in {"lsn", "write"}
            /\ c.table = call[t].table,
         NEW k, Present(k)
  PROVE  Present(k)'
<1>1. call'[t] = c /\ \A u \in Thread : (u # t) => call'[u] = call[u]
  BY CallMoves, Zenon
<1>2. CASE k \in DOMAIN active_memtable
  BY <1>2 DEF Present
<1>3. ASSUME NEW u \in Thread, call[u].pc \in {"lsn", "write"}, k \in DOMAIN call[u].table
      PROVE  Present(k)'
  <2>1. call'[u].pc \in {"lsn", "write"} /\ k \in DOMAIN call'[u].table
    BY <1>1, <1>3, Zenon
  <2> QED
    BY <2>1, Zenon DEF Present
<1>4. ASSUME NEW u \in Thread, At(u, "add"), InFile(disk, call[u].meta, k)
      PROVE  Present(k)'
  <2>1. u # t
    BY <1>4 DEF At
  <2>2. At(u, "add")' /\ InFile(disk', call'[u].meta, k)
    BY <1>1, <1>4, <2>1, Zenon DEF At
  <2> QED
    BY <2>2, Zenon DEF Present
<1>5. ASSUME NEW f \in files, InFile(disk, f, k) PROVE Present(k)'
  BY <1>5, Zenon DEF Present
<1> QED
  BY <1>2, <1>3, <1>4, <1>5, Zenon DEF Present

\* The steps of a call that leave the tables and the files alone.
LEMMA QuietKeeps ==
  ASSUME AckedInv, NEW t \in Thread, NEW c, Goto(t, c), engine = "open", engine' = "open",
         writes' \in Nat,
         UNCHANGED <<active_memtable, files, disk, next_file_number, jobVars, next_sst_sequence>>,
         \/ /\ call[t].pc \notin {"lsn", "write", "add"}
            /\ c.pc \notin {"lsn", "write", "add"}
         \/ call[t].pc = "lsn" /\ c.pc = "write" /\ c.table = call[t].table,
         CallOk(c, next_sst_sequence),
         c.pc \in FlushPcs => \/ c.ack = {}
                              \/ call[t].pc \in FlushPcs /\ c.ack = call[t].ack,
         \A k \in Key : \/ acked_version'[k] = acked_version[k]
                        \/ call[t].pc \in FlushPcs /\ \E a \in call[t].ack : a.key = k
  PROVE  AckedInv'
<1>1. /\ call'[t] = c
      /\ \A u \in Thread : (u # t) => call'[u] = call[u]
  BY CallMoves, ZenonT(30) DEF AckedInv
<1>2. EngineOk'
  BY EngineStays DEF AckedInv, EngineOk
<1>3. FilesOk'
  BY FilesStay, Zenon DEF AckedInv
<1>4. PendingOk'
  <2>1. Paths(files \cup all_inputs \cup new_files)' = Paths(files \cup all_inputs \cup new_files)
    BY ZenonT(30) DEF jobVars
  <2>2. c.pc # "add"
    BY SMTT(30)
  <2> QED
    BY <2>1, <2>2, PendingStays, Zenon DEF AckedInv
<1>5. \A k : Present(k) => Present(k)'
  BY PresentStays, ZenonT(30) DEF AckedInv
<1>6. PICK A : A = IF call[t].pc \in FlushPcs THEN call[t].ack ELSE {}
  BY Zenon
<1>7. \A a \in A : (a.key # EmptyKey) => Present(a.key)'
  <2> SUFFICES ASSUME NEW a \in A, a.key # EmptyKey PROVE Present(a.key)'
    BY ZenonT(30)
  <2>1. Present(a.key)
    BY <1>6, Zenon DEF AckedInv, AckOk
  <2> QED
    BY <1>5, <2>1, Zenon
<1>8. \A k \in Key : acked_version'[k] = acked_version[k] \/ \E a \in A : a.key = k
  BY <1>6, ZenonT(30)
<1>9. \A u \in Thread : call'[u].pc \in FlushPcs =>
        \/ call[u].pc \in FlushPcs /\ call'[u].ack = call[u].ack
        \/ \A a \in call'[u].ack : a \in A
  BY <1>1
<1>10. AckOk'
  BY <1>5, <1>7, <1>8, <1>9, AcksStay, Zenon DEF AckedInv
<1> QED
  BY <1>2, <1>3, <1>4, <1>10, Zenon DEF AckedInv

\* Acknowledging nothing, or what the call has done.
LEMMA Acknowledged ==
  ASSUME NEW A, Acknowledge(A)
  PROVE  \A k \in Key : acked_version'[k] = acked_version[k] \/ \E a \in A : a.key = k
  BY ZenonT(30) DEF Acknowledge

\* The beginning of a put.
LEMMA WriteQuiet ==
  ASSUME AckedInv, NEW t \in Thread, NEW k \in Key, WriteEntry(t, "put", k)
  PROVE  AckedInv'
<1>1. PICK w : w = [key |-> k, version |-> [id |-> writes + 1, kind |-> "put"]]
  BY Zenon
<1>2. /\ engine = "open" /\ At(t, "idle") /\ writes < MaxWrites /\ writes' = writes + 1
      /\ Goto(t, [pc |-> "apply", write |-> w]) \/ Goto(t, Idle)
      /\ UNCHANGED <<compactionVars, sessionVars, loopVars, active_memtable, acked_version,
                     next_sst_sequence>>
  BY <1>1, Zenon DEF WriteEntry
<1>3. w.key \in Key /\ w.version \in Version /\ w.version.kind = "put" /\ writes + 1 \in Nat
  <2>1. writes \in Nat
    BY Zenon DEF AckedInv, EngineOk
  <2>2. [id |-> writes + 1, kind |-> "put"] \in [id : 1 .. MaxWrites, kind : {"put", "delete"}]
    BY <1>2, <2>1, EngineConstants
  <2>3. [id |-> writes + 1, kind |-> "put"] \in Version
    BY <2>2, EngineConstants
  <2> QED
    BY <1>1, <2>1, <2>3
<1>4. PICK c : Goto(t, c) /\ c \in {Idle, [pc |-> "apply", write |-> w]}
  BY <1>2, Zenon
<1>5. c.pc \in {"idle", "apply"} /\ CallOk(c, next_sst_sequence)
  BY <1>3, <1>4 DEF CallOk, Idle
<1>6. /\ UNCHANGED <<active_memtable, files, disk, next_file_number, jobVars, next_sst_sequence>>
      /\ engine' = "open" /\ writes' \in Nat /\ acked_version' = acked_version
  BY <1>2, <1>3, Zenon DEF compactionVars, sessionVars
<1>7. call[t].pc = "idle"
  BY <1>2 DEF At
<1> QED
  BY <1>2, <1>4, <1>5, <1>6, <1>7, QuietKeeps, Zenon DEF FlushPcs

\* The calls of a reader, and the end of a flush.
LEMMA FlushQuiet ==
  ASSUME AckedInv, NEW t \in Thread,
         \/ CallFlush(t) \/ CaptureFlushLsn(t) \/ CollectFiles(t) \/ SaveFlushCheckpoint(t)
         \/ SwapMemTable(t) /\ active_memtable = EmptyTable
  PROVE  AckedInv'
<1>1. /\ engine = "open" /\ UNCHANGED <<engine, writes>>
      /\ UNCHANGED <<active_memtable, files, disk, next_file_number, jobVars, next_sst_sequence>>
  <2>1. UNCHANGED <<engine, writes, files, disk, next_file_number, jobVars, next_sst_sequence>>
    BY Zenon DEF CallFlush, CaptureFlushLsn, CollectFiles, SaveFlushCheckpoint, SwapMemTable,
        compactionVars, sessionVars
  <2>2. active_memtable' = active_memtable
    BY Zenon DEF CallFlush, CaptureFlushLsn, CollectFiles, SaveFlushCheckpoint, SwapMemTable
  <2>3. CASE CallFlush(t)
    BY <2>1, <2>2, <2>3, Zenon DEF CallFlush
  <2>4. CASE ~ CallFlush(t)
    <3>1. call[t].pc \in {"swap", "lsn", "files", "save"}
      BY <2>4, Zenon DEF CaptureFlushLsn, CollectFiles, SaveFlushCheckpoint, SwapMemTable, At
    <3>2. ~ At(t, "idle")
      BY <3>1 DEF At
    <3>3. engine = "open"
      BY <3>2, CallIsOpen, Zenon DEF AckedInv
    <3> QED
      BY <2>1, <2>2, <3>3, Zenon
  <2> QED
    BY <2>3, <2>4, Zenon
<1>2. engine' = "open" /\ writes' \in Nat
  BY <1>1, SMTT(30) DEF AckedInv, EngineOk
<1>3. CASE CallFlush(t)
  <2>1. PICK c : c = [pc |-> "swap", ack |-> {}]
    BY Zenon
  <2>2. Goto(t, c) /\ acked_version' = acked_version /\ call[t].pc = "idle"
    BY <1>3, <2>1, ZenonT(30) DEF CallFlush, At
  <2>3. c.pc = "swap" /\ c.ack = {} /\ CallOk(c, next_sst_sequence)
    BY <2>1, ZenonT(30) DEF CallOk
  <2> QED
    BY <1>1, <1>2, <2>2, <2>3, QuietKeeps, ZenonT(30)
<1>4. CASE CaptureFlushLsn(t)
  <2>1. PICK c : c = [pc |-> "write", ack |-> call[t].ack, table |-> call[t].table,
                      flush_lsn |-> current_sequence_number]
    BY Zenon
  <2>2. Goto(t, c) /\ acked_version' = acked_version /\ call[t].pc = "lsn"
    BY <1>4, <2>1, Zenon DEF CaptureFlushLsn, At
  <2>3. c.pc = "write" /\ c.ack = call[t].ack /\ c.table = call[t].table
    BY <2>1, Zenon
  <2>4. CallOk(c, next_sst_sequence)
    BY <2>2, <2>3, ZenonT(30) DEF CallOk, AckedInv, EngineOk
  <2> QED
    BY <1>1, <1>2, <2>2, <2>3, <2>4, QuietKeeps, Zenon DEF FlushPcs
<1>5. CASE CollectFiles(t)
  <2>1. PICK p : p = [last_flushed_lsn |-> call[t].flush_lsn, sstables |-> files]
    BY Zenon
  <2>2. PICK c : c = [pc |-> "save", ack |-> call[t].ack, cp |-> p]
    BY Zenon
  <2>3. Goto(t, c) /\ acked_version' = acked_version /\ call[t].pc = "files"
    BY <1>5, <2>1, <2>2, Zenon DEF CollectFiles, At
  <2>4. c.pc = "save" /\ c.ack = call[t].ack
    BY <2>2, ZenonT(30)
  <2>5. CallOk(c, next_sst_sequence)
    BY <2>4, SMTT(30) DEF CallOk
  <2> QED
    BY <1>1, <1>2, <2>3, <2>4, <2>5, QuietKeeps, ZenonT(30) DEF FlushPcs
<1>6. CASE SaveFlushCheckpoint(t) \/ (SwapMemTable(t) /\ active_memtable = EmptyTable)
  <2>1. call[t].pc \in {"swap", "save"}
    BY <1>6, ZenonT(30) DEF SaveFlushCheckpoint, SwapMemTable, At
  <2>2. ReturnOk(t, call[t].ack) \/ ReturnError(t)
    BY <1>6, Zenon DEF SaveFlushCheckpoint, SwapMemTable
  <2>3. Goto(t, Idle)
    BY <1>1, <2>2 DEF ReturnOk, ReturnError
  <2>4. \A k \in Key : acked_version'[k] = acked_version[k] \/ \E a \in call[t].ack : a.key = k
    BY <2>2, Acknowledged, Zenon DEF ReturnOk, ReturnError
  <2>5. PICK c : c = Idle
    BY Zenon
  <2>6. Goto(t, c) /\ c.pc = "idle" /\ CallOk(c, next_sst_sequence)
    BY <2>3, <2>5, ZenonT(30) DEF CallOk, Idle
  <2> QED
    BY <1>1, <1>2, <2>1, <2>4, <2>6, QuietKeeps, ZenonT(30) DEF FlushPcs
<1> QED
  BY <1>3, <1>4, <1>5, <1>6, Zenon

\* A reader.
LEMMA GetQuiet ==
  ASSUME AckedInv, NEW t \in Thread,
         \/ \E k \in Key : GetFromMemTable(t, k)
         \/ GetSnapshot(t) \/ GetFromSSTable(t) \/ GetReturns(t)
  PROVE  AckedInv'
<1>1. /\ UNCHANGED <<engine, writes, acked_version>>
      /\ UNCHANGED <<active_memtable, files, disk, next_file_number, jobVars, next_sst_sequence>>
  BY Zenon DEF GetFromMemTable, GetSnapshot, GetFromSSTable, GetReturns, compactionVars,
      sessionVars
<1>2. call[t].pc \in {"idle", "look", "search", "got"}
  BY Zenon DEF GetFromMemTable, GetSnapshot, GetFromSSTable, GetReturns, At
<1>3. engine = "open"
  <2>1. CASE \E k \in Key : GetFromMemTable(t, k)
    BY <2>1, Zenon DEF GetFromMemTable
  <2>2. CASE ~ \E k \in Key : GetFromMemTable(t, k)
    <3>1. ~ At(t, "idle")
      BY <2>2, Zenon DEF GetSnapshot, GetFromSSTable, GetReturns, At
    <3> QED
      BY <3>1, CallIsOpen, Zenon DEF AckedInv
  <2> QED
    BY <2>1, <2>2
<1>4. engine' = "open" /\ writes' \in Nat
  BY <1>1, <1>3 DEF AckedInv, EngineOk
<1>5. ASSUME NEW c, Goto(t, c),
             c.pc \in {"idle", "look", "got"} \/ (c.pc = "search" /\ "pc" \in DOMAIN c)
      PROVE  AckedInv'
  <2>1. CallOk(c, next_sst_sequence)
    BY <1>5, Zenon DEF CallOk
  <2>2. c.pc \in {"idle", "look", "got", "search"}
    BY <1>5
  <2>3. c.pc \notin {"lsn", "write", "add"} /\ c.pc \notin FlushPcs
    BY <2>2, Zenon DEF FlushPcs
  <2>4. call[t].pc \notin {"lsn", "write", "add"}
    BY <1>2, Zenon
  <2> QED
    BY <1>1, <1>3, <1>4, <1>5, <2>1, <2>3, <2>4, QuietKeeps, ZenonT(30)
<1>6. ASSUME NEW k, NEW l, NEW v, Got(t, k, l, v) PROVE AckedInv'
  <2>1. PICK c : c = [pc |-> "got", key |-> k, latest |-> l, found |-> v]
    BY Zenon
  <2>2. Goto(t, c) /\ c.pc = "got"
    BY <1>6, <2>1 DEF Got
  <2> QED
    BY <1>5, <2>2
<1>7. CASE \E k \in Key : GetFromMemTable(t, k)
  <2>1. ASSUME NEW k, NEW l, Goto(t, [pc |-> "look", key |-> k, latest |-> l]) PROVE AckedInv'
    <3>1. PICK c : c = [pc |-> "look", key |-> k, latest |-> l]
      BY Zenon
    <3>2. Goto(t, c) /\ c.pc = "look"
      BY <2>1, <3>1, Zenon
    <3> QED
      BY <1>5, <3>2
  <2> QED
    BY <1>6, <1>7, <2>1, Zenon DEF GetFromMemTable
<1>8. CASE GetSnapshot(t)
  <2>1. PICK c : c = [pc |-> "search", key |-> call[t].key, latest |-> call[t].latest,
                      left |-> {f \in files : InRange(f, call[t].key)}]
    BY Zenon
  <2>2. Goto(t, c) /\ c.pc = "search" /\ "pc" \in DOMAIN c
    BY <1>8, <2>1, ZenonT(30) DEF GetSnapshot
  <2> QED
    BY <1>5, <2>2
<1>9. CASE GetFromSSTable(t)
  <2>1. ASSUME NEW f, Goto(t, [call[t] EXCEPT !.left = @ \ {f}]) PROVE AckedInv'
    <3>1. PICK old : old = call[t]
      BY Zenon
    <3>2. PICK c : c = [old EXCEPT !.left = old.left \ {f}]
      BY Zenon
    <3>3. old.pc = "search" /\ "pc" \in DOMAIN old
      BY <1>9, <3>1, Zenon DEF GetFromSSTable, At, AckedInv, EngineOk, CallOk
    <3>4. c.pc = "search" /\ "pc" \in DOMAIN c
      BY <3>2, <3>3, Zenon
    <3>5. Goto(t, c)
      BY <2>1, <3>1, <3>2, Zenon
    <3> QED
      BY <1>5, <3>4, <3>5, Zenon
  <2> QED
    BY <1>6, <1>9, <2>1, Zenon DEF GetFromSSTable
<1>10. CASE GetReturns(t)
  <2>1. PICK c : c = Idle
    BY Zenon
  <2>2. Goto(t, c) /\ c.pc = "idle"
    BY <1>10, <2>1, Zenon DEF GetReturns, Idle
  <2> QED
    BY <1>5, <2>2, Zenon
<1> QED
  BY <1>7, <1>8, <1>9, <1>10, Zenon

\* The memtable takes the put.
LEMMA ApplyKeeps ==
  ASSUME AckedInv, NEW t \in Thread, ApplyToMemTable(t)
  PROVE  AckedInv'
<1>1. call[t].pc = "apply" /\ ~ At(t, "idle") /\ CallOk(call[t], next_sst_sequence)
  BY Zenon DEF ApplyToMemTable, At, AckedInv, EngineOk
<1>2. engine = "open"
  BY <1>1, CallIsOpen DEF AckedInv
<1>3. PICK w : w = call[t].write
  BY Zenon
<1>4. w.key \in Key /\ w.version \in Version /\ w.version.kind = "put"
  BY <1>1, <1>3, Zenon DEF CallOk
<1>5. /\ active_memtable' = [k \in DOMAIN active_memtable \cup {w.key} |->
                               IF k = w.key THEN w.version ELSE active_memtable[k]]
      /\ UNCHANGED <<engine, writes>>
      /\ UNCHANGED <<files, disk, next_file_number, jobVars, next_sst_sequence>>
  BY <1>3, Zenon DEF ApplyToMemTable, compactionVars, sessionVars
<1>6. PICK c : /\ Goto(t, c) /\ c \in {Idle, [pc |-> "swap", ack |-> {w}]}
               /\ \A k \in Key : acked_version'[k] = acked_version[k] \/ \E a \in {w} : a.key = k
  <2>1. CASE ReturnOk(t, {w})
    <3>1. Goto(t, Idle)
      BY <1>2, <2>1 DEF ReturnOk
    <3>2. PICK A : A = {w}
      BY Zenon
    <3>3. \A k \in Key : acked_version'[k] = acked_version[k] \/ \E a \in A : a.key = k
      BY <2>1, <3>2, Acknowledged, Zenon DEF ReturnOk
    <3> QED
      BY <3>1, <3>2, <3>3, Zenon
  <2>2. CASE Goto(t, [pc |-> "swap", ack |-> {w}]) /\ acked_version' = acked_version
    BY <2>2, Zenon
  <2> QED
    BY <1>3, <2>1, <2>2, Zenon DEF ApplyToMemTable
<1>7. c.pc \in {"idle", "swap"} /\ CallOk(c, next_sst_sequence) /\ (c.pc = "swap" => c.ack = {w})
  BY <1>6 DEF CallOk, Idle
<1>8. Puts(active_memtable')
  <2>1. Puts(active_memtable)
    BY Zenon DEF AckedInv, EngineOk
  <2>2. PICK K \in SUBSET Key : IsFiniteSet(K) /\ active_memtable \in [K -> Version]
    BY <2>1 DEF Puts, Table
  <2>3. DOMAIN active_memtable = K
    BY <2>2
  <2>4. IsFiniteSet(K \cup {w.key}) /\ K \cup {w.key} \in SUBSET Key
    BY <1>4, <2>2, FS_AddElement, Zenon
  <2>5. active_memtable' \in [K \cup {w.key} -> Version]
    BY <1>4, <1>5, <2>2, <2>3, Zenon
  <2>6. active_memtable' \in Table
    BY <2>4, <2>5, Zenon DEF Table
  <2>7. \A k \in DOMAIN active_memtable' : active_memtable'[k].kind = "put"
    BY <1>4, <1>5, <2>1, <2>3, Zenon DEF Puts
  <2> QED
    BY <2>6, <2>7, Zenon DEF Puts
<1>9. DOMAIN active_memtable \subseteq DOMAIN active_memtable' /\ w.key \in DOMAIN active_memtable'
  BY <1>5, Zenon
<1>10. /\ call'[t] = c
       /\ \A u \in Thread : (u # t) => call'[u] = call[u]
  BY <1>6, CallMoves DEF AckedInv
<1>11. ASSUME NEW k, Present(k) PROVE Present(k)'
  <2>1. CASE k \in DOMAIN active_memtable
    BY <1>9, <2>1 DEF Present
  <2>2. ASSUME NEW u \in Thread, call[u].pc \in {"lsn", "write"}, k \in DOMAIN call[u].table
        PROVE  Present(k)'
    <3>1. call'[u] = call[u]
      BY <1>1, <1>10, <2>2, Zenon
    <3> QED
      BY <2>2, <3>1, Zenon DEF Present
  <2>3. ASSUME NEW u \in Thread, At(u, "add"), InFile(disk, call[u].meta, k) PROVE Present(k)'
    <3>1. call'[u] = call[u] /\ At(u, "add")'
      BY <1>1, <1>10, <2>3, ZenonT(30) DEF At
    <3>2. InFile(disk', call'[u].meta, k)
      BY <1>5, <2>3, <3>1, Zenon
    <3> QED
      BY <3>1, <3>2, Zenon DEF Present
  <2>4. ASSUME NEW f \in files, InFile(disk, f, k) PROVE Present(k)'
    BY <1>5, <2>4, Zenon DEF Present
  <2> QED
    BY <1>11, <2>1, <2>2, <2>3, <2>4, Zenon DEF Present
<1>12. Present(w.key)'
  BY <1>9, Zenon DEF Present
<1>13. AckOk'
  <2>1. \A a \in {w} : (a.key # EmptyKey) => Present(a.key)'
    BY <1>12, ZenonT(30)
  <2>2. \A u \in Thread : call'[u].pc \in FlushPcs =>
          \/ call[u].pc \in FlushPcs /\ call'[u].ack = call[u].ack
          \/ \A a \in call'[u].ack : a \in {w}
    BY <1>7, <1>10, Zenon DEF FlushPcs
  <2> QED
    BY <1>6, <1>11, <2>1, <2>2, AcksStay, Zenon DEF AckedInv
<1>14. EngineOk'
  BY <1>2, <1>5, <1>6, <1>7, <1>8, EngineStays, ZenonT(30) DEF AckedInv, EngineOk
<1>15. FilesOk'
  BY <1>5, FilesStay, Zenon DEF AckedInv
<1>16. PendingOk'
  <2>1. Paths(files \cup all_inputs \cup new_files)' = Paths(files \cup all_inputs \cup new_files)
    BY <1>5, Zenon DEF jobVars
  <2>2. c.pc # "add"
    BY <1>7
  <2> QED
    BY <1>6, <2>1, <2>2, PendingStays, ZenonT(30) DEF AckedInv
<1> QED
  BY <1>13, <1>14, <1>15, <1>16, Zenon DEF AckedInv

\* The memtable goes to the flush.
LEMMA SwapKeeps ==
  ASSUME AckedInv, NEW t \in Thread, SwapMemTable(t), active_memtable # EmptyTable
  PROVE  AckedInv'
<1>1. call[t].pc = "swap" /\ ~ At(t, "idle")
  BY ZenonT(30) DEF SwapMemTable, At
<1>2. engine = "open"
  BY <1>1, CallIsOpen, Zenon DEF AckedInv
<1>3. PICK c, T : /\ T = active_memtable
                  /\ c = [pc |-> "lsn", ack |-> call[t].ack, table |-> T]
  BY Zenon
<1>4. /\ Goto(t, c) /\ active_memtable' = EmptyTable
      /\ UNCHANGED <<engine, writes, acked_version>>
      /\ UNCHANGED <<files, disk, next_file_number, jobVars, next_sst_sequence>>
  BY <1>3, Zenon DEF SwapMemTable, compactionVars, sessionVars
<1>5. Puts(T) /\ Puts(EmptyTable)
  <2>1. IsFiniteSet({}) /\ {} \in SUBSET Key
    BY FS_EmptySet, Zenon
  <2>2. EmptyTable \in [{} -> Version] /\ DOMAIN EmptyTable = {}
    BY Zenon DEF EmptyTable
  <2> QED
    BY <1>3, <2>1, <2>2, Zenon DEF AckedInv, EngineOk, Puts, Table
<1>6. /\ c.pc = "lsn" /\ c.ack = call[t].ack /\ c.table = T
  BY <1>3
<1>7. CallOk(c, next_sst_sequence)
  BY <1>5, <1>6, Zenon DEF CallOk
<1>8. /\ call'[t] = c
      /\ \A u \in Thread : (u # t) => call'[u] = call[u]
  BY <1>4, CallMoves, Zenon DEF AckedInv
<1>9. ASSUME NEW k, Present(k) PROVE Present(k)'
  <2>1. CASE k \in DOMAIN active_memtable
    <3>1. call'[t].pc \in {"lsn", "write"} /\ k \in DOMAIN call'[t].table
      BY <1>3, <1>6, <1>8, <2>1, Zenon
    <3> QED
      BY <3>1, Zenon DEF Present
  <2>2. ASSUME NEW u \in Thread, call[u].pc \in {"lsn", "write"}, k \in DOMAIN call[u].table
        PROVE  Present(k)'
    <3>1. call'[u] = call[u]
      BY <1>1, <1>8, <2>2, Zenon
    <3> QED
      BY <2>2, <3>1, Zenon DEF Present
  <2>3. ASSUME NEW u \in Thread, At(u, "add"), InFile(disk, call[u].meta, k) PROVE Present(k)'
    <3>1. call'[u] = call[u] /\ At(u, "add")'
      BY <1>1, <1>8, <2>3, ZenonT(30) DEF At
    <3>2. InFile(disk', call'[u].meta, k)
      BY <1>4, <2>3, <3>1, Zenon
    <3> QED
      BY <3>1, <3>2, Zenon DEF Present
  <2>4. ASSUME NEW f \in files, InFile(disk, f, k) PROVE Present(k)'
    BY <1>4, <2>4, Zenon DEF Present
  <2> QED
    BY <1>9, <2>1, <2>2, <2>3, <2>4, Zenon DEF Present
<1>10. AckOk'
  <2> PICK A : A = {}
    BY Zenon
  <2>1. \A k \in Key : acked_version'[k] = acked_version[k] \/ \E a \in A : a.key = k
    BY <1>4, ZenonT(30)
  <2>2. \A u \in Thread : call'[u].pc \in FlushPcs =>
          \/ call[u].pc \in FlushPcs /\ call'[u].ack = call[u].ack
          \/ \A a \in call'[u].ack : a \in A
    BY <1>1, <1>6, <1>8, Zenon DEF FlushPcs
  <2>3. \A a \in A : (a.key # EmptyKey) => Present(a.key)'
    BY SMTT(30)
  <2> QED
    BY <1>9, <2>1, <2>2, <2>3, AcksStay, Zenon DEF AckedInv
<1>11. EngineOk'
  BY <1>2, <1>4, <1>5, <1>7, EngineStays, ZenonT(30) DEF AckedInv, EngineOk
<1>12. FilesOk'
  BY <1>4, FilesStay, Zenon DEF AckedInv
<1>13. PendingOk'
  <2>1. Paths(files \cup all_inputs \cup new_files)' = Paths(files \cup all_inputs \cup new_files)
    BY <1>4, Zenon DEF jobVars
  <2>2. c.pc # "add"
    BY <1>6
  <2> QED
    BY <1>4, <2>1, <2>2, PendingStays, Zenon DEF AckedInv
<1> QED
  BY <1>10, <1>11, <1>12, <1>13, Zenon DEF AckedInv

\* Files under other paths, and what is said of them, stay.
LEMMA NewFileKeeps ==
  ASSUME FilesOk, NEW T, Puts(T), disk' = WithTable(Level0Path(next_sst_sequence), T),
         next_sst_sequence' = next_sst_sequence + 1,
         UNCHANGED <<files, next_file_number, jobVars>>
  PROVE  FilesOk'
<1>1. UNCHANGED <<files, next_file_number, step, target_level, all_inputs, new_files>>
  BY Zenon DEF jobVars
<1>2. PICK q, n : n = next_sst_sequence /\ n \in Nat /\ q = Level0Path(n)
  BY Zenon DEF FilesOk
<1>3. q[1] = 0 /\ q[2] = n
  BY <1>2, SMTT(30) DEF Level0Path
<1>4. /\ DOMAIN disk' = DOMAIN disk \cup {q} /\ disk'[q] = T
      /\ \A p \in DOMAIN disk : (p # q) => disk'[p] = disk[p]
  BY <1>2, WithTableKeeps, Zenon
<1>5. \A p \in DOMAIN disk' : Puts(disk'[p])
  BY <1>4, ZenonT(30) DEF FilesOk
<1>6. ASSUME NEW f, IsMeta(f), Drawn(f, next_sst_sequence, next_file_number)
      PROVE  f.filepath # q /\ Drawn(f, next_sst_sequence', next_file_number')
  <2>1. f.filepath[2] \in Nat
    BY <1>6, Zenon DEF IsMeta
  <2>2. f.filepath[2] < n => f.filepath[2] # n /\ f.filepath[2] < n + 1
    BY <1>2, <2>1
  <2>3. next_sst_sequence' = n + 1 /\ next_file_number' = next_file_number
    BY <1>1, <1>2, Zenon
  <2>4. f.filepath # q
    BY <1>2, <1>3, <1>6, <2>2, Zenon DEF Drawn
  <2> QED
    BY <1>2, <1>6, <2>2, <2>3, <2>4, Zenon DEF Drawn
<1>7. \A f \in files \cup all_inputs \cup new_files : f.filepath # q
  BY <1>6, Zenon DEF FilesOk
<1>8. ASSUME step \in {"add", "remove", "unlink"}
      PROVE  Replaced(disk', all_inputs, files \cup new_files)
  <2> SUFFICES ASSUME NEW f \in all_inputs, f.filepath \in DOMAIN disk',
                      NEW k \in DOMAIN disk'[f.filepath] \ {EmptyKey}
               PROVE  \E g \in files \cup new_files :
                        InFile(disk', g, k) /\ g.filepath \notin Paths(all_inputs)
    BY Zenon DEF Replaced
  <2>1. f.filepath \in DOMAIN disk /\ k \in DOMAIN disk[f.filepath] \ {EmptyKey}
    BY <1>4, <1>7, Zenon
  <2>2. PICK g \in files \cup new_files : InFile(disk, g, k) /\ g.filepath \notin Paths(all_inputs)
    BY <1>8, <2>1, Zenon DEF FilesOk, Replaced
  <2>3. g.filepath \in DOMAIN disk' /\ disk'[g.filepath] = disk[g.filepath]
    BY <1>4, <1>7, <2>2, ZenonT(30) DEF InFile
  <2> QED
    BY <2>2, <2>3, InFileStays, Zenon
<1>9. \A f \in files \cup all_inputs \cup new_files :
        IsMeta(f) /\ Drawn(f, next_sst_sequence', next_file_number')
  BY <1>6, Zenon DEF FilesOk
<1>10. next_sst_sequence' \in Nat
  BY <1>2
<1>11. step = "unlink" => \A f \in files, g \in all_inputs :
                            FirstInput(g)' => f.filepath # g.filepath
  BY <1>1, Zenon DEF FilesOk, FirstInput, ListedBefore
<1> QED
  BY <1>1, <1>5, <1>8, <1>9, <1>10, <1>11, Zenon DEF FilesOk

\* The flush writes its table under a path of its own.
LEMMA WriteFileKeeps ==
  ASSUME AckedInv, NEW t \in Thread, WriteLevel0(t), io_errors = 0, io_errors' = 0
  PROVE  AckedInv'
<1>1. call[t].pc = "write" /\ ~ At(t, "idle")
  BY ZenonT(30) DEF WriteLevel0, At
<1>2. engine = "open"
  BY <1>1, CallIsOpen DEF AckedInv
<1>3. PICK n, T, a, l, c :
        /\ n = next_sst_sequence /\ T = call[t].table /\ a = call[t].ack
        /\ c = [pc |-> "add", ack |-> a, flush_lsn |-> l,
                meta |-> Level0Meta(n, T, Min(DOMAIN T), Max(DOMAIN T))]
        /\ l = call[t].flush_lsn
  BY Zenon
<1>4. /\ Goto(t, c) /\ disk' = WithTable(Level0Path(n), T) /\ next_sst_sequence' = n + 1
      /\ UNCHANGED <<engine, writes, active_memtable, acked_version>>
      /\ UNCHANGED <<files, next_file_number, jobVars>>
  <2>1. ~ (io_errors' = io_errors + 1)
    BY SMTT(30)
  <2> QED
    BY <1>3, <2>1, Zenon DEF WriteLevel0, sessionVars
<1>5. Puts(T) /\ n \in Nat
  BY <1>1, <1>3, ZenonT(30) DEF AckedInv, EngineOk, CallOk, FilesOk
<1>6. PICK f : f = Level0Meta(n, T, Min(DOMAIN T), Max(DOMAIN T))
  BY Zenon
<1>7. /\ IsMeta(f) /\ f.filepath = <<0, n>> /\ f.filepath[1] = 0 /\ f.filepath[2] = n
      /\ f.smallest_key = Min(DOMAIN T) /\ f.largest_key = Max(DOMAIN T)
  BY <1>5, <1>6, MetaOfFlush, SMTT(30)
<1>8. c.pc = "add" /\ c.ack = call[t].ack /\ c.meta = f
  BY <1>3, <1>6, ZenonT(30)
<1>9. CallOk(c, n + 1)
  BY <1>5, <1>7, <1>8, SMTT(30) DEF CallOk
<1>10. /\ call'[t] = c
       /\ \A u \in Thread : (u # t) => call'[u] = call[u]
  BY <1>4, CallMoves, ZenonT(30) DEF AckedInv
<1>11. /\ DOMAIN disk' = DOMAIN disk \cup {f.filepath} /\ disk'[f.filepath] = T
       /\ \A p \in DOMAIN disk : (p # f.filepath) => disk'[p] = disk[p]
  BY <1>4, <1>7, WithTableKeeps, ZenonT(30) DEF Level0Path
<1>12. /\ \A g \in files \cup all_inputs \cup new_files : g.filepath # f.filepath
       /\ \A u \in Thread : At(u, "add") => call[u].meta.filepath # f.filepath
  <2>1. ASSUME NEW g, IsMeta(g), \/ Drawn(g, n, next_file_number)
                                 \/ g.filepath[1] = 0 /\ g.filepath[2] < n
        PROVE  g.filepath # f.filepath
    <3>1. g.filepath[2] \in Nat
      BY <2>1, ZenonT(30) DEF IsMeta
    <3>2. g.filepath[1] # 0 \/ g.filepath[2] # n
      BY <1>5, <2>1, <3>1 DEF Drawn
    <3> QED
      BY <1>7, <3>2, Zenon
  <2>2. \A g \in files \cup all_inputs \cup new_files : g.filepath # f.filepath
    BY <1>3, <2>1, Zenon DEF AckedInv, FilesOk
  <2>3. ASSUME NEW u \in Thread, At(u, "add") PROVE call[u].meta.filepath # f.filepath
    <3>1. PICK g : g = call[u].meta
      BY Zenon
    <3>2. IsMeta(g) /\ g.filepath[1] = 0 /\ g.filepath[2] < n
      BY <1>3, <2>3, <3>1, ZenonT(30) DEF At, AckedInv, EngineOk, CallOk
    <3> QED
      BY <2>1, <3>1, <3>2, ZenonT(30)
  <2> QED
    BY <2>2, <2>3, ZenonT(30)
<1>13. ASSUME NEW g, NEW k, InFile(disk, g, k), g.filepath # f.filepath PROVE InFile(disk', g, k)
  <2>1. g.filepath \in DOMAIN disk
    BY <1>13, ZenonT(30) DEF InFile
  <2> QED
    BY <1>11, <1>13, <2>1, InFileStays, Zenon
<1>14. \A k \in DOMAIN T : InFile(disk', f, k)
  <2> SUFFICES ASSUME NEW k \in DOMAIN T PROVE InFile(disk', f, k)
    OBVIOUS
  <2>1. Min(DOMAIN T) <= k /\ k <= Max(DOMAIN T)
    BY <1>5, TableKeys, RangeOfKeys, Zenon DEF Puts
  <2> QED
    BY <1>7, <1>11, <2>1, Zenon DEF InFile, InRange
<1>15. ASSUME NEW k, Present(k) PROVE Present(k)'
  <2>1. CASE k \in DOMAIN active_memtable
    BY <1>4, <2>1, ZenonT(30) DEF Present
  <2>2. ASSUME NEW u \in Thread, call[u].pc \in {"lsn", "write"}, k \in DOMAIN call[u].table
        PROVE  Present(k)'
    <3>1. CASE u = t
      <4>1. At(t, "add")' /\ InFile(disk', call'[t].meta, k)
        BY <1>3, <1>8, <1>10, <1>14, <2>2, <3>1, ZenonT(30) DEF At
      <4> QED
        BY <4>1, Zenon DEF Present
    <3>2. CASE u # t
      <4>1. call'[u] = call[u]
        BY <1>10, <3>2
      <4> QED
        BY <2>2, <4>1, Zenon DEF Present
    <3> QED
      BY <3>1, <3>2
  <2>3. ASSUME NEW u \in Thread, At(u, "add"), InFile(disk, call[u].meta, k) PROVE Present(k)'
    <3>1. call'[u] = call[u] /\ At(u, "add")'
      BY <1>1, <1>10, <2>3, ZenonT(30) DEF At
    <3>2. InFile(disk', call'[u].meta, k)
      BY <1>12, <1>13, <2>3, <3>1, ZenonT(30)
    <3> QED
      BY <3>1, <3>2, Zenon DEF Present
  <2>4. ASSUME NEW g \in files, InFile(disk, g, k) PROVE Present(k)'
    BY <1>4, <1>12, <1>13, <2>4, Zenon DEF Present
  <2> QED
    BY <1>15, <2>1, <2>2, <2>3, <2>4, Zenon DEF Present
<1>16. AckOk'
  <2> PICK A : A = {}
    BY Zenon
  <2>1. \A k \in Key : acked_version'[k] = acked_version[k] \/ \E x \in A : x.key = k
    BY <1>4, ZenonT(30)
  <2>2. \A u \in Thread : call'[u].pc \in FlushPcs =>
          \/ call[u].pc \in FlushPcs /\ call'[u].ack = call[u].ack
          \/ \A x \in call'[u].ack : x \in A
    BY <1>1, <1>8, <1>10, Zenon DEF FlushPcs
  <2>3. \A x \in A : (x.key # EmptyKey) => Present(x.key)'
    BY SMTT(30)
  <2> QED
    BY <1>15, <2>1, <2>2, <2>3, AcksStay, Zenon DEF AckedInv
<1>17. EngineOk'
  BY <1>2, <1>3, <1>4, <1>5, <1>9, EngineStays, ZenonT(30) DEF AckedInv, EngineOk
<1>18. FilesOk'
  BY <1>3, <1>4, <1>5, NewFileKeeps, Zenon DEF AckedInv
<1>19. PendingOk'
  <2>1. Paths(files \cup all_inputs \cup new_files)' = Paths(files \cup all_inputs \cup new_files)
    BY <1>4, ZenonT(30) DEF jobVars
  <2>2. f.filepath \notin Paths(files \cup all_inputs \cup new_files)
    BY <1>12, Zenon DEF Paths
  <2>3. \A u \in Thread : At(u, "add")' => u = t \/ (At(u, "add") /\ call'[u] = call[u])
    BY <1>10, Zenon DEF At
  <2>4. call'[t].meta = f
    BY <1>8, <1>10, ZenonT(30)
  <2>5. ASSUME NEW u \in Thread, At(u, "add")'
        PROVE  call'[u].meta.filepath \notin Paths(files \cup all_inputs \cup new_files)'
    BY <2>1, <2>2, <2>3, <2>4, <2>5, Zenon DEF AckedInv, PendingOk
  <2>6. ASSUME NEW u \in Thread, NEW v \in Thread, At(u, "add")', At(v, "add")',
               call'[u].meta.filepath = call'[v].meta.filepath
        PROVE  u = v
    BY <1>12, <2>3, <2>4, <2>6, Zenon DEF AckedInv, PendingOk
  <2> QED
    BY <2>5, <2>6, Zenon DEF PendingOk
<1> QED
  BY <1>16, <1>17, <1>18, <1>19, Zenon DEF AckedInv

\* The catalogue takes the file.
LEMMA RegisterKeeps ==
  ASSUME AckedInv, NEW t \in Thread, RegisterLevel0(t)
  PROVE  AckedInv'
<1>1. call[t].pc = "add" /\ At(t, "add") /\ ~ At(t, "idle")
  BY Zenon DEF RegisterLevel0, At
<1>2. engine = "open"
  BY <1>1, CallIsOpen DEF AckedInv
<1>3. PICK f, g, c, n, a, l :
        /\ f = call[t].meta /\ n = Cardinality({h \in files : h.filepath = f.filepath})
        /\ g = [f EXCEPT !.copy = n] /\ a = call[t].ack /\ l = call[t].flush_lsn
        /\ c = [pc |-> "files", ack |-> a, flush_lsn |-> l]
  BY Zenon
<1>4. /\ Goto(t, c) /\ files' = files \cup {g}
      /\ UNCHANGED <<engine, writes, active_memtable, acked_version, disk, next_sst_sequence>>
      /\ UNCHANGED <<next_file_number, step, target_level, all_inputs, new_files>>
  BY <1>3, Zenon DEF RegisterLevel0, AddFile, sessionVars, jobVars
<1>5. IsMeta(f) /\ f.filepath[1] = 0 /\ f.filepath[2] < next_sst_sequence
  BY <1>1, <1>3, Zenon DEF AckedInv, EngineOk, CallOk
<1>6. /\ IsMeta(g) /\ g.filepath = f.filepath
      /\ g.smallest_key = f.smallest_key /\ g.largest_key = f.largest_key
  BY <1>3, <1>5, MetaCopy
<1>7. c.pc = "files" /\ c.ack = call[t].ack /\ CallOk(c, next_sst_sequence)
  BY <1>3, Zenon DEF CallOk
<1>8. /\ call'[t] = c
      /\ \A u \in Thread : (u # t) => call'[u] = call[u]
  BY <1>4, CallMoves, Zenon DEF AckedInv
<1>9. ASSUME NEW k, Present(k) PROVE Present(k)'
  <2>1. CASE k \in DOMAIN active_memtable
    BY <1>4, <2>1, ZenonT(30) DEF Present
  <2>2. ASSUME NEW u \in Thread, call[u].pc \in {"lsn", "write"}, k \in DOMAIN call[u].table
        PROVE  Present(k)'
    <3>1. call'[u] = call[u]
      BY <1>1, <1>8, <2>2, ZenonT(30)
    <3> QED
      BY <2>2, <3>1, Zenon DEF Present
  <2>3. ASSUME NEW u \in Thread, At(u, "add"), InFile(disk, call[u].meta, k) PROVE Present(k)'
    <3>1. CASE u = t
      <4>1. InFile(disk, f, k)
        BY <1>3, <2>3, <3>1, ZenonT(30)
      <4>2. InFile(disk, g, k)
        BY <1>6, <4>1, Zenon DEF InFile, InRange
      <4>3. g \in files' /\ InFile(disk', g, k)
        BY <1>4, <4>2, ZenonT(30)
      <4> QED
        BY <4>3, Zenon DEF Present
    <3>2. CASE u # t
      <4>1. call'[u] = call[u] /\ At(u, "add")' /\ InFile(disk', call'[u].meta, k)
        BY <1>4, <1>8, <2>3, <3>2, ZenonT(30) DEF At
      <4> QED
        BY <4>1, Zenon DEF Present
    <3> QED
      BY <3>1, <3>2
  <2>4. ASSUME NEW h \in files, InFile(disk, h, k) PROVE Present(k)'
    BY <1>4, <2>4, Zenon DEF Present
  <2> QED
    BY <1>9, <2>1, <2>2, <2>3, <2>4, Zenon DEF Present
<1>10. AckOk'
  <2> PICK A : A = {}
    BY Zenon
  <2>1. \A k \in Key : acked_version'[k] = acked_version[k] \/ \E x \in A : x.key = k
    BY <1>4, Zenon
  <2>2. \A u \in Thread : call'[u].pc \in FlushPcs =>
          \/ call[u].pc \in FlushPcs /\ call'[u].ack = call[u].ack
          \/ \A x \in call'[u].ack : x \in A
    BY <1>1, <1>7, <1>8, Zenon DEF FlushPcs
  <2>3. \A x \in A : (x.key # EmptyKey) => Present(x.key)'
    BY ZenonT(30)
  <2> QED
    BY <1>9, <2>1, <2>2, <2>3, AcksStay, Zenon DEF AckedInv
<1>11. EngineOk'
  BY <1>2, <1>4, <1>7, EngineStays, ZenonT(30) DEF AckedInv, EngineOk
<1>12. f.filepath \notin Paths(files \cup all_inputs \cup new_files)
  BY <1>1, <1>3, Zenon DEF AckedInv, PendingOk
<1>13. FilesOk'
  <2>1. IsFiniteSet(files')
    BY <1>4, FS_AddElement, Zenon DEF AckedInv, FilesOk
  <2>2. \A h \in files' \cup all_inputs \cup new_files :
          IsMeta(h) /\ Drawn(h, next_sst_sequence, next_file_number)
    BY <1>4, <1>5, <1>6, ZenonT(30) DEF AckedInv, FilesOk, Drawn
  <2>3. step \in {"add", "remove", "unlink"} => Replaced(disk, all_inputs, files' \cup new_files)
    BY <1>4, Zenon DEF AckedInv, FilesOk, Replaced
  <2>4. step = "unlink" => \A h \in files', i \in all_inputs :
                             FirstInput(i) => h.filepath # i.filepath
    BY <1>4, <1>6, <1>12, Zenon DEF AckedInv, FilesOk, Paths
  <2> QED
    BY <1>4, <2>1, <2>2, <2>3, <2>4 DEF AckedInv, FilesOk, FirstInput, ListedBefore
<1>14. PendingOk'
  <2>1. Paths(files \cup all_inputs \cup new_files)'
          \subseteq Paths(files \cup all_inputs \cup new_files) \cup {call[t].meta.filepath}
    BY <1>3, <1>4, <1>6, ZenonT(30) DEF Paths
  <2>2. c.pc # "add"
    BY <1>7, ZenonT(30)
  <2> QED
    BY <1>1, <1>4, <2>1, <2>2, PendingStays, ZenonT(30) DEF AckedInv
<1> QED
  BY <1>10, <1>11, <1>13, <1>14, Zenon DEF AckedInv
----------------------------------------------------------------------------
(* RunCompaction. *)

\* A step of the compaction thread: no key may vanish from the catalogue's files, no
\* file that a flush has written from the disk.
LEMMA JobKeeps ==
  ASSUME AckedInv, engine = "open", UNCHANGED <<engine, clientVars, next_sst_sequence>>, FilesOk',
         \A k : (k # EmptyKey /\ \E f \in files : InFile(disk, f, k))
                  => \E f \in files' : InFile(disk', f, k),
         \A p \in DOMAIN disk \ Paths(files \cup all_inputs \cup new_files) :
           p[1] = 0 => p \in DOMAIN disk' /\ disk'[p] = disk[p],
         \A p \in Paths(files \cup all_inputs \cup new_files)' :
           p \in Paths(files \cup all_inputs \cup new_files) \/ p[1] # 0
  PROVE  AckedInv'
<1>1. UNCHANGED <<engine, active_memtable, call, writes, acked_version, next_sst_sequence>>
  BY Zenon DEF clientVars
<1>2. EngineOk'
  BY <1>1, ZenonT(30) DEF AckedInv, EngineOk
<1>3. \A t \in Thread : At(t, "add")' => At(t, "add") /\ call'[t] = call[t]
  BY <1>1, Zenon DEF At
<1>4. \A t \in Thread : At(t, "add") =>
        /\ call[t].meta.filepath \notin Paths(files \cup all_inputs \cup new_files)
        /\ call[t].meta.filepath[1] = 0
  BY Zenon DEF AckedInv, EngineOk, PendingOk, CallOk, At
<1>5. PendingOk'
  <2>1. ASSUME NEW t \in Thread, At(t, "add")'
        PROVE  call'[t].meta.filepath \notin Paths(files \cup all_inputs \cup new_files)'
    <3>1. At(t, "add") /\ call'[t] = call[t]
      BY <1>3, <2>1, ZenonT(30)
    <3> QED
      BY <1>4, <3>1, Zenon
  <2>2. ASSUME NEW t \in Thread, NEW u \in Thread, At(t, "add")', At(u, "add")',
               call'[t].meta.filepath = call'[u].meta.filepath
        PROVE  t = u
    <3>1. At(t, "add") /\ At(u, "add") /\ call[t].meta.filepath = call[u].meta.filepath
      BY <1>3, <2>2, Zenon
    <3> QED
      BY <3>1, Zenon DEF AckedInv, PendingOk
  <2> QED
    BY <2>1, <2>2, Zenon DEF PendingOk
<1>6. ASSUME NEW k, k # EmptyKey, Present(k) PROVE Present(k)'
  <2>1. CASE k \in DOMAIN active_memtable
    BY <1>1, <2>1, ZenonT(30) DEF Present
  <2>2. CASE \E t \in Thread : call[t].pc \in {"lsn", "write"} /\ k \in DOMAIN call[t].table
    BY <1>1, <2>2, Zenon DEF Present
  <2>3. ASSUME NEW t \in Thread, At(t, "add"), InFile(disk, call[t].meta, k) PROVE Present(k)'
    <3>1. PICK f : f = call[t].meta
      BY Zenon
    <3>2. f.filepath \in DOMAIN disk
      BY <2>3, <3>1, ZenonT(30) DEF InFile
    <3>3. f.filepath \in DOMAIN disk' /\ disk'[f.filepath] = disk[f.filepath]
      BY <1>4, <2>3, <3>1, <3>2, Zenon
    <3>4. InFile(disk', f, k)
      BY <2>3, <3>1, <3>3, InFileStays, ZenonT(30)
    <3>5. At(t, "add")' /\ InFile(disk', call'[t].meta, k)
      BY <1>1, <2>3, <3>1, <3>4, Zenon DEF At
    <3> QED
      BY <3>5, Zenon DEF Present
  <2>4. CASE \E f \in files : InFile(disk, f, k)
    BY <1>6, <2>4, Zenon DEF Present
  <2> QED
    BY <1>6, <2>1, <2>2, <2>3, <2>4, Zenon DEF Present
<1>7. AckOk'
  <2>1. ASSUME NEW k \in Key \ {EmptyKey}, acked_version'[k].kind = "put" PROVE Present(k)'
    BY <1>1, <1>6, <2>1, ZenonT(30) DEF AckedInv, AckOk
  <2>2. ASSUME NEW t \in Thread, call'[t].pc \in FlushPcs, NEW a \in call'[t].ack, a.key # EmptyKey
        PROVE  Present(a.key)'
    BY <1>1, <1>6, <2>2, Zenon DEF AckedInv, AckOk
  <2> QED
    BY <2>1, <2>2, Zenon DEF AckOk
<1> QED
  BY <1>2, <1>5, <1>7, Zenon DEF AckedInv

\* The level that is compacted, when one is.
LEMMA PickedLevel ==
  ASSUME NeedsCompaction
  PROVE  PickCompactionLevel \in Nat
<1> DEFINE S == {level \in 1 .. max_level - 2 :
                   TotalBytesAtLevel(level) > MaxBytesForLevel(level)}
<1>1. S \in SUBSET Nat
  BY CompactionConstants
<1>2. ASSUME S # {} PROVE Min(S) \in Nat
  <2>1. PICK m \in S : \A y \in S : m <= y
    BY <1>1, <1>2, LeastNat, Zenon
  <2>2. Min(S) = CHOOSE x \in S : \A y \in S : x <= y
    BY Zenon DEF Min
  <2>3. Min(S) \in S
    BY <2>1, <2>2, Zenon
  <2> QED
    BY <1>1, <2>3, ZenonT(30)
<1>3. PickCompactionLevel = IF Cardinality(GetFilesAtLevel(0)) >= kLevel0CompactionTrigger THEN 0
                            ELSE IF S # {} THEN Min(S) ELSE -1
  BY Zenon DEF PickCompactionLevel
<1> HIDE DEF S
<1> QED
  BY <1>2, <1>3, Zenon DEF NeedsCompaction

\* The inputs are entries of the catalogue with other numbers.
LEMMA NumberedFiles ==
  ASSUME NEW S, NEW T, IsFiniteSet(S), IsFiniteSet(T), \A f \in S \cup T : IsMeta(f),
         NEW rankS \in SortOrders(S), NEW rankT \in SortOrders(T)
  PROVE  /\ IsFiniteSet(Numbered(S, T, rankS, rankT))
         /\ \A g \in Numbered(S, T, rankS, rankT) :
              IsMeta(g) /\ \E f \in S \cup T : g.filepath = f.filepath
<1>1. PICK n, m : n = Cardinality(S) /\ m = Cardinality(T)
  BY Zenon
<1>2. n \in Nat /\ m \in Nat
  BY <1>1, FS_CardinalityType, Zenon
<1>3. /\ \A f \in S : rankS[f] \in 1 .. n
      /\ \A f \in T : rankT[f] \in 1 .. m
  BY <1>1 DEF SortOrders, Bijection, Injection, Surjection
<1> DEFINE total == Cardinality(S) + Cardinality(T)
           A == {[f EXCEPT !.sequence_number = total - (rankS[f] - 1)] : f \in S}
           B == {[f EXCEPT !.sequence_number = rankT[f] - 1] : f \in T}
<1>4. Numbered(S, T, rankS, rankT) = A \cup B
  BY Zenon DEF Numbered
<1>5. IsFiniteSet(A)
  <2>1. PICK h : h = [f \in S |-> [f EXCEPT !.sequence_number = total - (rankS[f] - 1)]]
    BY Zenon
  <2>2. \A y \in A : \E x \in S : y = h[x]
    BY <2>1
  <2> HIDE DEF A
  <2> QED
    BY <2>2, FiniteImage, Zenon
<1>6. IsFiniteSet(B)
  <2>1. PICK h : h = [f \in T |-> [f EXCEPT !.sequence_number = rankT[f] - 1]]
    BY Zenon
  <2>2. \A y \in B : \E x \in T : y = h[x]
    BY <2>1, ZenonT(30)
  <2> HIDE DEF B
  <2> QED
    BY <2>2, FiniteImage, Zenon
<1>7. ASSUME NEW g \in A PROVE IsMeta(g) /\ \E f \in S \cup T : g.filepath = f.filepath
  <2>1. PICK f \in S : g = [f EXCEPT !.sequence_number = total - (rankS[f] - 1)]
    OBVIOUS
  <2>2. PICK x : x = total - (rankS[f] - 1)
    BY Zenon
  <2>3. x \in Nat
    BY <1>1, <1>2, <1>3, <2>1, <2>2
  <2>4. IsMeta(g) /\ g.filepath = f.filepath
    BY <2>1, <2>2, <2>3, MetaNumber, Zenon
  <2> QED
    BY <2>4
<1>8. ASSUME NEW g \in B PROVE IsMeta(g) /\ \E f \in S \cup T : g.filepath = f.filepath
  <2>1. PICK f \in T : g = [f EXCEPT !.sequence_number = rankT[f] - 1]
    OBVIOUS
  <2>2. PICK x : x = rankT[f] - 1
    BY Zenon
  <2>3. x \in Nat
    BY <1>2, <1>3, <2>1, <2>2
  <2>4. IsMeta(g) /\ g.filepath = f.filepath
    BY <2>1, <2>2, <2>3, MetaNumber, Zenon
  <2> QED
    BY <2>4
<1> HIDE DEF A, B
<1>9. IsFiniteSet(A \cup B)
  BY <1>5, <1>6, FS_Union, Zenon
<1> QED
  BY <1>4, <1>7, <1>8, <1>9, Zenon

\* The inputs of a merge are files of the catalogue.
LEMMA SelectKeeps ==
  ASSUME AckedInv, LoopStart
  PROVE  AckedInv'
<1>1. /\ engine = "open" /\ step = "idle" /\ NeedsCompaction
      /\ step' = "merge" /\ target_level' = PickCompactionLevel + 1
      /\ UNCHANGED <<engine, clientVars, next_sst_sequence, files, disk, next_file_number,
                     new_files>>
  BY Zenon DEF LoopStart, SelectCompactionFiles, sessionVars
<1>2. PICK S, T : /\ S \subseteq files /\ T \subseteq files
                  /\ \E rankS \in SortOrders(S), rankT \in SortOrders(T) :
                       all_inputs' = Numbered(S, T, rankS, rankT)
  <2>1. PICK S \in SourceChoices(PickCompactionLevel) :
          \E rankS \in SortOrders(S),
             rankT \in SortOrders(Overlapping(S, PickCompactionLevel)) :
            all_inputs' = Numbered(S, Overlapping(S, PickCompactionLevel), rankS, rankT)
    BY Zenon DEF LoopStart, SelectCompactionFiles
  <2>2. S \subseteq files
    BY <2>1, Zenon DEF SourceChoices, GetFilesAtLevel
  <2>3. Overlapping(S, PickCompactionLevel) \subseteq files
    BY Zenon DEF Overlapping, GetFilesAtLevel
  <2> QED
    BY <2>1, <2>2, <2>3, Zenon
<1>3. PICK rankS \in SortOrders(S), rankT \in SortOrders(T) :
        all_inputs' = Numbered(S, T, rankS, rankT)
  BY <1>2
<1>4. IsFiniteSet(S) /\ IsFiniteSet(T)
  BY <1>2, FS_Subset, Zenon DEF AckedInv, FilesOk
<1>5. \A f \in S \cup T : IsMeta(f) /\ Drawn(f, next_sst_sequence, next_file_number)
  BY <1>2 DEF AckedInv, FilesOk
<1>6. /\ IsFiniteSet(all_inputs')
      /\ \A g \in all_inputs' : IsMeta(g) /\ \E f \in S \cup T : g.filepath = f.filepath
  <2>1. \A f \in S \cup T : IsMeta(f)
    BY <1>5, Zenon
  <2>2. rankS \in SortOrders(S) /\ rankT \in SortOrders(T)
    BY <1>3, Zenon
  <2>3. /\ IsFiniteSet(Numbered(S, T, rankS, rankT))
        /\ \A g \in Numbered(S, T, rankS, rankT) :
             IsMeta(g) /\ \E f \in S \cup T : g.filepath = f.filepath
    BY <1>4, <2>1, <2>2, NumberedFiles
  <2>4. all_inputs' = Numbered(S, T, rankS, rankT)
    BY <1>3
  <2> QED
    BY <2>3, <2>4, Zenon
<1>7. \A g \in all_inputs' : Drawn(g, next_sst_sequence, next_file_number)
  BY <1>5, <1>6, Zenon DEF Drawn
<1>8. target_level' \in Nat \ {0}
  BY <1>1, PickedLevel
<1>9. FilesOk'
  <2>1. \A f \in files \cup all_inputs' \cup new_files :
          IsMeta(f) /\ Drawn(f, next_sst_sequence, next_file_number)
    BY <1>6, <1>7, Zenon DEF AckedInv, FilesOk
  <2> QED
    BY <1>1, <1>6, <1>8, <2>1, ZenonT(30) DEF AckedInv, FilesOk
<1>10. Paths(files \cup all_inputs \cup new_files)'
         \subseteq Paths(files \cup all_inputs \cup new_files)
  BY <1>1, <1>2, <1>6, Zenon DEF Paths
<1>11. /\ \A k : (k # EmptyKey /\ \E f \in files : InFile(disk, f, k))
                   => \E f \in files' : InFile(disk', f, k)
       /\ \A p \in DOMAIN disk \ Paths(files \cup all_inputs \cup new_files) :
            p[1] = 0 => p \in DOMAIN disk' /\ disk'[p] = disk[p]
  BY <1>1, ZenonT(30)
<1>12. UNCHANGED <<engine, clientVars, next_sst_sequence>>
  BY <1>1, Zenon
<1> QED
  BY <1>1, <1>9, <1>10, <1>11, <1>12, JobKeeps, Zenon

\* The merge gives every key of its inputs the version of one of them.
LEMMA WinnerHas ==
  ASSUME FilesOk, NEW k, NEW i \in all_inputs, Has(i, k)
  PROVE  Winner(k) \in all_inputs /\ Has(Winner(k), k)
<1> DEFINE S == {f \in all_inputs : Has(f, k)}
           N == {f.sequence_number : f \in S}
<1>1. N \in SUBSET Nat /\ N # {}
  <2>1. \A f \in all_inputs : f.sequence_number \in Nat
    BY DEF FilesOk, IsMeta
  <2> QED
    BY <2>1, Zenon
<1>2. IsFiniteSet(N)
  <2>1. PICK h : h = [f \in S |-> f.sequence_number]
    BY Zenon
  <2>2. \A y \in N : \E x \in S : y = h[x]
    BY <2>1
  <2>3. IsFiniteSet(S)
    BY FS_Subset, Zenon DEF FilesOk
  <2> HIDE DEF S, N
  <2> QED
    BY <2>2, <2>3, FiniteImage, Zenon
<1>3. PICK m \in N : \A y \in N : y <= m
  <2> HIDE DEF N
  <2>1. PICK b \in Nat : \A x \in N : x <= b
    BY <1>1, <1>2, FiniteBound, Zenon
  <2> QED
    BY <1>1, <2>1, MaxOfBounded, Zenon
<1>4. PICK f \in S : f.sequence_number = m
  BY Zenon
<1>5. /\ f \in all_inputs /\ Has(f, k)
      /\ \A g \in all_inputs : Has(g, k) => g.sequence_number <= f.sequence_number
  <2>1. \A g \in S : g.sequence_number <= m
    BY <1>3
  <2> QED
    BY <1>4, <2>1, ZenonT(30)
<1> QED
  BY <1>5, Zenon DEF Winner

\* The merge emits puts only, for all keys of its inputs.
LEMMA MergedPuts ==
  ASSUME FilesOk, InputsReadable
  PROVE  /\ MergedKeys = (UNION {DOMAIN disk[f.filepath] : f \in all_inputs}) \ {EmptyKey}
         /\ IsFiniteSet(MergedKeys) /\ MergedKeys \subseteq Key
         /\ \A k \in MergedKeys : Merged[k] \in Version /\ Merged[k].kind = "put"
<1> DEFINE D == {DOMAIN disk[f.filepath] : f \in all_inputs}
<1>1. \A f \in all_inputs : Puts(disk[f.filepath])
  BY Zenon DEF FilesOk, InputsReadable, CanRead
<1>2. ASSUME NEW k \in UNION D
      PROVE  disk[Winner(k).filepath][k] \in Version /\ disk[Winner(k).filepath][k].kind = "put"
  <2>1. PICK i \in all_inputs : Has(i, k)
    BY Zenon DEF Has
  <2>2. PICK w : w = Winner(k)
    BY Zenon
  <2>3. w \in all_inputs /\ Has(w, k)
    BY <2>1, <2>2, WinnerHas, Zenon
  <2>4. PICK T : T = disk[w.filepath]
    BY Zenon
  <2>5. Puts(T) /\ k \in DOMAIN T
    BY <1>1, <2>3, <2>4, Zenon DEF Has
  <2>6. T \in [DOMAIN T -> Version]
    BY <2>5, TableKeys, Zenon DEF Puts
  <2>7. T[k] \in Version /\ T[k].kind = "put"
    BY <2>5, <2>6 DEF Puts
  <2> QED
    BY <2>2, <2>4, <2>7, Zenon
<1>3. MergedKeys = (UNION D) \ {EmptyKey}
  <2>1. \A k \in UNION D : disk[Winner(k).filepath][k].kind # "delete"
    BY <1>2
  <2> HIDE DEF D
  <2>2. MergedKeys = {k \in (UNION D) \ {EmptyKey} :
                        ~ (/\ target_level = max_level - 1
                           /\ disk[Winner(k).filepath][k].kind = "delete")}
    BY Zenon DEF MergedKeys, D
  <2> QED
    BY <2>1, <2>2, Zenon
<1>4. IsFiniteSet(UNION D)
  <2>1. PICK h : h = [f \in all_inputs |-> DOMAIN disk[f.filepath]]
    BY Zenon
  <2>2. \A y \in D : \E x \in all_inputs : y = h[x]
    BY <2>1
  <2>3. \A y \in D : IsFiniteSet(y)
    BY <1>1, TableKeys, Zenon DEF Puts
  <2> HIDE DEF D
  <2>4. IsFiniteSet(all_inputs)
    BY DEF FilesOk
  <2>5. IsFiniteSet(D)
    BY <2>2, <2>4, FiniteImage, Zenon
  <2> QED
    BY <2>3, <2>5, FS_UNION, Zenon
<1>5. UNION D \subseteq Key
  <2>1. \A y \in D : y \subseteq Key
    BY <1>1, TableKeys, Zenon DEF Puts
  <2> QED
    BY <2>1
<1>6. ASSUME NEW k \in MergedKeys PROVE Merged[k] \in Version /\ Merged[k].kind = "put"
  <2>1. k \in UNION D
    BY <1>3, <1>6, Zenon
  <2>2. Merged[k] = disk[Winner(k).filepath][k]
    BY <1>6, Zenon DEF Merged
  <2> QED
    BY <1>2, <2>1, <2>2, ZenonT(30)
<1> HIDE DEF D
<1>7. IsFiniteSet(MergedKeys) /\ MergedKeys \subseteq Key
  <2>1. MergedKeys \subseteq UNION D
    BY <1>3, Zenon
  <2> QED
    BY <1>4, <1>5, <2>1, FS_Subset, Zenon
<1> QED
  BY <1>3, <1>6, <1>7, Zenon DEF D

\* The tables that the merge writes.
LEMMA OutputTables ==
  ASSUME FilesOk, InputsReadable, NEW m \in Nat, NEW part \in Splits(m), NEW j \in 1 .. m
  PROVE  /\ Puts([k \in PartKeys(part, j) |-> Merged[k]])
         /\ \A k \in PartKeys(part, j) :
              Min(PartKeys(part, j)) <= k /\ k <= Max(PartKeys(part, j))
<1>1. PICK K : K = PartKeys(part, j)
  BY Zenon
<1>2. K \subseteq MergedKeys
  BY <1>1 DEF PartKeys
<1>3. /\ IsFiniteSet(MergedKeys) /\ MergedKeys \subseteq Key
      /\ \A k \in MergedKeys : Merged[k] \in Version /\ Merged[k].kind = "put"
  BY MergedPuts, Zenon
<1>4. IsFiniteSet(K) /\ K \subseteq Key
  BY <1>2, <1>3, FS_Subset, Zenon
<1>5. K \in SUBSET Nat
  BY <1>4, CompactionConstants
<1>6. \A k \in K : Min(K) <= k /\ k <= Max(K)
  BY <1>4, <1>5, RangeOfKeys, Zenon
<1>7. PICK T : T = [k \in K |-> Merged[k]]
  BY Zenon
<1>8. T \in [K -> Version] /\ DOMAIN T = K /\ \A k \in K : T[k].kind = "put"
  BY <1>2, <1>3, <1>7, Zenon
<1>9. T \in Table
  BY <1>4, <1>8, Zenon DEF Table
<1>10. Puts(T)
  BY <1>8, <1>9 DEF Puts
<1> QED
  BY <1>1, <1>6, <1>7, <1>10, Zenon

\* The merge writes its outputs to new paths, with every key of its inputs.
LEMMA MergeKeeps ==
  ASSUME AckedInv, engine = "open", UNCHANGED <<engine, clientVars, next_sst_sequence>>, MergeFiles
  PROVE  AckedInv'
<1>1. /\ step = "merge" /\ InputsReadable /\ UNCHANGED <<files, target_level, all_inputs>>
      /\ step' = IF new_files' = {} THEN "remove" ELSE "add"
  BY Zenon DEF MergeFiles
<1>2. PICK m \in 0 .. MaxOutputs : \E part, size :
        /\ part \in Splits(m)
        /\ disk' = WithOutputs(part, m)
        /\ new_files' = {OutputMeta(part, j, size[j]) : j \in 1 .. m}
        /\ next_file_number' = next_file_number + m + 1
  BY Zenon DEF MergeFiles
<1>3. PICK part, size :
        /\ part \in Splits(m)
        /\ disk' = WithOutputs(part, m)
        /\ new_files' = {OutputMeta(part, j, size[j]) : j \in 1 .. m}
        /\ next_file_number' = next_file_number + m + 1
  BY <1>2
<1>4. PICK n, lev : n = next_file_number /\ lev = target_level
  BY Zenon
<1>5. m \in Nat /\ n \in Nat /\ lev \in Nat /\ lev # 0
  BY <1>1, <1>2, <1>4, CompactionConstants, SMTT(30) DEF AckedInv, FilesOk
<1>6. \A j \in 1 .. m : /\ OutputPath(j) = <<lev, n + j - 1>>
                        /\ OutputPath(j)[1] = lev /\ OutputPath(j)[2] = n + j - 1
                        /\ n + j - 1 \in Nat /\ n <= n + j - 1 /\ n + j - 1 < n + m + 1
                        /\ n + j - 1 - n + 1 = j
  BY <1>4, <1>5 DEF OutputPath
<1>7. ASSUME NEW f \in files \cup all_inputs \cup new_files, NEW j \in 1 .. m
      PROVE  f.filepath # OutputPath(j)
  <2>1. f.filepath[2] \in Nat /\ (f.filepath[1] = 0 \/ f.filepath[2] < n)
    BY <1>4, <1>7, ZenonT(30) DEF AckedInv, FilesOk, IsMeta, Drawn
  <2>2. f.filepath[1] # lev \/ f.filepath[2] # n + j - 1
    BY <1>5, <1>6, <1>7, <2>1
  <2> QED
    BY <1>6, <1>7, <2>2, Zenon
<1>8. PICK O : O = {OutputPath(j) : j \in 1 .. m}
  BY Zenon
<1>9. /\ DOMAIN disk' = DOMAIN disk \cup O
      /\ \A p \in DOMAIN disk : (p \notin O) => disk'[p] = disk[p]
  BY <1>3, <1>8, ZenonT(30) DEF WithOutputs
<1>10. ASSUME NEW j \in 1 .. m
       PROVE  disk'[OutputPath(j)] = [k \in PartKeys(part, j) |-> Merged[k]]
  <2>1. PICK p : p = OutputPath(j)
    BY Zenon
  <2>2. p \in O /\ p[2] - next_file_number + 1 = j
    <3>1. p \in O
      BY <1>8, <1>10, <2>1, Zenon
    <3>2. p[2] = n + j - 1 /\ n + j - 1 - n + 1 = j
      BY <1>6, <1>10, <2>1, Zenon
    <3>3. p[2] - n + 1 = j
      BY <1>5, <1>10, <3>2
    <3> QED
      BY <1>4, <3>1, <3>3, ZenonT(30)
  <2>3. disk'[p] = [k \in PartKeys(part, p[2] - next_file_number + 1) |-> Merged[k]]
    <3>1. disk' = [q \in DOMAIN disk \cup O |->
                     IF q \in O
                     THEN [k \in PartKeys(part, q[2] - next_file_number + 1) |-> Merged[k]]
                     ELSE disk[q]]
      BY <1>3, <1>8, Zenon DEF WithOutputs
    <3> QED
      BY <2>2, <3>1, Zenon
  <2> QED
    BY <2>1, <2>2, <2>3, Zenon
<1>11. \A p \in DOMAIN disk' : Puts(disk'[p])
  <2> SUFFICES ASSUME NEW p \in DOMAIN disk' PROVE Puts(disk'[p])
    BY Zenon
  <2>1. CASE p \in O
    <3>1. PICK j \in 1 .. m : p = OutputPath(j)
      BY <1>8, <2>1, ZenonT(30)
    <3>2. Puts([k \in PartKeys(part, j) |-> Merged[k]])
      BY <1>1, <1>3, <1>5, <3>1, OutputTables, ZenonT(30) DEF AckedInv
    <3> QED
      BY <1>10, <3>1, <3>2, Zenon
  <2>2. CASE p \notin O
    BY <1>9, <2>2, ZenonT(30) DEF AckedInv, FilesOk
  <2> QED
    BY <2>1, <2>2, ZenonT(30)
<1>12. ASSUME NEW j \in 1 .. m, NEW f, f = OutputMeta(part, j, size[j])
       PROVE  /\ IsMeta(f) /\ Drawn(f, next_sst_sequence, n + m + 1) /\ f.filepath = OutputPath(j)
              /\ f.smallest_key = Min(PartKeys(part, j)) /\ f.largest_key = Max(PartKeys(part, j))
  <2>1. /\ f.filepath = OutputPath(j) /\ f.level = target_level /\ f.sequence_number = n + j
        /\ f.smallest_key = Min(PartKeys(part, j)) /\ f.largest_key = Max(PartKeys(part, j))
        /\ DOMAIN f = {"filepath", "level", "smallest_key", "largest_key", "file_size_bytes",
                       "sequence_number", "copy"}
    BY <1>4, <1>12, ZenonT(30) DEF OutputMeta
  <2>2. f.filepath \in Nat \X Nat /\ Drawn(f, next_sst_sequence, n + m + 1)
    <3>1. /\ f.filepath = <<lev, n + j - 1>> /\ f.filepath[1] = lev
          /\ f.filepath[2] = n + j - 1 /\ n + j - 1 < n + m + 1 /\ n + j - 1 \in Nat
      BY <1>6, <1>12, <2>1, Zenon
    <3>2. f.filepath \in Nat \X Nat
      BY <1>5, <3>1, Zenon
    <3> QED
      BY <1>5, <3>1, <3>2, Zenon DEF Drawn
  <2>3. f.sequence_number \in Nat /\ f.level \in Nat
    BY <1>4, <1>5, <1>12, <2>1, SMTT(30)
  <2> QED
    BY <2>1, <2>2, <2>3, ZenonT(30) DEF IsMeta
<1>13. ASSUME NEW f \in files \cup all_inputs \cup new_files, f.filepath \in DOMAIN disk
       PROVE  f.filepath \in DOMAIN disk' /\ disk'[f.filepath] = disk[f.filepath]
  BY <1>7, <1>8, <1>9, <1>13, Zenon
<1>14. Replaced(disk', all_inputs, files \cup new_files')
  <2> SUFFICES ASSUME NEW f \in all_inputs, NEW k \in DOMAIN disk'[f.filepath] \ {EmptyKey}
               PROVE  \E g \in files \cup new_files' :
                        InFile(disk', g, k) /\ g.filepath \notin Paths(all_inputs)
    BY Zenon DEF Replaced
  <2>1. k \in DOMAIN disk[f.filepath]
    BY <1>1, <1>13, Zenon DEF InputsReadable, CanRead
  <2>2. k \in MergedKeys
    BY <1>1, <2>1, MergedPuts, ZenonT(30) DEF AckedInv
  <2>3. PICK j : j \in 1 .. m /\ part[k] = j
    BY <1>3, <2>2, ZenonT(30) DEF Splits, Surjection
  <2>4. k \in PartKeys(part, j)
    BY <2>2, <2>3, Zenon DEF PartKeys
  <2>5. PICK g : g = OutputMeta(part, j, size[j])
    BY Zenon
  <2>6. g \in new_files'
    BY <1>3, <2>3, <2>5, ZenonT(30)
  <2>7. g.smallest_key <= k /\ k <= g.largest_key
    <3>1. Min(PartKeys(part, j)) <= k /\ k <= Max(PartKeys(part, j))
      BY <1>1, <1>3, <1>5, <2>3, <2>4, OutputTables, ZenonT(30) DEF AckedInv
    <3>2. g.smallest_key = Min(PartKeys(part, j)) /\ g.largest_key = Max(PartKeys(part, j))
      BY <1>12, <2>3, <2>5, ZenonT(30)
    <3> QED
      BY <3>1, <3>2, Zenon
  <2>8. g.filepath = OutputPath(j) /\ OutputPath(j) \in DOMAIN disk'
    BY <1>8, <1>9, <1>12, <2>3, <2>5, ZenonT(30)
  <2>9. k \in DOMAIN disk'[g.filepath]
    BY <1>10, <2>3, <2>4, <2>8, Zenon
  <2>10. InFile(disk', g, k)
    BY <2>7, <2>8, <2>9, Zenon DEF InFile, InRange
  <2>11. g.filepath \notin Paths(all_inputs)
    BY <1>7, <2>3, <2>8, Zenon DEF Paths
  <2> QED
    BY <2>6, <2>10, <2>11, Zenon
<1>15. FilesOk'
  <2>1. \A f \in files \cup all_inputs \cup new_files' :
          IsMeta(f) /\ Drawn(f, next_sst_sequence, n + m + 1)
    <3>1. ASSUME NEW f \in files \cup all_inputs
          PROVE  IsMeta(f) /\ Drawn(f, next_sst_sequence, n + m + 1)
      <4>1. IsMeta(f) /\ Drawn(f, next_sst_sequence, n)
        BY <1>4, <3>1, Zenon DEF AckedInv, FilesOk
      <4>2. f.filepath[2] \in Nat
        BY <4>1 DEF IsMeta
      <4> QED
        BY <1>5, <4>1, <4>2 DEF Drawn
    <3>2. ASSUME NEW f \in new_files' PROVE IsMeta(f) /\ Drawn(f, next_sst_sequence, n + m + 1)
      <4>1. PICK j \in 1 .. m : f = OutputMeta(part, j, size[j])
        BY <1>3, <3>2, Zenon
      <4> QED
        BY <1>12, <4>1, Zenon
    <3> QED
      BY <3>1, <3>2, Zenon
  <2>2. next_file_number' = n + m + 1 /\ n + m + 1 \in Nat /\ next_sst_sequence' = next_sst_sequence
    BY <1>3, <1>4, <1>5, SMTT(30)
  <2>3. /\ next_sst_sequence \in Nat /\ IsFiniteSet(files) /\ IsFiniteSet(all_inputs)
        /\ target_level \in Nat \ {0}
    BY <1>1 DEF AckedInv, FilesOk
  <2>4. step' \in {"remove", "add"} /\ (step' # "add" => new_files' = {})
    BY <1>1, Zenon
  <2> QED
    BY <1>1, <1>11, <1>14, <2>1, <2>2, <2>3, <2>4, ZenonT(30) DEF FilesOk
<1>16. \A k : (k # EmptyKey /\ \E f \in files : InFile(disk, f, k))
                => \E f \in files' : InFile(disk', f, k)
  <2> SUFFICES ASSUME NEW k, NEW f \in files, InFile(disk, f, k) PROVE InFile(disk', f, k)
    BY <1>1, Zenon
  <2>1. f.filepath \in DOMAIN disk
    BY Zenon DEF InFile
  <2>2. f.filepath \in DOMAIN disk' /\ disk'[f.filepath] = disk[f.filepath]
    BY <1>13, <2>1, Zenon
  <2> QED
    BY <2>2, InFileStays, Zenon
<1>17. \A p \in DOMAIN disk \ Paths(files \cup all_inputs \cup new_files) :
         p[1] = 0 => p \in DOMAIN disk' /\ disk'[p] = disk[p]
  <2>1. \A p \in O : p[1] # 0
    BY <1>5, <1>6, <1>8, Zenon
  <2> QED
    BY <1>9, <2>1, Zenon
<1>18. \A p \in Paths(files \cup all_inputs \cup new_files)' :
         p \in Paths(files \cup all_inputs \cup new_files) \/ p[1] # 0
  <2> SUFFICES ASSUME NEW f \in files \cup all_inputs \cup new_files'
               PROVE  \/ f.filepath \in Paths(files \cup all_inputs \cup new_files)
                      \/ f.filepath[1] # 0
    BY <1>1, Zenon DEF Paths
  <2>1. CASE f \in files \cup all_inputs
    BY <2>1, ZenonT(30) DEF Paths
  <2>2. CASE f \in new_files'
    <3>1. PICK j \in 1 .. m : f = OutputMeta(part, j, size[j])
      BY <1>3, <2>2, ZenonT(30)
    <3> QED
      BY <1>5, <1>6, <1>12, <3>1, ZenonT(30)
  <2> QED
    BY <2>1, <2>2, Zenon
<1> QED
  BY <1>15, <1>16, <1>17, <1>18, JobKeeps, Zenon

\* A merge that could not read an input.
LEMMA GiveUpKeeps ==
  ASSUME AckedInv, engine = "open", UNCHANGED <<engine, clientVars, next_sst_sequence>>,
         MergeReadFails
  PROVE  AckedInv'
<1>1. /\ step = "merge" /\ step' = "idle" /\ all_inputs' = {}
      /\ UNCHANGED <<files, new_files, disk, next_file_number>>
  BY Zenon DEF MergeReadFails, JobGivenUp
<1>2. IsFiniteSet(all_inputs')
  BY <1>1, FS_EmptySet, Zenon
<1>3. \A f \in (files \cup all_inputs \cup new_files)' :
        IsMeta(f) /\ Drawn(f, next_sst_sequence, next_file_number)
  BY <1>1, Zenon DEF AckedInv, FilesOk
<1>4. FilesOk'
  BY <1>1, <1>2, <1>3, Zenon DEF AckedInv, FilesOk
<1>5. Paths(files \cup all_inputs \cup new_files)'
        \subseteq Paths(files \cup all_inputs \cup new_files)
  BY <1>1, Zenon DEF Paths
<1>6. /\ \A k : (k # EmptyKey /\ \E f \in files : InFile(disk, f, k))
                  => \E f \in files' : InFile(disk', f, k)
      /\ \A p \in DOMAIN disk \ Paths(files \cup all_inputs \cup new_files) :
           p[1] = 0 => p \in DOMAIN disk' /\ disk'[p] = disk[p]
  BY <1>1
<1> QED
  BY <1>4, <1>5, <1>6, JobKeeps, Zenon

\* An output joins the catalogue.
LEMMA AddOutputKeeps ==
  ASSUME AckedInv, engine = "open", UNCHANGED <<engine, clientVars, next_sst_sequence>>, AddOutput
  PROVE  AckedInv'
<1>1. /\ step = "add" /\ step' = IF new_files' = {} THEN "remove" ELSE "add"
      /\ UNCHANGED <<disk, next_file_number, target_level, all_inputs>>
  BY Zenon DEF AddOutput
<1>2. PICK f \in new_files : AddFile(f) /\ new_files' = new_files \ {f}
  BY Zenon DEF AddOutput
<1>3. PICK n, g : /\ n = Cardinality({h \in files : h.filepath = f.filepath})
                  /\ g = [f EXCEPT !.copy = n]
  BY Zenon
<1>4. files' = files \cup {g}
  BY <1>2, <1>3, Zenon DEF AddFile
<1>5. IsMeta(f) /\ Drawn(f, next_sst_sequence, next_file_number)
  BY <1>2 DEF AckedInv, FilesOk
<1>6. /\ IsMeta(g) /\ g.filepath = f.filepath
      /\ g.smallest_key = f.smallest_key /\ g.largest_key = f.largest_key
  BY <1>3, <1>5, MetaCopy, ZenonT(30)
<1>7. Replaced(disk, all_inputs, files' \cup new_files')
  <2> SUFFICES ASSUME NEW i \in all_inputs, i.filepath \in DOMAIN disk,
                      NEW k \in DOMAIN disk[i.filepath] \ {EmptyKey}
               PROVE  \E h \in files' \cup new_files' :
                        InFile(disk, h, k) /\ h.filepath \notin Paths(all_inputs)
    BY Zenon DEF Replaced
  <2>1. PICK h \in files \cup new_files : InFile(disk, h, k) /\ h.filepath \notin Paths(all_inputs)
    BY <1>1, Zenon DEF AckedInv, FilesOk, Replaced
  <2>2. CASE h = f
    <3>1. InFile(disk, g, k) /\ g.filepath \notin Paths(all_inputs)
      BY <1>6, <2>1, <2>2, Zenon DEF InFile, InRange
    <3> QED
      BY <1>4, <3>1, Zenon
  <2>3. CASE h # f
    BY <1>2, <1>4, <2>1, <2>3, Zenon
  <2> QED
    BY <2>2, <2>3, Zenon
<1>8. FilesOk'
  <2>1. \A h \in files' \cup all_inputs \cup new_files' :
          IsMeta(h) /\ Drawn(h, next_sst_sequence, next_file_number)
    <3>1. IsMeta(g) /\ Drawn(g, next_sst_sequence, next_file_number)
      BY <1>5, <1>6, Zenon DEF Drawn
    <3> QED
      BY <1>2, <1>4, <3>1, Zenon DEF AckedInv, FilesOk
  <2>2. IsFiniteSet(files')
    BY <1>4, FS_AddElement, Zenon DEF AckedInv, FilesOk
  <2>3. step' \in {"remove", "add"} /\ (step' # "add" => new_files' = {})
    BY <1>1
  <2>4. next_sst_sequence' = next_sst_sequence
    BY Zenon
  <2> QED
    BY <1>1, <1>7, <2>1, <2>2, <2>3, <2>4, ZenonT(30) DEF AckedInv, FilesOk
<1>9. Paths(files \cup all_inputs \cup new_files)'
        \subseteq Paths(files \cup all_inputs \cup new_files)
  BY <1>1, <1>2, <1>4, <1>6, Zenon DEF Paths
<1>10. /\ \A k : (k # EmptyKey /\ \E h \in files : InFile(disk, h, k))
                   => \E h \in files' : InFile(disk', h, k)
       /\ \A p \in DOMAIN disk \ Paths(files \cup all_inputs \cup new_files) :
            p[1] = 0 => p \in DOMAIN disk' /\ disk'[p] = disk[p]
  BY <1>1, <1>4, Zenon
<1> QED
  BY <1>8, <1>9, <1>10, JobKeeps, Zenon

\* RunCompaction drops its inputs in a definite order.
LEMMA FirstInputUnique ==
  ASSUME FilesOk, step # "idle", NEW f, NEW g, FirstInput(f), FirstInput(g)
  PROVE  f = g
<1>1. /\ f.level \in Nat /\ g.level \in Nat
      /\ f.sequence_number \in Nat /\ g.sequence_number \in Nat
      /\ target_level \in Nat
  BY Zenon DEF FilesOk, IsMeta, FirstInput
<1> SUFFICES ASSUME f # g PROVE FALSE
  OBVIOUS
<1>2. ListedBefore(f, g) /\ ListedBefore(g, f)
  BY Zenon DEF FirstInput
<1>3. f.level = g.level
  <2>1. f.level <= g.level
    BY <1>1, <1>2 DEF ListedBefore
  <2>2. g.level <= f.level
    BY <1>1, <1>2 DEF ListedBefore
  <2> QED
    BY <1>1, <2>1, <2>2
<1>4. CASE f.level < target_level
  BY <1>1, <1>2, <1>3, <1>4, SMTT(30) DEF ListedBefore
<1>5. CASE ~ (f.level < target_level)
  BY <1>1, <1>2, <1>3, <1>5 DEF ListedBefore
<1> QED
  BY <1>4, <1>5, Zenon

\* An input leaves the catalogue; the outputs have its keys.
LEMMA RemoveKeeps ==
  ASSUME AckedInv, engine = "open", UNCHANGED <<engine, clientVars, next_sst_sequence>>, RemoveInput
  PROVE  AckedInv'
<1>1. /\ step = "remove" /\ step' = "unlink"
      /\ UNCHANGED <<disk, next_file_number, target_level, all_inputs, new_files>>
  BY Zenon DEF RemoveInput
<1>2. PICK f \in all_inputs : FirstInput(f) /\ files' = {h \in files : h.filepath # f.filepath}
  BY Zenon DEF RemoveInput, RemoveFile
<1>3. new_files = {}
  BY <1>1, Zenon DEF AckedInv, FilesOk
<1>4. ASSUME NEW i \in all_inputs, i.filepath \in DOMAIN disk,
             NEW k \in DOMAIN disk[i.filepath] \ {EmptyKey}
      PROVE  \E h \in files' : InFile(disk, h, k) /\ h.filepath \notin Paths(all_inputs)
  <2>1. PICK h \in files \cup new_files : InFile(disk, h, k) /\ h.filepath \notin Paths(all_inputs)
    BY <1>1, <1>4, Zenon DEF AckedInv, FilesOk, Replaced
  <2>2. h.filepath # f.filepath
    BY <1>2, <2>1, Zenon DEF Paths
  <2> QED
    BY <1>2, <1>3, <2>1, <2>2, ZenonT(30)
<1>5. Replaced(disk, all_inputs, files' \cup new_files)
  BY <1>4, Zenon DEF Replaced
<1>6. FilesOk'
  <2>1. ASSUME NEW h \in files', NEW g \in all_inputs, FirstInput(g)' PROVE h.filepath # g.filepath
    <3>1. FirstInput(g)
      BY <1>1, <2>1, Zenon DEF FirstInput, ListedBefore
    <3>2. g = f
      BY <1>1, <1>2, <3>1, FirstInputUnique, ZenonT(30) DEF AckedInv
    <3> QED
      BY <1>2, <2>1, <3>2, Zenon
  <2>2. IsFiniteSet(files')
    BY <1>2, FS_Subset, Zenon DEF AckedInv, FilesOk
  <2>3. \A h \in files' \cup all_inputs \cup new_files :
          IsMeta(h) /\ Drawn(h, next_sst_sequence, next_file_number)
    BY <1>2, Zenon DEF AckedInv, FilesOk
  <2>4. next_sst_sequence' = next_sst_sequence
    OBVIOUS
  <2> QED
    BY <1>1, <1>3, <1>5, <2>1, <2>2, <2>3, <2>4, Zenon DEF AckedInv, FilesOk
<1>7. Paths(files \cup all_inputs \cup new_files)'
        \subseteq Paths(files \cup all_inputs \cup new_files)
  BY <1>1, <1>2, ZenonT(30) DEF Paths
<1>8. \A p \in DOMAIN disk \ Paths(files \cup all_inputs \cup new_files) :
        p[1] = 0 => p \in DOMAIN disk' /\ disk'[p] = disk[p]
  BY <1>1, Zenon
<1>9. \A k : (k # EmptyKey /\ \E h \in files : InFile(disk, h, k))
               => \E h \in files' : InFile(disk', h, k)
  <2> SUFFICES ASSUME NEW k, k # EmptyKey, NEW h \in files, InFile(disk, h, k)
               PROVE  \E g \in files' : InFile(disk, g, k)
    BY <1>1, Zenon
  <2>1. CASE h.filepath # f.filepath
    BY <1>2, <2>1, Zenon
  <2>2. CASE h.filepath = f.filepath
    <3>1. f.filepath \in DOMAIN disk /\ k \in DOMAIN disk[f.filepath] \ {EmptyKey}
      BY <2>2, Zenon DEF InFile
    <3> QED
      BY <1>2, <1>4, <3>1, Zenon
  <2> QED
    BY <2>1, <2>2, Zenon
<1> QED
  BY <1>6, <1>7, <1>8, <1>9, JobKeeps, Zenon

\* The input that left the catalogue is deleted; no other file has its path.
LEMMA UnlinkKeeps ==
  ASSUME AckedInv, engine = "open", UNCHANGED <<engine, clientVars, next_sst_sequence>>, UnlinkInput
  PROVE  AckedInv'
<1>1. /\ step = "unlink" /\ step' = IF all_inputs' = {} THEN "idle" ELSE "remove"
      /\ UNCHANGED <<files, next_file_number, target_level, new_files>>
  BY Zenon DEF UnlinkInput
<1>2. PICK f \in all_inputs : /\ FirstInput(f) /\ disk' = Unreadable(disk, f.filepath)
                              /\ all_inputs' = all_inputs \ {f}
  BY Zenon DEF UnlinkInput
<1>3. new_files = {}
  BY <1>1, Zenon DEF AckedInv, FilesOk
<1>4. /\ DOMAIN disk' = DOMAIN disk \ {f.filepath}
      /\ \A p \in DOMAIN disk : (p # f.filepath) => disk'[p] = disk[p]
  BY <1>2, Zenon DEF Unreadable
<1>5. \A h \in files : h.filepath # f.filepath
  BY <1>1, <1>2, Zenon DEF AckedInv, FilesOk
<1>6. ASSUME NEW h, NEW k, InFile(disk, h, k), h.filepath # f.filepath PROVE InFile(disk', h, k)
  <2>1. h.filepath \in DOMAIN disk
    BY <1>6, Zenon DEF InFile
  <2>2. h.filepath \in DOMAIN disk' /\ disk'[h.filepath] = disk[h.filepath]
    BY <1>4, <1>6, <2>1, Zenon
  <2> QED
    BY <1>6, <2>2, InFileStays, Zenon
<1>7. Replaced(disk', all_inputs', files \cup new_files)
  <2> SUFFICES ASSUME NEW i \in all_inputs', i.filepath \in DOMAIN disk',
                      NEW k \in DOMAIN disk'[i.filepath] \ {EmptyKey}
               PROVE  \E h \in files \cup new_files :
                        InFile(disk', h, k) /\ h.filepath \notin Paths(all_inputs')
    BY Zenon DEF Replaced
  <2>1. /\ i \in all_inputs /\ i.filepath \in DOMAIN disk
        /\ k \in DOMAIN disk[i.filepath] \ {EmptyKey}
    BY <1>2, <1>4, Zenon
  <2>2. PICK h \in files \cup new_files : InFile(disk, h, k) /\ h.filepath \notin Paths(all_inputs)
    BY <1>1, <2>1, Zenon DEF AckedInv, FilesOk, Replaced
  <2>3. InFile(disk', h, k)
    BY <1>3, <1>5, <1>6, <2>2, Zenon
  <2>4. h.filepath \notin Paths(all_inputs')
    <3>1. \A g \in all_inputs' : g \in all_inputs
      BY <1>2, Zenon
    <3>2. Paths(all_inputs') \subseteq Paths(all_inputs)
      BY <3>1, Zenon DEF Paths
    <3> QED
      BY <2>2, <3>2, Zenon
  <2> QED
    BY <2>2, <2>3, <2>4, Zenon
<1>8. FilesOk'
  <2>1. IsFiniteSet(all_inputs')
    BY <1>2, FS_Subset, Zenon DEF AckedInv, FilesOk
  <2>2. \A h \in files \cup all_inputs' \cup new_files :
          IsMeta(h) /\ Drawn(h, next_sst_sequence, next_file_number)
    BY <1>2, ZenonT(30) DEF AckedInv, FilesOk
  <2>3. \A p \in DOMAIN disk' : Puts(disk'[p])
    BY <1>4, ZenonT(30) DEF AckedInv, FilesOk
  <2>4. step' \in {"idle", "remove"}
    BY <1>1, Zenon
  <2>5. next_sst_sequence' = next_sst_sequence
    OBVIOUS
  <2> QED
    BY <1>1, <1>3, <1>7, <2>1, <2>2, <2>3, <2>4, <2>5, ZenonT(30) DEF AckedInv, FilesOk
<1>9. Paths(files \cup all_inputs \cup new_files)'
        \subseteq Paths(files \cup all_inputs \cup new_files)
  BY <1>1, <1>2, Zenon DEF Paths
<1>10. \A p \in DOMAIN disk \ Paths(files \cup all_inputs \cup new_files) :
         p[1] = 0 => p \in DOMAIN disk' /\ disk'[p] = disk[p]
  BY <1>2, <1>4, Zenon DEF Paths
<1>11. \A k : (k # EmptyKey /\ \E h \in files : InFile(disk, h, k))
                => \E h \in files' : InFile(disk', h, k)
  BY <1>1, <1>5, <1>6, ZenonT(30)
<1> QED
  BY <1>8, <1>9, <1>10, <1>11, JobKeeps, Zenon

\* What does not touch the tables, the catalogue and the clients.
LEMMA NothingMoves ==
  ASSUME AckedInv, engine' = "open", UNCHANGED <<clientVars, next_sst_sequence>>,
         UNCHANGED <<files, disk, next_file_number, jobVars>>
  PROVE  AckedInv'
<1>1. UNCHANGED <<active_memtable, call, writes, acked_version, next_sst_sequence, files, disk,
                  all_inputs, new_files>>
  BY Zenon DEF clientVars, jobVars
<1>2. EngineOk'
  BY <1>1 DEF AckedInv, EngineOk
<1>3. FilesOk'
  BY FilesStay, ZenonT(30) DEF AckedInv
<1>4. PendingOk'
  BY <1>1, Zenon DEF AckedInv, PendingOk, At, Paths
<1>5. AckOk'
  BY <1>1, ZenonT(30) DEF AckedInv, AckOk, Present, At
<1> QED
  BY <1>2, <1>3, <1>4, <1>5, Zenon DEF AckedInv

\* The first Open finds nothing.
LEMMA OpenKeeps ==
  ASSUME AckedInv, Open
  PROVE  AckedInv'
<1>1. Untouched /\ Puts(active_memtable)
  BY Zenon DEF Open, AckedInv, EngineOk
<1>2. /\ engine' = "open" /\ files' = checkpoint.sstables
      /\ active_memtable' = Replayed(checkpoint.last_flushed_lsn)
      /\ UNCHANGED <<call, writes, acked_version, next_sst_sequence>>
      /\ UNCHANGED <<disk, next_file_number, jobVars>>
  BY Zenon DEF Open
<1>3. files' = files
  BY <1>1, <1>2, Zenon DEF Untouched, NoCheckpoint
<1>4. Readable(wal_file) = {}
  BY <1>1 DEF Untouched, Readable
<1>5. Replayed(checkpoint.last_flushed_lsn) = EmptyTable
  BY <1>4, ZenonT(30) DEF Replayed, EmptyTable
<1>6. active_memtable' = active_memtable
  BY <1>1, <1>2, <1>5, ZenonT(30) DEF Untouched
<1> QED
  BY <1>2, <1>3, <1>6, NothingMoves, Zenon DEF clientVars

\* Every step of the compaction thread preserves the invariant.
LEMMA LoopKeeps ==
  ASSUME AckedInv, LoopStep, io_errors = 0, io_errors' = 0
  PROVE  AckedInv'
<1>1. engine \in {"closed", "open"} /\ (engine = "closed" => loop = "exited")
  BY Zenon DEF AckedInv, EngineOk, Untouched
<1>2. CASE LoopStart
  BY <1>2, SelectKeeps, ZenonT(30)
<1>3. CASE LoopCompact
  <2>1. engine = "open" /\ UNCHANGED <<engine, clientVars, next_sst_sequence>>
    <3>1. loop = "run" /\ UNCHANGED <<engine, clientVars, next_sst_sequence>>
      BY <1>3, Zenon DEF LoopCompact, sessionVars
    <3> QED
      BY <1>1, <3>1, Zenon
  <2>2. MergeFiles \/ MergeReadFails \/ AddOutput \/ RemoveInput \/ UnlinkInput
    <3>1. ~ MergeWriteFails
      BY DEF MergeWriteFails
    <3> QED
      BY <1>3, <3>1, Zenon DEF LoopCompact
  <2> QED
    BY <2>1, <2>2, MergeKeeps, GiveUpKeeps, AddOutputKeeps, RemoveKeeps, UnlinkKeeps, ZenonT(30)
<1>4. CASE LoopCaptureLsn \/ LoopCollectFiles \/ LoopSaveCheckpoint
  <2>1. loop \in {"run", "files", "save"}
    BY <1>4 DEF LoopCaptureLsn, LoopCollectFiles, LoopSaveCheckpoint
  <2>2. UNCHANGED <<engine, clientVars, next_sst_sequence, files, disk, next_file_number, jobVars>>
    BY <1>4, Zenon DEF LoopCaptureLsn, LoopCollectFiles, LoopSaveCheckpoint, compactionVars,
        sessionVars
  <2>3. engine' = "open"
    BY <1>1, <2>1, <2>2, ZenonT(30)
  <2> QED
    BY <2>2, <2>3, NothingMoves, Zenon
<1>5. ~ LoopExit
  BY <1>1 DEF LoopExit
<1> QED
  BY <1>2, <1>3, <1>4, <1>5, Zenon DEF LoopStep

\* Every step of a client does.
LEMMA ClientKeeps ==
  ASSUME OnlyPuts, AckedInv, NEW t \in Thread, ClientStep(t), io_errors = 0, io_errors' = 0
  PROVE  AckedInv'
<1>1. ~ (JoinThenFlush(t) \/ Destroyed(t))
  BY ZenonT(30) DEF JoinThenFlush, Destroyed, At, AckedInv, EngineOk, CallOk
<1>2. "close" \notin Calls /\ Calls \cap {"put", "delete"} \subseteq {"put"}
  BY Zenon DEF OnlyPuts
<1>3. CASE \E kind \in Calls \cap {"put", "delete"}, k \in Key : WriteEntry(t, kind, k)
  BY <1>2, <1>3, WriteQuiet, Zenon
<1>4. CASE ApplyToMemTable(t)
  BY <1>4, ApplyKeeps, Zenon
<1>5. CASE CallFlush(t) \/ CaptureFlushLsn(t) \/ CollectFiles(t) \/ SaveFlushCheckpoint(t)
  BY <1>5, FlushQuiet, Zenon
<1>6. CASE SwapMemTable(t)
  BY <1>6, FlushQuiet, SwapKeeps, Zenon
<1>7. CASE WriteLevel0(t)
  BY <1>7, WriteFileKeeps, Zenon
<1>8. CASE RegisterLevel0(t)
  BY <1>8, RegisterKeeps
<1>9. CASE (\E k \in Key : GetFromMemTable(t, k)) \/ GetSnapshot(t) \/ GetFromSSTable(t)
             \/ GetReturns(t)
  BY <1>9, GetQuiet, Zenon
<1> QED
  BY <1>1, <1>2, <1>3, <1>4, <1>5, <1>6, <1>7, <1>8, <1>9, Zenon DEF ClientStep

\* Failures are counted.
LEMMA FailuresStay ==
  ASSUME EngineNext
  PROVE  io_errors' \in {io_errors, io_errors + 1}
<1>1. CASE Open \/ Crash \/ CrashInAppend \/ CrashInFlush \/ CrashInMerge
  BY <1>1, ZenonT(30) DEF Open, Crash, CrashInAppend, CrashInFlush, CrashInMerge, ObjectGone
<1>2. ASSUME NEW t \in Thread, ClientStep(t) PROVE io_errors' \in {io_errors, io_errors + 1}
  <2>1. CASE WriteLevel0(t)
    BY <2>1, ZenonT(30) DEF WriteLevel0
  <2>2. CASE Destroyed(t) \/ RegisterLevel0(t)
    BY <2>2, Zenon DEF Destroyed, ObjectGone, RegisterLevel0
  <2>3. CASE ~ (WriteLevel0(t) \/ Destroyed(t) \/ RegisterLevel0(t))
    <3>1. UNCHANGED compactionVars
      BY <1>2, <2>3, Zenon DEF ClientStep, WriteEntry, ApplyToMemTable, CallFlush, SwapMemTable,
          CaptureFlushLsn, CollectFiles, SaveFlushCheckpoint, GetFromMemTable, GetSnapshot,
          GetFromSSTable, GetReturns, Destroy, JoinThenFlush
    <3> QED
      BY <3>1, Zenon DEF compactionVars
  <2> QED
    BY <2>1, <2>2, <2>3, ZenonT(30)
<1>3. CASE LoopStep
  <2>1. CASE LoopStart \/ LoopCompact
    BY <2>1, ZenonT(30)
       DEF LoopStart, SelectCompactionFiles, LoopCompact, MergeFiles, MergeReadFails,
        MergeWriteFails, AddOutput, RemoveInput, UnlinkInput
  <2>2. CASE LoopCaptureLsn \/ LoopCollectFiles \/ LoopSaveCheckpoint \/ LoopExit
    <3>1. UNCHANGED compactionVars
      BY <2>2, Zenon DEF LoopCaptureLsn, LoopCollectFiles, LoopSaveCheckpoint, LoopExit
    <3> QED
      BY <3>1 DEF compactionVars
  <2> QED
    BY <1>3, <2>1, <2>2, Zenon DEF LoopStep
<1> QED
  BY <1>1, <1>2, <1>3, Zenon DEF EngineNext

\* So does every step of the engine, until an access to an SSTable fails.
LEMMA AckedInvNext ==
  ASSUME OnlyPuts, AckedInvUnlessFailed, [EngineNext]_engineVars
  PROVE  AckedInvUnlessFailed'
<1>1. CASE EngineNext
  <2>1. io_errors \in Nat /\ io_errors' \in {io_errors, io_errors + 1}
    BY <1>1, FailuresStay, Zenon DEF AckedInvUnlessFailed
  <2>2. io_errors' \in Nat /\ (io_errors' = 0 => io_errors = 0)
    BY <2>1
  <2>3. ASSUME io_errors' = 0 PROVE AckedInv'
    <3>1. AckedInv /\ io_errors = 0
      BY <2>2, <2>3, Zenon DEF AckedInvUnlessFailed
    <3>2. "crash" \notin Calls /\ "torn" \notin Calls
      BY DEF OnlyPuts
    <3>3. CASE Open
      BY <3>1, <3>3, OpenKeeps, Zenon
    <3>4. CASE \E t \in Thread : ClientStep(t)
      BY <2>3, <3>1, <3>4, ClientKeeps, Zenon
    <3>5. CASE LoopStep
      BY <2>3, <3>1, <3>5, LoopKeeps, Zenon
    <3> QED
      BY <1>1, <3>2, <3>3, <3>4, <3>5, Zenon DEF EngineNext
  <2> QED
    BY <2>2, <2>3, Zenon DEF AckedInvUnlessFailed
<1>2. CASE UNCHANGED engineVars
  <2>1. UNCHANGED <<compactionVars, sessionVars, clientVars, loopVars, walVars, next_sst_sequence,
                    checkpoint>>
    BY <1>2, Zenon DEF engineVars
  <2>2. /\ UNCHANGED <<active_memtable, call, writes, acked_version, engine, loop, wal_file>>
        /\ UNCHANGED <<files, disk, next_file_number, step, target_level, all_inputs, new_files>>
        /\ UNCHANGED <<io_errors, next_sst_sequence, checkpoint>>
    BY <2>1, Zenon DEF compactionVars, sessionVars, clientVars, loopVars, walVars, jobVars
  <2>3. AckedInv => AckedInv'
    <3> SUFFICES ASSUME AckedInv PROVE AckedInv'
      BY Zenon
    <3>1. EngineOk'
      BY <2>2, ZenonT(30) DEF AckedInv, EngineOk, Untouched, At
    <3>2. FilesOk'
      BY <2>2, FilesStay, Zenon DEF AckedInv, jobVars
    <3>3. PendingOk' /\ AckOk'
      BY <2>2, ZenonT(30) DEF AckedInv, PendingOk, At, Paths, AckOk, Present
    <3> QED
      BY <3>1, <3>2, <3>3, Zenon DEF AckedInv
  <2> QED
    BY <2>2, <2>3, Zenon DEF AckedInvUnlessFailed
<1> QED
  BY <1>1, <1>2, Zenon

\* While the engine that was opened on an empty directory runs, no acknowledged put is
\* dropped.  With any number of threads that put, get and flush at will and the compaction
\* thread between any two of their steps, its key is in the memtable, in a memtable that
\* some FlushMemTable is writing, in a file it is registering, or in a file of the
\* catalogue whose range covers it, unless a read or a write of an SSTable has failed.
THEOREM EngineAckedIsSomewhere ==
  ASSUME OnlyPuts
  PROVE  EngineSpec => []AckedIsSomewhere
<1>1. EngineInit => AckedInvUnlessFailed
  <2> SUFFICES ASSUME EngineInit PROVE AckedInvUnlessFailed
    BY Zenon
  <2>1. /\ files = {} /\ disk = <<>> /\ next_file_number = 1 /\ step = "idle" /\ all_inputs = {}
        /\ new_files = {} /\ io_errors = 0 /\ engine = "closed" /\ active_memtable = EmptyTable
        /\ call = [t \in Thread |-> Idle] /\ loop = "exited" /\ next_sst_sequence = 1
        /\ checkpoint = NoCheckpoint /\ writes = 0 /\ acked_version = [k \in Key |-> NoVersion]
        /\ wal_file = <<>>
    BY DEF EngineInit, CompactionInit, WALInit
  <2>2. \A t \in Thread : call[t].pc = "idle"
    BY <2>1, Zenon DEF Idle
  <2>3. Puts(EmptyTable)
    <3>1. IsFiniteSet({}) /\ {} \in SUBSET Key /\ EmptyTable \in [{} -> Version]
      BY FS_EmptySet DEF EmptyTable
    <3>2. EmptyTable \in Table
      BY <3>1, Zenon DEF Table
    <3> QED
      BY <3>2, ZenonT(30) DEF Puts, EmptyTable
  <2>4. EngineOk
    BY <2>1, <2>2, <2>3, ZenonT(30) DEF EngineOk, Untouched, At, CallOk, NoVersion
  <2>5. FilesOk
    BY <2>1, FS_EmptySet DEF FilesOk
  <2>6. PendingOk
    BY <2>2, ZenonT(30) DEF PendingOk, At
  <2>7. AckOk
    BY <2>1, <2>2, ZenonT(30) DEF AckOk, FlushPcs, NoVersion
  <2> QED
    BY <2>1, <2>4, <2>5, <2>6, <2>7, ZenonT(30) DEF AckedInvUnlessFailed, AckedInv
<1>2. AckedInvUnlessFailed /\ [EngineNext]_engineVars => AckedInvUnlessFailed'
  BY AckedInvNext
<1>3. AckedInvUnlessFailed => AckedIsSomewhere
  BY Zenon DEF AckedInvUnlessFailed, AckedInv, AckOk, AckedIsSomewhere, Present, InFile, Has
<1> QED
  BY <1>1, <1>2, <1>3, PTL DEF EngineSpec
=============================================================================
