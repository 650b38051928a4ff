---------------------------- MODULE RecoveryProofs ----------------------------
(***************************************************************************)
(* Recovery is exact: for any number of keys, threads, writes, flushes,    *)
(* sessions and crashes between any two steps, in the middle of an append  *)
(* or in the middle of a flush, as long as calls do not overlap and        *)
(* nothing has disturbed the engine (Undisturbed): no append, SSTable      *)
(* write or read failed, no record stops ReadAll, no compaction was begun  *)
(* and no flush took the path of an older SSTable.  The saving of a        *)
(* checkpoint may fail.  Beyond these limits the code does not have the    *)
(* properties.                                                             *)
(*                                                                         *)
(* The argument is that everything is a function of the log.  The SSTables *)
(* of the catalogue amount to its entries up to some position, and the     *)
(* memtable, or the one being flushed, to those behind it; the SSTables of *)
(* the checkpoint amount to the entries up to its LSN.                     *)
(***************************************************************************)
EXTENDS StorageEngine, TLAPS

\* Calls do not overlap.
Serial == \A t, u \in Thread : At(t, "idle") \/ At(u, "idle") \/ t = u

\* ... and nothing has disturbed them.
Quiet == Serial /\ Undisturbed
----------------------------------------------------------------------------
(* What a table and a set of files amount to, in entries of a log.         *)

\* The i-th entry of a log.
KeyAt(log, i) == log[i].payload.key
VersionAt(log, i) == log[i].payload.version

\* No entry behind position lo and up to hi is about k.
NoEntry(log, k, lo, hi) == \A i \in lo + 1 .. hi : KeyAt(log, i) # k

\* Of these entries the i-th is the last about k.
LastEntry(log, i, k, lo, hi) ==
  /\ i \in lo + 1 .. hi /\ KeyAt(log, i) = k
  /\ \A j \in i + 1 .. hi : KeyAt(log, j) # k

\* The table has the last version of every key of the entries behind lo up to hi.
Holds(log, table, lo, hi) ==
  /\ table \in Table
  /\ \A k \in DOMAIN table :
       \E i \in 1 .. hi : LastEntry(log, i, k, lo, hi) /\ table[k] = VersionAt(log, i)
  /\ \A k \in Key \ DOMAIN table : NoEntry(log, k, lo, hi)

\* The file f of the disk d has k.
HasKey(d, f, k) == k \in DOMAIN d[f.filepath]

\* A level 0 file that can be read and found by its range, numbered as its name says.
Flushed(d, f) ==
  /\ f.level = 0
  /\ f.sequence_number \in Nat
  /\ f.filepath = Level0Path(f.sequence_number)
  /\ f.filepath \in DOMAIN d
  /\ \A k \in DOMAIN d[f.filepath] : InRange(f, k)

\* f is where a lookup of k in the files S ends.
FoundFirst(d, S, f, k) ==
  /\ f \in S /\ HasKey(d, f, k)
  /\ \A g \in S : HasKey(d, g, k) => g.sequence_number <= f.sequence_number

\* Together the files have the last version of every key of the entries up to hi.
FilesHold(log, d, S, hi) ==
  /\ \A f \in S : Flushed(d, f)
  /\ \A f, g \in S : f.sequence_number = g.sequence_number => f = g
  /\ \A k \in Key :
       \/ NoEntry(log, k, 0, hi) /\ \A f \in S : ~ HasKey(d, f, k)
       \/ \E i \in 1 .. hi, f \in S :
            /\ LastEntry(log, i, k, 0, hi)
            /\ FoundFirst(d, S, f, k)
            /\ d[f.filepath][k] = VersionAt(log, i)

\* v is the version of k that the whole log amounts to.
Latest(log, k, v) ==
  \/ NoEntry(log, k, 0, Len(log)) /\ v = NoVersion
  \/ \E i \in 1 .. Len(log) : LastEntry(log, i, k, 0, Len(log)) /\ v = VersionAt(log, i)

\* A log of the engine's writes.
EngineRecord ==
  [lsn : Nat, payload : [key : Key, version : Version], crc : {"match", "mismatch"}]
EngineLog == Seq(EngineRecord)

----------------------------------------------------------------------------
(* Numbers and finite sets.                                                *)

\* What Max and Min are of a set that has a greatest or a least element.
LEMMA MaxMin ==
  ASSUME NEW S, NEW m \in S
  PROVE  /\ (\A y \in S : m >= y) => Max(S) \in S /\ \A y \in S : Max(S) >= y
         /\ (\A y \in S : m <= y) => Min(S) \in S /\ \A y \in S : Min(S) <= y
<1>1. /\ Max(S) = CHOOSE x \in S : \A y \in S : x >= y
      /\ Min(S) = CHOOSE x \in S : \A y \in S : x <= y
  BY Zenon DEF Max, Min
<1> QED
  BY <1>1, Zenon

\* What a sequence lists is finite, and so is a finite set with one element more.
LEMMA FiniteRange ==
  ASSUME NEW S, NEW m \in Nat, NEW f, \A i \in 1 .. m : f[i] \in S,
         \A x \in S : \E i \in 1 .. m : f[i] = x
  PROVE  IsFiniteSet(S)
<1> DEFINE seq == [i \in 1 .. m |-> f[i]]
<1>1. seq \in Seq(S) /\ Len(seq) = m /\ \A i \in 1 .. m : seq[i] = f[i]
  OBVIOUS
<1> HIDE DEF seq
<1> QED
  BY <1>1 DEF IsFiniteSet

\* A finite set with one more element is finite.
LEMMA FiniteAdd ==
  ASSUME NEW S, IsFiniteSet(S), NEW x
  PROVE  IsFiniteSet(S \cup {x})
<1>1. PICK seq \in Seq(S) : \A s \in S : \E n \in 1 .. Len(seq) : seq[n] = s
  BY DEF IsFiniteSet
<1> DEFINE m == Len(seq) + 1
           f == [i \in 1 .. m |-> IF i = m THEN x ELSE seq[i]]
<1>2. /\ m \in Nat /\ m - 1 = Len(seq) /\ m \in 1 .. m
      /\ \A i \in 1 .. m : i # m => i \in 1 .. Len(seq)
  OBVIOUS
<1>3. \A i \in 1 .. Len(seq) : seq[i] \in S /\ i \in 1 .. m /\ i # m
  BY <1>2
<1>4. \A i \in 1 .. m : f[i] \in S \cup {x}
  BY <1>2, <1>3
<1>5. \A y \in S \cup {x} : \E i \in 1 .. m : f[i] = y
  BY <1>1, <1>2, <1>3
<1> HIDE DEF m, f
<1> QED
  BY <1>2, <1>4, <1>5, FiniteRange, Zenon

----------------------------------------------------------------------------
(* Logs and tables.                                                        *)

\* The log's records carry the engine's writes.
LEMMA LogType == Seq(WALRecord) = EngineLog
  BY EngineConstants DEF WALRecord, EngineLog, EngineRecord

\* The parts of an entry.
LEMMA EntryType ==
  ASSUME NEW log \in EngineLog, NEW i \in 1 .. Len(log)
  PROVE  /\ KeyAt(log, i) \in Key
         /\ VersionAt(log, i) \in Version
         /\ VersionAt(log, i).id \in Nat
         /\ VersionAt(log, i).kind \in {"put", "delete"}
         /\ VersionAt(log, i) # NoVersion
<1>1. log[i] \in EngineRecord
  BY DEF EngineLog
<1>2. KeyAt(log, i) \in Key /\ VersionAt(log, i) \in Version
  BY <1>1 DEF KeyAt, VersionAt, EngineRecord
<1>3. \A v \in Version : v.id \in Nat /\ v.kind \in {"put", "delete"}
  BY CompactionConstants
<1>4. \A v \in Version : v # NoVersion
  BY <1>3 DEF NoVersion
<1> QED
  BY <1>2, <1>3, <1>4

\* There is one last entry, and none when no entry is about the key.
LEMMA OneLast ==
  ASSUME NEW log, NEW k, NEW lo \in Nat, NEW hi \in Nat,
         NEW i, LastEntry(log, i, k, lo, hi)
  PROVE  /\ ~ NoEntry(log, k, lo, hi)
         /\ \A j : LastEntry(log, j, k, lo, hi) => j = i
<1>1. ~ NoEntry(log, k, lo, hi)
  BY DEF LastEntry, NoEntry
<1>2. ASSUME NEW j, LastEntry(log, j, k, lo, hi) PROVE j = i
  <2>1. i \in lo + 1 .. hi /\ j \in lo + 1 .. hi /\ KeyAt(log, i) = k /\ KeyAt(log, j) = k
    BY <1>2 DEF LastEntry
  <2>2. ~ (j \in i + 1 .. hi) /\ ~ (i \in j + 1 .. hi)
    BY <1>2, <2>1 DEF LastEntry
  <2> QED
    BY <2>1, <2>2
<1> QED
  BY <1>1, <1>2

\* The whole log amounts to one version of a key.
LEMMA OneLatest ==
  ASSUME NEW log \in EngineLog, NEW k, NEW v, NEW w, Latest(log, k, v), Latest(log, k, w)
  PROVE  v = w
<1>1. Len(log) \in Nat
  BY DEF EngineLog
<1> QED
  BY <1>1, OneLast, Zenon DEF Latest

\* The last entry behind a position is the last of all.
LEMMA LastOfAll ==
  ASSUME NEW log, NEW k, NEW b \in Nat, NEW hi \in Nat, NEW i, LastEntry(log, i, k, b, hi)
  PROVE  i \in 1 .. hi /\ LastEntry(log, i, k, 0, hi)
<1>1. i \in b + 1 .. hi
  BY DEF LastEntry
<1>2. i \in 1 .. hi /\ i \in 0 + 1 .. hi
  BY <1>1
<1> QED
  BY <1>2 DEF LastEntry

\* A key without entries behind a position keeps what it was there.
LEMMA NoneBehind ==
  ASSUME NEW log, NEW k, NEW b \in Nat, NEW hi \in Nat, b <= hi, NoEntry(log, k, b, hi)
  PROVE  /\ NoEntry(log, k, 0, b) => NoEntry(log, k, 0, hi)
         /\ \A i : LastEntry(log, i, k, 0, b) => LastEntry(log, i, k, 0, hi)
<1>1. \A j \in b + 1 .. hi : KeyAt(log, j) # k
  BY DEF NoEntry
<1>2. NoEntry(log, k, 0, b) => NoEntry(log, k, 0, hi)
  <2> SUFFICES ASSUME NoEntry(log, k, 0, b), NEW j \in 0 + 1 .. hi
               PROVE  KeyAt(log, j) # k
    BY DEF NoEntry
  <2>1. j \in 0 + 1 .. b \/ j \in b + 1 .. hi
    OBVIOUS
  <2> QED
    BY <1>1, <2>1 DEF NoEntry
<1>3. ASSUME NEW i, LastEntry(log, i, k, 0, b) PROVE LastEntry(log, i, k, 0, hi)
  <2>1. i \in 0 + 1 .. b /\ KeyAt(log, i) = k /\ \A j \in i + 1 .. b : KeyAt(log, j) # k
    BY <1>3 DEF LastEntry
  <2>2. i \in 0 + 1 .. hi
    BY <2>1
  <2>3. ASSUME NEW j \in i + 1 .. hi PROVE KeyAt(log, j) # k
    <3>1. j \in i + 1 .. b \/ j \in b + 1 .. hi
      BY <2>1
    <3> QED
      BY <1>1, <2>1, <3>1
  <2> QED
    BY <2>1, <2>2, <2>3 DEF LastEntry
<1> QED
  BY <1>2, <1>3

\* A table for the entries behind those of some files makes them whole.
LEMMA TableOverFiles ==
  ASSUME NEW log \in EngineLog, NEW b \in 0 .. Len(log), NEW T, Holds(log, T, b, Len(log)),
         NEW k \in Key, NEW v,
         \/ NoEntry(log, k, 0, b) /\ v = NoVersion
         \/ \E i \in 1 .. b : LastEntry(log, i, k, 0, b) /\ v = VersionAt(log, i)
  PROVE  Latest(log, k, IF k \in DOMAIN T THEN T[k] ELSE v)
<1>1. Len(log) \in Nat /\ b \in Nat /\ b <= Len(log)
  BY DEF EngineLog
<1>2. CASE k \in DOMAIN T
  <2>1. PICK i \in 1 .. Len(log) : LastEntry(log, i, k, b, Len(log)) /\ T[k] = VersionAt(log, i)
    BY <1>2 DEF Holds
  <2>2. LastEntry(log, i, k, 0, Len(log))
    BY <1>1, <2>1, LastOfAll, Zenon
  <2> QED
    BY <1>2, <2>1, <2>2 DEF Latest
<1>3. CASE k \notin DOMAIN T
  <2>1. NoEntry(log, k, b, Len(log))
    BY <1>3 DEF Holds
  <2>2. /\ NoEntry(log, k, 0, b) => NoEntry(log, k, 0, Len(log))
        /\ \A i : LastEntry(log, i, k, 0, b) => LastEntry(log, i, k, 0, Len(log))
    BY <1>1, <2>1, NoneBehind, Zenon
  <2>3. 1 .. b \subseteq 1 .. Len(log)
    BY <1>1
  <2>4. Latest(log, k, v)
    BY <2>2, <2>3, Zenon DEF Latest
  <2> QED
    BY <1>3, <2>4, Zenon
<1> QED
  BY <1>2, <1>3

\* An entry more changes nothing for the entries before it.
LEMMA AppendKeepsEntries ==
  ASSUME NEW log \in EngineLog, NEW r, NEW new, new = Append(log, r),
         NEW k, NEW lo \in Nat, NEW hi \in 0 .. Len(log)
  PROVE  /\ NoEntry(log, k, lo, hi) => NoEntry(new, k, lo, hi)
         /\ \A i : LastEntry(log, i, k, lo, hi) =>
              LastEntry(new, i, k, lo, hi) /\ VersionAt(new, i) = VersionAt(log, i)
<1>1. Len(log) \in Nat /\ \A i \in 1 .. Len(log) : new[i] = log[i]
  BY DEF EngineLog
<1>2. \A i \in lo + 1 .. hi : KeyAt(new, i) = KeyAt(log, i) /\ VersionAt(new, i) = VersionAt(log, i)
  <2> SUFFICES ASSUME NEW i \in lo + 1 .. hi PROVE new[i] = log[i]
    BY DEF KeyAt, VersionAt
  <2> QED
    BY <1>1
<1>3. NoEntry(log, k, lo, hi) => NoEntry(new, k, lo, hi)
  BY <1>2 DEF NoEntry
<1>4. ASSUME NEW i, LastEntry(log, i, k, lo, hi)
      PROVE  LastEntry(new, i, k, lo, hi) /\ VersionAt(new, i) = VersionAt(log, i)
  <2>1. i \in lo + 1 .. hi /\ KeyAt(log, i) = k /\ \A j \in i + 1 .. hi : KeyAt(log, j) # k
    BY <1>4 DEF LastEntry
  <2>2. \A j \in i + 1 .. hi : j \in lo + 1 .. hi
    BY <2>1
  <2> QED
    BY <1>2, <2>1, <2>2 DEF LastEntry
<1> QED
  BY <1>3, <1>4

\* Nor for a table of them.
LEMMA AppendKeepsHolds ==
  ASSUME NEW log \in EngineLog, NEW r, NEW new, new = Append(log, r),
         NEW T, NEW lo \in Nat, NEW hi \in 0 .. Len(log), Holds(log, T, lo, hi)
  PROVE  Holds(new, T, lo, hi)
<1>1. \A k : /\ NoEntry(log, k, lo, hi) => NoEntry(new, k, lo, hi)
             /\ \A i : LastEntry(log, i, k, lo, hi) =>
                  LastEntry(new, i, k, lo, hi) /\ VersionAt(new, i) = VersionAt(log, i)
  BY AppendKeepsEntries, ZenonT(30)
<1> QED
  BY <1>1, Zenon DEF Holds

\* Nor for files of them.
LEMMA AppendKeepsFiles ==
  ASSUME NEW log \in EngineLog, NEW r, NEW new, new = Append(log, r),
         NEW d, NEW S, NEW hi \in 0 .. Len(log), FilesHold(log, d, S, hi)
  PROVE  FilesHold(new, d, S, hi)
<1>1. \A k : /\ NoEntry(log, k, 0, hi) => NoEntry(new, k, 0, hi)
             /\ \A i : LastEntry(log, i, k, 0, hi) =>
                  LastEntry(new, i, k, 0, hi) /\ VersionAt(new, i) = VersionAt(log, i)
  BY AppendKeepsEntries, ZenonT(30)
<1>2. ASSUME NEW k \in Key
      PROVE  \/ NoEntry(new, k, 0, hi) /\ \A f \in S : ~ HasKey(d, f, k)
             \/ \E i \in 1 .. hi, f \in S :
                  /\ LastEntry(new, i, k, 0, hi)
                  /\ FoundFirst(d, S, f, k)
                  /\ d[f.filepath][k] = VersionAt(new, i)
  <2>1. CASE NoEntry(log, k, 0, hi) /\ \A f \in S : ~ HasKey(d, f, k)
    BY <1>1, <2>1, Zenon
  <2>2. ASSUME NEW i \in 1 .. hi, NEW f \in S, LastEntry(log, i, k, 0, hi),
               FoundFirst(d, S, f, k), d[f.filepath][k] = VersionAt(log, i)
        PROVE  \E j \in 1 .. hi, g \in S :
                  /\ LastEntry(new, j, k, 0, hi)
                  /\ FoundFirst(d, S, g, k)
                  /\ d[g.filepath][k] = VersionAt(new, j)
    BY <1>1, <2>2, Zenon
  <2> QED
    BY <2>1, <2>2, Zenon DEF FilesHold
<1> QED
  BY <1>2, Zenon DEF FilesHold

\* A new entry about a key is the last about it, and none about another.
LEMMA NewLast ==
  ASSUME NEW log \in EngineLog, NEW n, n = Len(log), NEW lo \in Nat, lo < n
  PROVE  /\ LastEntry(log, n, KeyAt(log, n), lo, n)
         /\ \A k : (k # KeyAt(log, n)) =>
              /\ NoEntry(log, k, lo, n - 1) => NoEntry(log, k, lo, n)
              /\ \A i : LastEntry(log, i, k, lo, n - 1) => LastEntry(log, i, k, lo, n)
<1>1. n \in Nat
  BY DEF EngineLog
<1>2. n \in lo + 1 .. n /\ n + 1 .. n = {}
  BY <1>1
<1>3. LastEntry(log, n, KeyAt(log, n), lo, n)
  BY <1>2 DEF LastEntry
<1>4. \A j, m \in Nat : j \in m + 1 .. n => j \in m + 1 .. n - 1 \/ j = n
  BY <1>1
<1>5. lo + 1 .. n \subseteq Nat /\ lo + 1 .. n - 1 \subseteq lo + 1 .. n
  BY <1>1
<1>6. ASSUME NEW k, k # KeyAt(log, n), NoEntry(log, k, lo, n - 1) PROVE NoEntry(log, k, lo, n)
  BY <1>4, <1>5, <1>6 DEF NoEntry
<1>7. ASSUME NEW k, k # KeyAt(log, n), NEW i, LastEntry(log, i, k, lo, n - 1)
      PROVE  LastEntry(log, i, k, lo, n)
  <2>1. i \in lo + 1 .. n - 1 /\ KeyAt(log, i) = k /\ \A j \in i + 1 .. n - 1 : KeyAt(log, j) # k
    BY <1>7 DEF LastEntry
  <2>2. i \in lo + 1 .. n /\ i \in Nat
    BY <1>5, <2>1
  <2>3. i + 1 .. n \subseteq Nat
    BY <2>2
  <2> QED
    BY <1>4, <1>7, <2>1, <2>2, <2>3 DEF LastEntry
<1> QED
  BY <1>3, <1>6, <1>7

\* A table that has taken a write.
WithWrite(T, w) ==
  [k \in DOMAIN T \cup {w.key} |-> IF k = w.key THEN w.version ELSE T[k]]

\* The memtable takes the last entry of the log (ApplyToMemTable).
LEMMA HoldsOneMore ==
  ASSUME NEW log \in EngineLog, NEW n, n = Len(log), NEW lo \in Nat, lo < n,
         NEW T, Holds(log, T, lo, n - 1)
  PROVE  Holds(log, WithWrite(T, log[n].payload), lo, n)
<1>0. PICK w : w = log[n].payload
  OBVIOUS
<1> DEFINE U == WithWrite(T, w)
<1>1. w.key = KeyAt(log, n) /\ w.version = VersionAt(log, n)
  BY <1>0 DEF KeyAt, VersionAt
<1>2. n \in 1 .. n /\ n \in Nat /\ 1 .. n - 1 \subseteq 1 .. n
  BY DEF EngineLog
<1>3. w.key \in Key /\ w.version \in Version
  BY <1>1, <1>2, EntryType
<1>4. U \in Table
  <2>1. PICK K \in SUBSET Key : IsFiniteSet(K) /\ T \in [K -> Version]
    BY DEF Holds, Table
  <2>2. DOMAIN T = K /\ \A k \in K : T[k] \in Version
    BY <2>1
  <2>3. IsFiniteSet(K \cup {w.key}) /\ K \cup {w.key} \in SUBSET Key
    BY <1>3, <2>1, FiniteAdd, Zenon
  <2>4. U \in [K \cup {w.key} -> Version]
    BY <1>3, <2>2 DEF WithWrite
  <2> HIDE DEF U
  <2> QED
    BY <2>3, <2>4, Zenon DEF Table
<1>5. /\ LastEntry(log, n, w.key, lo, n)
      /\ \A k : (k # w.key) =>
           /\ NoEntry(log, k, lo, n - 1) => NoEntry(log, k, lo, n)
           /\ \A i : LastEntry(log, i, k, lo, n - 1) => LastEntry(log, i, k, lo, n)
  <2>1. /\ LastEntry(log, n, KeyAt(log, n), lo, n)
        /\ \A k : (k # KeyAt(log, n)) =>
             /\ NoEntry(log, k, lo, n - 1) => NoEntry(log, k, lo, n)
             /\ \A i : LastEntry(log, i, k, lo, n - 1) => LastEntry(log, i, k, lo, n)
    BY NewLast
  <2> QED
    BY <1>1, <2>1, Zenon
<1>6. DOMAIN U = DOMAIN T \cup {w.key} /\ U[w.key] = w.version
      /\ \A k \in DOMAIN T : (k # w.key) => U[k] = T[k]
  BY DEF WithWrite
<1> HIDE DEF U
<1>7. ASSUME NEW k \in DOMAIN U
      PROVE  \E i \in 1 .. n : LastEntry(log, i, k, lo, n) /\ U[k] = VersionAt(log, i)
  <2>1. CASE k = w.key
    BY <1>1, <1>2, <1>5, <1>6, <2>1, Zenon
  <2>2. CASE k # w.key
    <3>1. k \in DOMAIN T /\ U[k] = T[k]
      BY <1>6, <2>2, Zenon
    <3>2. PICK i \in 1 .. n - 1 : LastEntry(log, i, k, lo, n - 1) /\ T[k] = VersionAt(log, i)
      BY <3>1, Zenon DEF Holds
    <3> QED
      BY <1>2, <1>5, <2>2, <3>1, <3>2, Zenon
  <2> QED
    BY <2>1, <2>2
<1>8. ASSUME NEW k \in Key \ DOMAIN U PROVE NoEntry(log, k, lo, n)
  BY <1>5, <1>6, <1>8, Zenon DEF Holds
<1> QED
  BY <1>0, <1>4, <1>7, <1>8, Zenon DEF Holds, U

\* An entry about another key leaves the version of a key as it is.
LEMMA AppendKeepsLatest ==
  ASSUME NEW log \in EngineLog, NEW r, NEW new, new = Append(log, r)
  PROVE  \A k, v : KeyAt(new, Len(log) + 1) # k /\ new \in EngineLog /\ Latest(log, k, v)
                      => Latest(new, k, v)
<1>1. \A hi \in 0 .. Len(log) : \A k :
        /\ NoEntry(log, k, 0, hi) => NoEntry(new, k, 0, hi)
        /\ \A i : LastEntry(log, i, k, 0, hi) =>
             LastEntry(new, i, k, 0, hi) /\ VersionAt(new, i) = VersionAt(log, i)
  BY AppendKeepsEntries, ZenonT(30)
<1> SUFFICES ASSUME NEW k, NEW v, KeyAt(new, Len(log) + 1) # k, new \in EngineLog,
                    Latest(log, k, v)
             PROVE  Latest(new, k, v)
  OBVIOUS
<1>2. PICK n, m : n = Len(log) /\ m = n + 1
  OBVIOUS
<1>3. n \in Nat /\ Len(new) = m /\ n \in 0 .. Len(log) /\ m - 1 = n /\ 0 < m
  BY <1>2 DEF EngineLog
<1>4. /\ NoEntry(new, k, 0, n) => NoEntry(new, k, 0, m)
      /\ \A i : LastEntry(new, i, k, 0, n) => LastEntry(new, i, k, 0, m)
  <2>1. /\ NoEntry(new, k, 0, m - 1) => NoEntry(new, k, 0, m)
        /\ \A i : LastEntry(new, i, k, 0, m - 1) => LastEntry(new, i, k, 0, m)
    BY <1>2, <1>3, NewLast, Zenon
  <2> QED
    BY <1>3, <2>1, Zenon
<1>5. CASE NoEntry(log, k, 0, n) /\ v = NoVersion
  BY <1>1, <1>3, <1>4, <1>5, Zenon DEF Latest
<1>6. ASSUME NEW i \in 1 .. n, LastEntry(log, i, k, 0, n), v = VersionAt(log, i)
      PROVE  Latest(new, k, v)
  <2>1. LastEntry(new, i, k, 0, m) /\ v = VersionAt(new, i)
    BY <1>1, <1>3, <1>4, <1>6, Zenon
  <2>2. i \in 1 .. Len(new)
    BY <1>2, <1>3
  <2> QED
    BY <1>3, <2>1, <2>2, Zenon DEF Latest
<1> QED
  BY <1>2, <1>5, <1>6, Zenon DEF Latest

\* Files that a step leaves as they were still hold what they held.
LEMMA SameFiles ==
  ASSUME NEW log, NEW d, NEW e, NEW S, NEW hi, FilesHold(log, d, S, hi),
         \A f \in S : f.filepath \in DOMAIN d =>
           f.filepath \in DOMAIN e /\ e[f.filepath] = d[f.filepath]
  PROVE  FilesHold(log, e, S, hi)
<1>3. \A f \in S : f.filepath \in DOMAIN e /\ e[f.filepath] = d[f.filepath]
  BY Zenon DEF FilesHold, Flushed
<1>4. \A f \in S : Flushed(e, f)
  BY <1>3, Zenon DEF FilesHold, Flushed
<1>5. \A f \in S : \A k : HasKey(e, f, k) <=> HasKey(d, f, k)
  BY <1>3, Zenon DEF HasKey
<1>6. \A f \in S : \A k : FoundFirst(d, S, f, k) => FoundFirst(e, S, f, k)
  BY <1>5, Zenon DEF FoundFirst
<1>7. ASSUME NEW k \in Key
      PROVE  \/ NoEntry(log, k, 0, hi) /\ \A f \in S : ~ HasKey(e, f, k)
             \/ \E i \in 1 .. hi, f \in S :
                  /\ LastEntry(log, i, k, 0, hi)
                  /\ FoundFirst(e, S, f, k)
                  /\ e[f.filepath][k] = VersionAt(log, i)
  <2>1. CASE NoEntry(log, k, 0, hi) /\ \A f \in S : ~ HasKey(d, f, k)
    BY <1>5, <2>1, Zenon
  <2>2. ASSUME NEW i \in 1 .. hi, NEW f \in S, LastEntry(log, i, k, 0, hi),
               FoundFirst(d, S, f, k), d[f.filepath][k] = VersionAt(log, i)
        PROVE  \E j \in 1 .. hi, g \in S :
                  /\ LastEntry(log, j, k, 0, hi)
                  /\ FoundFirst(e, S, g, k)
                  /\ e[g.filepath][k] = VersionAt(log, j)
    <3>1. FoundFirst(e, S, f, k) /\ e[f.filepath][k] = VersionAt(log, i)
      BY <1>3, <1>6, <2>2, Zenon
    <3> QED
      BY <2>2, <3>1, Zenon
  <2> QED
    BY <2>1, <2>2, Zenon DEF FilesHold
<1> QED
  BY <1>4, <1>7, Zenon DEF FilesHold

\* A file with the entries behind those of the others, and a higher number, makes
\* them whole (RegisterLevel0).
LEMMA OneFileMore ==
  ASSUME NEW log, NEW d, NEW S, NEW b \in Nat, NEW hi \in Nat, b <= hi,
         FilesHold(log, d, S, b),
         NEW f, Flushed(d, f), Holds(log, d[f.filepath], b, hi),
         \A g \in S : g.sequence_number < f.sequence_number
  PROVE  FilesHold(log, d, S \cup {f}, hi)
<1> DEFINE U == S \cup {f}
<1>1. \A g \in U : Flushed(d, g) /\ g.sequence_number \in Nat
  BY Zenon DEF FilesHold, Flushed
<1>2. ASSUME NEW g \in U, NEW h \in U, g.sequence_number = h.sequence_number PROVE g = h
  <2>1. CASE g \in S /\ h \in S
    BY <1>2, <2>1, Zenon DEF FilesHold
  <2>2. \A x \in S : x.sequence_number # f.sequence_number
    BY <1>1
  <2> QED
    BY <1>2, <2>1, <2>2, Zenon
<1>3. ASSUME NEW k \in Key
      PROVE  \/ NoEntry(log, k, 0, hi) /\ \A g \in U : ~ HasKey(d, g, k)
             \/ \E i \in 1 .. hi, g \in U :
                  /\ LastEntry(log, i, k, 0, hi)
                  /\ FoundFirst(d, U, g, k)
                  /\ d[g.filepath][k] = VersionAt(log, i)
  <2>1. CASE HasKey(d, f, k)
    <3>1. PICK i \in 1 .. hi : LastEntry(log, i, k, b, hi) /\ d[f.filepath][k] = VersionAt(log, i)
      BY <2>1, Zenon DEF Holds, HasKey
    <3>2. LastEntry(log, i, k, 0, hi)
      BY <3>1, LastOfAll, Zenon
    <3>3. \A g \in U : g.sequence_number <= f.sequence_number
      BY <1>1
    <3>4. FoundFirst(d, U, f, k)
      BY <2>1, <3>3, Zenon DEF FoundFirst
    <3> QED
      BY <3>1, <3>2, <3>4, Zenon
  <2>2. CASE ~ HasKey(d, f, k)
    <3>1. NoEntry(log, k, b, hi)
      BY <2>2, Zenon DEF Holds, HasKey
    <3>2. /\ NoEntry(log, k, 0, b) => NoEntry(log, k, 0, hi)
          /\ \A i : LastEntry(log, i, k, 0, b) => LastEntry(log, i, k, 0, hi)
      BY <3>1, NoneBehind, Zenon
    <3>3. CASE NoEntry(log, k, 0, b) /\ \A g \in S : ~ HasKey(d, g, k)
      BY <2>2, <3>2, <3>3, Zenon
    <3>4. ASSUME NEW i \in 1 .. b, NEW g \in S, LastEntry(log, i, k, 0, b),
                 FoundFirst(d, S, g, k), d[g.filepath][k] = VersionAt(log, i)
          PROVE  \E j \in 1 .. hi, h \in U :
                    /\ LastEntry(log, j, k, 0, hi)
                    /\ FoundFirst(d, U, h, k)
                    /\ d[h.filepath][k] = VersionAt(log, j)
      <4>1. i \in 1 .. hi
        OBVIOUS
      <4>2. FoundFirst(d, U, g, k)
        BY <2>2, <3>4, Zenon DEF FoundFirst
      <4> QED
        BY <3>2, <3>4, <4>1, <4>2, Zenon
    <3> QED
      BY <3>3, <3>4, Zenon DEF FilesHold
  <2> QED
    BY <2>1, <2>2, Zenon
<1> QED
  BY <1>1, <1>2, <1>3, Zenon DEF FilesHold
----------------------------------------------------------------------------
(* Recovery and lookups, from a log that is whole.                         *)

\* Every key has a last entry, and the keys behind a position have a least and a
\* greatest.  So it is of every log, and kept as an invariant of the appends.
Settled(log) ==
  /\ \A i \in 1 .. Len(log) :
       \E j \in 1 .. Len(log) : LastEntry(log, j, KeyAt(log, i), 0, Len(log))
  /\ \A l \in 1 .. Len(log) : \E i, j \in l .. Len(log) : \A m \in l .. Len(log) :
       KeyAt(log, i) <= KeyAt(log, m) /\ KeyAt(log, j) >= KeyAt(log, m)

\* Entries and LSNs are numbered alike, the versions are in order, and ReadAll
\* does not stop at any entry.
Whole(log) ==
  /\ log \in EngineLog /\ Settled(log)
  /\ \A i \in 1 .. Len(log) : log[i].lsn = i /\ ~ Stops(log[i])
  /\ \A i, j \in 1 .. Len(log) : i < j => VersionAt(log, i).id < VersionAt(log, j).id

\* An append keeps a log settled.
LEMMA AppendSettles ==
  ASSUME NEW log \in EngineLog, Settled(log), NEW r \in EngineRecord,
         NEW new, new = Append(log, r)
  PROVE  Settled(new)
<1>1. PICK n : n = Len(log)
  BY Zenon
<1>2. /\ n \in Nat /\ new \in EngineLog /\ Len(new) = n + 1
      /\ \A i \in 1 .. n : KeyAt(new, i) = KeyAt(log, i)
  BY <1>1 DEF EngineLog, KeyAt
<1>3. \A i \in 1 .. n + 1 : KeyAt(new, i) \in Nat
  BY <1>2, EntryType, CompactionConstants, Zenon
<1>4. ASSUME NEW i \in 1 .. n + 1
      PROVE  \E j \in 1 .. n + 1 : LastEntry(new, j, KeyAt(new, i), 0, n + 1)
  <2>1. CASE KeyAt(new, i) = KeyAt(new, n + 1)
    <3>1. n + 1 \in 1 .. n + 1 /\ n + 1 + 1 .. n + 1 = {} /\ 0 + 1 = 1
      BY <1>2
    <3> QED
      BY <2>1, <3>1, Zenon DEF LastEntry
  <2>2. CASE KeyAt(new, i) # KeyAt(new, n + 1)
    <3>1. i \in 1 .. n
      BY <1>2, <2>2
    <3>2. PICK j \in 1 .. n : LastEntry(log, j, KeyAt(new, i), 0, n)
      BY <1>1, <1>2, <3>1, Zenon DEF Settled
    <3>3. /\ j \in 1 .. n + 1
          /\ \A m \in j + 1 .. n + 1 : (m \in j + 1 .. n /\ m \in 1 .. n) \/ m = n + 1
      BY <1>2, <3>2
    <3>4. KeyAt(new, j) = KeyAt(new, i) /\ \A m \in j + 1 .. n + 1 : KeyAt(new, m) # KeyAt(new, i)
      BY <1>2, <2>2, <3>2, <3>3, Zenon DEF LastEntry
    <3>5. j \in 0 + 1 .. n + 1
      BY <3>3
    <3> QED
      BY <3>3, <3>4, <3>5, Zenon DEF LastEntry
  <2> QED
    BY <2>1, <2>2
<1>5. ASSUME NEW l \in 1 .. n + 1
      PROVE  \E i, j \in l .. n + 1 : \A m \in l .. n + 1 :
               KeyAt(new, i) <= KeyAt(new, m) /\ KeyAt(new, j) >= KeyAt(new, m)
  <2>1. CASE l = n + 1
    BY <1>2, <1>3, <2>1
  <2>2. CASE l \in 1 .. n
    <3>1. PICK i, j \in l .. n : \A m \in l .. n :
            KeyAt(log, i) <= KeyAt(log, m) /\ KeyAt(log, j) >= KeyAt(log, m)
      BY <1>1, <2>2, Zenon DEF Settled
    <3>2. /\ i \in l .. n + 1 /\ j \in l .. n + 1 /\ n + 1 \in l .. n + 1
          /\ \A m \in l .. n + 1 : m \in 1 .. n + 1 /\ ((m \in l .. n /\ m \in 1 .. n) \/ m = n + 1)
      BY <1>2, <1>5, <3>1
    <3>3. \A m \in l .. n : KeyAt(new, i) <= KeyAt(new, m) /\ KeyAt(new, j) >= KeyAt(new, m)
      BY <1>2, <3>1, <3>2
    <3>4. \E p \in {i, n + 1} : \A m \in l .. n + 1 : KeyAt(new, p) <= KeyAt(new, m)
      BY <1>3, <3>2, <3>3
    <3>5. \E q \in {j, n + 1} : \A m \in l .. n + 1 : KeyAt(new, q) >= KeyAt(new, m)
      BY <1>3, <3>2, <3>3
    <3> QED
      BY <3>2, <3>4, <3>5, Zenon
  <2> QED
    BY <1>2, <2>1, <2>2
<1> QED
  BY <1>2, <1>4, <1>5, ZenonT(30) DEF Settled

\* The range of a flushed table covers its keys.
LEMMA RangeCovers ==
  ASSUME NEW log, Whole(log), NEW n, n = Len(log), NEW b \in 0 .. n, NEW T,
         Holds(log, T, b, n), NEW k \in DOMAIN T
  PROVE  Min(DOMAIN T) <= k /\ k <= Max(DOMAIN T)
<1>1. log \in EngineLog /\ n \in Nat /\ b \in Nat
  BY DEF Whole, EngineLog
<1>2. \A x \in DOMAIN T : \E m \in b + 1 .. n : KeyAt(log, m) = x
  BY Zenon DEF Holds, LastEntry
<1>3. \A m \in b + 1 .. n : KeyAt(log, m) \in DOMAIN T
  BY <1>1, EntryType DEF Holds, NoEntry
<1>4. PICK i, j \in b + 1 .. n : \A m \in b + 1 .. n :
        KeyAt(log, i) <= KeyAt(log, m) /\ KeyAt(log, j) >= KeyAt(log, m)
  <2>1. b + 1 \in 1 .. n
    BY <1>1, <1>2
  <2> QED
    BY <2>1, Zenon DEF Whole, Settled
<1>5. PICK K, lo, hi : K = DOMAIN T /\ lo = KeyAt(log, i) /\ hi = KeyAt(log, j)
  BY Zenon
<1>6. lo \in K /\ hi \in K /\ \A y \in K : lo <= y /\ hi >= y
  BY <1>2, <1>3, <1>4, <1>5, Zenon
<1>7. Min(K) <= k /\ Max(K) \in K /\ Max(K) >= k
  BY <1>5, <1>6, MaxMin, Zenon
<1>8. K \in SUBSET Nat
  BY <1>5, CompactionConstants, Zenon DEF Holds, Table
<1> QED
  BY <1>5, <1>7, <1>8

\* Replay makes a table of the entries behind the checkpoint's LSN.
LEMMA ReplayHolds ==
  ASSUME Whole(wal_file), NEW l \in 0 .. Len(wal_file)
  PROVE  Holds(wal_file, Replayed(l), l, Len(wal_file))
<1>1. PICK log, n : log = wal_file /\ n = Len(wal_file)
  OBVIOUS
<1>2. /\ log \in EngineLog /\ n \in Nat /\ l \in Nat /\ l <= n /\ n = Len(log)
      /\ DOMAIN log = 1 .. n
      /\ \A i \in 1 .. n : log[i].lsn = i /\ ~ Stops(log[i])
  BY <1>1 DEF Whole, EngineLog
<1>3. Readable(log) = 1 .. n
  <2>1. \A i \in 1 .. n : \A j \in 1 .. i : j \in 1 .. n
    BY <1>2
  <2> QED
    BY <1>2, <2>1 DEF Readable
<1> DEFINE E == {i \in Readable(log) : log[i].lsn > l}
           Of(k) == {i \in E : log[i].payload.key = k}
           D == {log[i].payload.key : i \in E}
           T == [k \in D |-> log[Max(Of(k))].payload.version]
<1>4. Replayed(l) = T
  BY <1>1, Zenon DEF Replayed
<1>5. E = l + 1 .. n
  BY <1>2, <1>3
<1> HIDE DEF E
<1>6. \A i \in E : KeyAt(log, i) \in Key /\ VersionAt(log, i) \in Version
  BY <1>2, <1>5, EntryType
<1>7. D \in SUBSET Key
  BY <1>6 DEF KeyAt
<1>8. IsFiniteSet(D)
  <2>1. PICK m \in Nat : m = n - l
    <3>1. n - l \in Nat
      BY <1>2
    <3> QED
      BY <3>1, Zenon
  <2>2. PICK key : key = [i \in 1 .. m |-> log[l + i].payload.key]
    BY Zenon
  <2>3. /\ \A i \in 1 .. m : l + i \in E
        /\ \A i \in E : i - l \in 1 .. m /\ l + (i - l) = i
    BY <1>2, <1>5, <2>1
  <2>4. \A i \in 1 .. m : key[i] \in D
    BY <2>2, <2>3
  <2>5. \A x \in D : \E i \in 1 .. m : key[i] = x
    BY <2>2, <2>3, Zenon
  <2>6. m \in Nat
    BY <2>1
  <2> HIDE DEF D
  <2> QED
    BY <2>4, <2>5, <2>6, FiniteRange, Zenon
<1>9. ASSUME NEW k \in D
      PROVE  \E i \in 1 .. n : /\ LastEntry(log, i, k, l, n)
                               /\ log[Max(Of(k))].payload.version = VersionAt(log, i)
  <2>1. PICK e \in E : KeyAt(log, e) = k
    BY DEF KeyAt
  <2>2. Max(Of(k)) \in Of(k) /\ \A y \in Of(k) : Max(Of(k)) >= y
    <3>1. PICK j \in 1 .. n : LastEntry(log, j, k, 0, n)
      <4>1. e \in 1 .. n
        BY <1>2, <1>5, <2>1
      <4> QED
        BY <1>1, <2>1, <4>1, Zenon DEF Whole, Settled
    <3>2. KeyAt(log, j) = k /\ \A i \in E : i > j => KeyAt(log, i) # k
      BY <1>2, <1>5, <3>1 DEF LastEntry
    <3>3. j \in E
      BY <1>2, <1>5, <2>1, <3>2
    <3>4. j \in Of(k) /\ \A y \in Of(k) : j >= y
      BY <1>5, <3>2, <3>3 DEF KeyAt
    <3> HIDE DEF Of
    <3> QED
      BY <3>4, MaxMin, Zenon
  <2>3. PICK m : m = Max(Of(k))
    BY Zenon
  <2>4. m \in l + 1 .. n /\ KeyAt(log, m) = k
    BY <1>5, <2>2, <2>3 DEF KeyAt
  <2>5. ASSUME NEW j \in m + 1 .. n PROVE KeyAt(log, j) # k
    <3>1. j \in E /\ ~ (j <= m)
      BY <1>2, <1>5, <2>4
    <3> QED
      BY <2>2, <2>3, <3>1 DEF KeyAt
  <2>6. m \in 1 .. n
    BY <1>2, <2>4
  <2> HIDE DEF Of
  <2> QED
    BY <2>3, <2>4, <2>5, <2>6 DEF LastEntry, VersionAt
<1>10. DOMAIN T = D /\ \A k \in D : T[k] = log[Max(Of(k))].payload.version
  OBVIOUS
<1>11. T \in Table
  <2>1. \A k \in D : log[Max(Of(k))].payload.version \in Version
    <3> SUFFICES ASSUME NEW k \in D PROVE log[Max(Of(k))].payload.version \in Version
      BY Zenon
    <3>1. PICK i \in 1 .. n : log[Max(Of(k))].payload.version = VersionAt(log, i)
      BY <1>9, Zenon
    <3> QED
      BY <1>2, <3>1, EntryType
  <2> HIDE DEF D, Of
  <2>2. T \in [D -> Version]
    BY <2>1
  <2> HIDE DEF T
  <2> QED
    BY <1>7, <1>8, <2>2, Zenon DEF Table
<1>12. \A k \in Key \ D : NoEntry(log, k, l, n)
  BY <1>5 DEF NoEntry, KeyAt
<1> HIDE DEF D, Of, T
<1>13. Holds(log, T, l, n)
  BY <1>9, <1>10, <1>11, <1>12, Zenon DEF Holds
<1> QED
  BY <1>1, <1>4, <1>13, Zenon

\* A search of files that amount to the log up to a position finds what it says.
LEMMA SearchFinds ==
  ASSUME wal_file \in EngineLog, damaged = {}, NEW S, NEW hi \in 0 .. Len(wal_file),
         FilesHold(wal_file, disk, S, hi), NEW k \in Key
  PROVE  \/ NoEntry(wal_file, k, 0, hi) /\ FirstVersion(S, k) = NoVersion
         \/ \E i \in 1 .. hi : /\ LastEntry(wal_file, i, k, 0, hi)
                               /\ FirstVersion(S, k) = VersionAt(wal_file, i)
<1> DEFINE having == {f \in S : InRange(f, k) /\ ReadKey(f, k) # NoVersion}
           first == {f \in having : \A g \in having : ~ SearchedBefore(g, f)}
<1>1. \A f \in S : Flushed(disk, f) /\ CanRead(f)
  <2>1. \A f \in S : Flushed(disk, f) /\ f.filepath \in DOMAIN disk
    BY Zenon DEF FilesHold, Flushed
  <2> QED
    BY <2>1, Zenon DEF CanRead
<1>2. FirstVersion(S, k) = IF having = {} THEN NoVersion ELSE ReadKey(CHOOSE f \in first : TRUE, k)
  <2>1. FirstVersion(S, k) = IF having = {} \/ \E f \in S : ~ CanRead(f)
                             THEN NoVersion ELSE ReadKey(CHOOSE f \in first : TRUE, k)
    BY DEF FirstVersion
  <2>2. ~ \E f \in S : ~ CanRead(f)
    BY <1>1, Zenon
  <2> HIDE DEF having, first
  <2> QED
    BY <2>1, <2>2, Zenon
<1>3. \A f \in S : ~ HasKey(disk, f, k) => ReadKey(f, k) = NoVersion
  BY <1>1, Zenon DEF HasKey, ReadKey
<1>4. \A f \in S : HasKey(disk, f, k) => InRange(f, k) /\ ReadKey(f, k) = disk[f.filepath][k]
  BY <1>1, Zenon DEF HasKey, ReadKey, Flushed
<1>5. CASE NoEntry(wal_file, k, 0, hi) /\ \A f \in S : ~ HasKey(disk, f, k)
  <2>1. having = {}
    BY <1>3, <1>5, Zenon
  <2> QED
    BY <1>2, <1>5, <2>1, Zenon
<1>6. ASSUME NEW i \in 1 .. hi, NEW f \in S, LastEntry(wal_file, i, k, 0, hi),
             FoundFirst(disk, S, f, k), disk[f.filepath][k] = VersionAt(wal_file, i)
      PROVE  FirstVersion(S, k) = VersionAt(wal_file, i)
  <2>1. i \in 1 .. Len(wal_file)
    BY DEF EngineLog
  <2>2. VersionAt(wal_file, i) # NoVersion
    BY <2>1, EntryType, Zenon
  <2>3. f \in having
    BY <1>4, <1>6, <2>2, Zenon DEF FoundFirst
  <2>4. \A g \in having : g \in S /\ HasKey(disk, g, k)
    BY <1>3, Zenon
  <2>5. \A g \in S : g.level = 0 /\ g.sequence_number \in Nat
    BY <1>1, Zenon DEF Flushed
  <2>6. \A g \in having : g.sequence_number <= f.sequence_number
    BY <1>6, <2>4, Zenon DEF FoundFirst
  <2> HIDE DEF having
  <2>7. f \in first
    BY <2>3, <2>4, <2>5, <2>6 DEF SearchedBefore
  <2>8. ASSUME NEW g \in first PROVE g = f
    <3>1. g \in having /\ ~ SearchedBefore(f, g)
      BY <2>3, Zenon
    <3>2. g \in S /\ g.sequence_number <= f.sequence_number
      BY <2>4, <2>6, <3>1, Zenon
    <3>3. g.sequence_number = f.sequence_number
      BY <2>5, <3>1, <3>2 DEF SearchedBefore
    <3> QED
      BY <3>2, <3>3, Zenon DEF FilesHold
  <2> HIDE DEF first
  <2>9. (CHOOSE g \in first : TRUE) = f
    BY <2>7, <2>8, Zenon
  <2>10. ReadKey(f, k) = VersionAt(wal_file, i)
    BY <1>4, <1>6, Zenon DEF FoundFirst
  <2> QED
    BY <1>2, <2>3, <2>9, <2>10, Zenon
<1>7. \/ NoEntry(wal_file, k, 0, hi) /\ \A f \in S : ~ HasKey(disk, f, k)
      \/ \E i \in 1 .. hi, f \in S : /\ LastEntry(wal_file, i, k, 0, hi)
                                     /\ FoundFirst(disk, S, f, k)
                                     /\ disk[f.filepath][k] = VersionAt(wal_file, i)
  BY Zenon DEF FilesHold
<1> HIDE DEF having, first
<1> QED
  BY <1>5, <1>6, <1>7, Zenon

\* A memtable over such files is the engine's content as the log has it.
LEMMA CurrentIsLatest ==
  ASSUME wal_file \in EngineLog, damaged = {}, NEW b \in 0 .. Len(wal_file),
         FilesHold(wal_file, disk, files, b),
         Holds(wal_file, active_memtable, b, Len(wal_file)), NEW k \in Key
  PROVE  Latest(wal_file, k, Current(k))
<1>1. PICK v : v = FirstVersion(files, k)
  OBVIOUS
<1>2. \/ NoEntry(wal_file, k, 0, b) /\ v = NoVersion
      \/ \E i \in 1 .. b : LastEntry(wal_file, i, k, 0, b) /\ v = VersionAt(wal_file, i)
  BY <1>1, SearchFinds, Zenon
<1>3. Latest(wal_file, k, IF k \in DOMAIN active_memtable THEN active_memtable[k] ELSE v)
  BY <1>2, TableOverFiles, Zenon
<1> QED
  BY <1>1, <1>3, Zenon DEF Current

\* And so is what recovery rebuilds from a checkpoint that holds what it says.
LEMMA RecoveredIsLatest ==
  ASSUME Whole(wal_file), damaged = {}, checkpoint.last_flushed_lsn \in 0 .. Len(wal_file),
         FilesHold(wal_file, disk, checkpoint.sstables, checkpoint.last_flushed_lsn),
         NEW k \in Key
  PROVE  Latest(wal_file, k, Recovered(k))
<1>1. PICK l, S, T : /\ l = checkpoint.last_flushed_lsn /\ S = checkpoint.sstables
                     /\ T = Replayed(checkpoint.last_flushed_lsn)
  OBVIOUS
<1>2. PICK v : v = FirstVersion(checkpoint.sstables, k)
  OBVIOUS
<1>3. wal_file \in EngineLog
  BY DEF Whole
<1>4. Holds(wal_file, T, l, Len(wal_file))
  <2>1. l \in 0 .. Len(wal_file)
    BY <1>1
  <2>2. Holds(wal_file, Replayed(l), l, Len(wal_file))
    BY <2>1, ReplayHolds, Zenon
  <2>3. Replayed(l) = T
    BY <1>1 DEF Replayed
  <2> QED
    BY <2>2, <2>3, Zenon
<1>5. FirstVersion(S, k) = v
  BY <1>1, <1>2 DEF FirstVersion
<1>6. \/ NoEntry(wal_file, k, 0, l) /\ v = NoVersion
      \/ \E i \in 1 .. l : LastEntry(wal_file, i, k, 0, l) /\ v = VersionAt(wal_file, i)
  BY <1>1, <1>3, <1>5, SearchFinds, Zenon
<1>7. Latest(wal_file, k, IF k \in DOMAIN T THEN T[k] ELSE v)
  BY <1>1, <1>3, <1>4, <1>6, TableOverFiles, Zenon
<1> QED
  BY <1>1, <1>2, <1>7, Zenon DEF Recovered
----------------------------------------------------------------------------
(* The inductive invariant.                                                *)

\* Where a thread is while it flushes.
FlushPcs == {"swap", "lsn", "write", "add", "files", "save"}

\* The log is whole, and closed with the engine.
SerialLog ==
  /\ Whole(wal_file)
  /\ writes \in Nat /\ \A i \in 1 .. Len(wal_file) : VersionAt(wal_file, i).id <= writes
  /\ unflushed = <<>>
  /\ write_file = IF engine = "closed" THEN "closed" ELSE "good"
  /\ engine # "closed" => next_sequence_number = Len(wal_file) + 1

\* The engine object, whose compaction thread sleeps.
SessionInv ==
  /\ DOMAIN call = Thread
  /\ engine \in {"closed", "open", "closing"}
  /\ loop \in {"wait", "exited"}
  /\ next_sst_sequence \in Nat \ {0}
  /\ engine = "closed" => files = {} /\ \A t \in Thread : call[t] = Idle

\* The files of the catalogue and of the checkpoint are numbered below the next
\* one, unless this session has yet to flush, and then its first path is taken.
PathsInv ==
  /\ damaged = {}
  /\ checkpoint.sstables \cup files # {} \/ next_sst_sequence # 1 => Level0Path(1) \in DOMAIN disk
  /\ \/ next_sst_sequence = 1
     \/ \A f \in checkpoint.sstables \cup files : f.sequence_number < next_sst_sequence

\* What the checkpoint names amounts to the log up to its LSN.
CheckpointInv ==
  /\ checkpoint.last_flushed_lsn \in 0 .. Len(wal_file)
  /\ FilesHold(wal_file, disk, checkpoint.sstables, checkpoint.last_flushed_lsn)
  /\ PathsInv

\* No version is acknowledged before it is in the log.
AckedInv ==
  /\ acked_version \in [Key -> Version \cup {NoVersion}]
  /\ \A k \in Key : acked_version[k].id <= writes

\* A flushed file that is not registered yet: it has the entries behind position b.
NewFile(meta, b) ==
  LET seq == next_sst_sequence - 1
      table == disk[Level0Path(seq)]
  IN  /\ seq \in Nat \ {0}
      /\ Level0Path(seq) \in DOMAIN disk
      /\ Holds(wal_file, table, b, Len(wal_file))
      /\ meta = Level0Meta(seq, table, Min(DOMAIN table), Max(DOMAIN table))
      /\ \A f \in checkpoint.sstables \cup files : f.sequence_number < seq

\* A call of which the rest of the engine knows nothing yet.
Apart(c) == c.pc \in {"apply", "lsn", "write", "add"}

\* The call c, when the files of the catalogue amount to the log up to position b.
\* A write is the last entry of the log until it is acknowledged; the table that is
\* flushed has the entries behind b; and a Get has yet to look at every file that
\* has its key.
CallInv(c, b) ==
  LET n == Len(wal_file)
  IN  /\ c.pc \in FlushPcs \cup {"idle", "apply", "look", "search", "got", "join", "gone"}
      /\ c.pc \in {"apply", "look", "search", "got"} => engine = "open"
      /\ c.pc \in {"join", "gone"} => engine = "closing"
      /\ c.pc = "apply" => /\ b < n
                           /\ c = [pc |-> "apply", write |-> wal_file[n].payload]
                           /\ Holds(wal_file, active_memtable, b, n - 1)
      /\ c.pc \in FlushPcs =>
           c.ack = {} \/ (n # 0 /\ c.ack = {wal_file[n].payload} /\ engine = "open")
      /\ (c.pc = "apply" \/ (c.pc \in FlushPcs /\ c.ack # {})) =>
           \A k \in Key : acked_version[k].id < VersionAt(wal_file, n).id
      /\ c.pc \in {"lsn", "write", "add", "files", "save"} => active_memtable = EmptyTable
      /\ c.pc \in {"lsn", "write"} => Holds(wal_file, c.table, b, n)
      /\ c.pc \in {"write", "add", "files"} => c.flush_lsn = n
      /\ c.pc = "add" => NewFile(c.meta, b)
      /\ c.pc \in {"files", "save"} => b = n
      /\ c.pc = "save" => c.cp = [last_flushed_lsn |-> n, sstables |-> files]
      /\ c.pc \in {"look", "search"} =>
           /\ c.key \in Key
           /\ c.key \in DOMAIN active_memtable => active_memtable[c.key].kind = "delete"
      /\ c.pc = "search" =>
           /\ c = [pc |-> "search", key |-> c.key, latest |-> c.latest, left |-> c.left]
           /\ c.left \subseteq files
           /\ \A f \in files : HasKey(disk, f, c.key) => f \in c.left

\* The files amount to the log up to position b and, unless a call has it, the
\* memtable to the rest.
CutAt(b) ==
  /\ FilesHold(wal_file, disk, files, b)
  /\ \A t \in Thread : CallInv(call[t], b)
  /\ (\A t \in Thread : ~ Apart(call[t])) => Holds(wal_file, active_memtable, b, Len(wal_file))

\* The inductive invariant behind recovery and the refinement.
RecoveryInv ==
  /\ SerialLog /\ SessionInv /\ CheckpointInv /\ AckedInv
  /\ engine # "closed" => \E b \in 0 .. Len(wal_file) : CutAt(b)
----------------------------------------------------------------------------
(* Steps of a client.                                                      *)

\* What the invariant says of the types of the log and the counters, and of a call.
LEMMA InvTypes ==
  ASSUME RecoveryInv
  PROVE  /\ DOMAIN call = Thread /\ Whole(wal_file) /\ wal_file \in EngineLog
         /\ Len(wal_file) \in Nat /\ next_sst_sequence \in Nat \ {0}
         /\ \A t \in Thread : call[t].pc # "idle" => engine # "closed"
<1>1. SerialLog /\ SessionInv
  BY Zenon DEF RecoveryInv
<1>2. Whole(wal_file) /\ wal_file \in EngineLog /\ Len(wal_file) \in Nat
  BY <1>1 DEF SerialLog, Whole, EngineLog
<1>3. /\ DOMAIN call = Thread /\ next_sst_sequence \in Nat \ {0}
      /\ \A t \in Thread : call[t].pc # "idle" => engine # "closed"
  BY <1>1 DEF SessionInv, Idle
<1> QED
  BY <1>2, <1>3, Zenon

\* In a step of one client the others are idle before and after.
LEMMA OthersIdle ==
  ASSUME DOMAIN call = Thread, Serial, Serial', NEW t \in Thread, NEW c, Goto(t, c),
         call[t].pc # "idle" \/ c.pc # "idle"
  PROVE  /\ call'[t] = c /\ DOMAIN call' = Thread
         /\ \A u \in Thread \ {t} : call[u].pc = "idle" /\ call'[u] = call[u]
<1>1. call'[t] = c /\ DOMAIN call' = Thread /\ \A u \in Thread \ {t} : call'[u] = call[u]
  BY DEF Goto
<1>2. ASSUME NEW u \in Thread \ {t} PROVE call[u].pc = "idle"
  BY <1>1, Zenon DEF Serial, At
<1> QED
  BY <1>1, <1>2

\* What the invariant says of a call that is the only one.
LEMMA OnlyCall ==
  ASSUME RecoveryInv, engine # "closed", NEW t \in Thread,
         \A u \in Thread \ {t} : call[u].pc = "idle"
  PROVE  \E b \in 0 .. Len(wal_file) :
           /\ FilesHold(wal_file, disk, files, b)
           /\ CallInv(call[t], b)
           /\ ~ Apart(call[t]) => Holds(wal_file, active_memtable, b, Len(wal_file))
<1>1. PICK b \in 0 .. Len(wal_file) : CutAt(b)
  BY Zenon DEF RecoveryInv
<1>2. \A u \in Thread \ {t} : ~ Apart(call[u])
  BY DEF Apart
<1> QED
  BY <1>1, <1>2, Zenon DEF CutAt

\* And what there is to show of it after a step.
LEMMA OnlyCallAfter ==
  ASSUME NEW t \in Thread, NEW c, call'[t] = c,
         \A u \in Thread \ {t} : call'[u].pc = "idle",
         NEW b, FilesHold(wal_file', disk', files', b), CallInv(c, b)',
         ~ Apart(c) => Holds(wal_file', active_memtable', b, Len(wal_file'))
  PROVE  CutAt(b)'
<1>1. \A d : (d.pc = "idle") => CallInv(d, b)'
  BY SMTT(30) DEF CallInv, FlushPcs
<1>2. \A u \in Thread : CallInv(call[u], b)'
  <2> SUFFICES ASSUME NEW u \in Thread PROVE CallInv(call[u], b)'
    OBVIOUS
  <2>1. PICK d : d = call'[u]
    OBVIOUS
  <2>2. CallInv(d, b)'
    BY <1>1, <2>1, Zenon
  <2> QED
    BY <2>1, <2>2, ZenonT(30) DEF CallInv, NewFile, VersionAt
<1>3. (\A u \in Thread : ~ Apart(call'[u])) => ~ Apart(c)
  BY ZenonT(30) DEF Apart
<1>4. (\A u \in Thread : ~ Apart(call[u]))' => Holds(wal_file, active_memtable, b, Len(wal_file))'
  BY <1>3 DEF Apart, Holds
<1> QED
  BY <1>2, <1>4, Zenon DEF CutAt

\* What most steps leave alone.
Still == UNCHANGED <<walVars, files, disk, damaged, engine, loop, writes, next_sst_sequence>>

\* A step that neither writes nor opens or closes the engine keeps the rest.
LEMMA StillKeeps ==
  ASSUME SerialLog, SessionInv, Still, engine # "closed", DOMAIN call' = Thread
  PROVE  SerialLog' /\ SessionInv'
<1>1. SerialLog'
  BY DEF Still, SerialLog, walVars
<1>2. SessionInv'
  BY DEF Still, SessionInv
<1> QED
  BY <1>1, <1>2, Zenon

\* Nor does such a step change what the checkpoint holds.
LEMMA StillCheckpoint ==
  ASSUME CheckpointInv, Still, checkpoint' = checkpoint
  PROVE  CheckpointInv'
BY DEF Still, CheckpointInv, PathsInv, walVars

\* Without a fault the log takes the entry.
LEMMA WriteAppends ==
  ASSUME RecoveryInv, Quiet, Quiet', NEW t \in Thread, NEW k \in Key,
         NEW kind \in {"put", "delete"}, WriteEntry(t, kind, k), NEW w, NEW c,
         w = [key |-> k, version |-> [id |-> writes + 1, kind |-> kind]],
         c = [pc |-> "apply", write |-> w]
  PROVE  AppendOk(w) /\ Goto(t, c) /\ writes < MaxWrites
<1>1. /\ (WALAppend(w, "ok") /\ Goto(t, c)) \/ WALAppend(w, "error")
      /\ writes < MaxWrites
  BY Zenon DEF WriteEntry
<1>2. faults = 0 /\ faults' = 0
  BY DEF Quiet, Undisturbed
<1>3. write_file = "good"
  BY DEF RecoveryInv, SerialLog, WriteEntry
<1>4. ~ WALAppend(w, "error")
  BY <1>2, <1>3 DEF WALAppend, AppendWriteFails, AppendOnBadStream
<1>5. ~ AppendFlushFails(w)
  BY <1>2 DEF AppendFlushFails
<1> QED
  BY <1>1, <1>4, <1>5, Zenon DEF WALAppend

\* The next write.
Entry(k, kind) == [key |-> k, version |-> [id |-> writes + 1, kind |-> kind]]

\* It is at the end of the log, in full.
Logs(k, kind) ==
  /\ k \in Key /\ kind \in {"put", "delete"}
  /\ writes < MaxWrites /\ writes' = writes + 1
  /\ wal_file' = Append(wal_file, [lsn |-> Len(wal_file) + 1, payload |-> Entry(k, kind),
                                   crc |-> "match"])

\* Such a log stays whole, and files hold what they held of it.
LEMMA LogGrows ==
  ASSUME RecoveryInv, Undisturbed', NEW k, NEW kind, Logs(k, kind),
         NEW w, Entry(k, kind) = w, NEW new, new = wal_file'
  PROVE  /\ w.key \in Key /\ w.version \in Version /\ w.version.id = writes + 1
         /\ Whole(new) /\ new \in EngineLog /\ new[Len(wal_file) + 1].payload = w
         /\ Len(new) = Len(wal_file) + 1
         /\ \A i \in 1 .. Len(new) : VersionAt(new, i).id <= writes'
         /\ \A d, S : \A hi \in 0 .. Len(wal_file) :
              FilesHold(wal_file, d, S, hi) => FilesHold(new, d, S, hi)
<1>1. PICK log, n, r : /\ log = wal_file /\ n = Len(wal_file)
                       /\ r = [lsn |-> n + 1, payload |-> w, crc |-> "match"]
  BY Zenon
<1>2. /\ k \in Key /\ kind \in {"put", "delete"} /\ writes < MaxWrites /\ writes' = writes + 1
      /\ new = Append(log, r)
  BY <1>1, Zenon DEF Logs
<1>3. /\ log \in EngineLog /\ n \in Nat /\ writes \in Nat /\ Settled(log)
      /\ \A i \in 1 .. n : log[i].lsn = i /\ VersionAt(log, i).id <= writes
      /\ \A i, j \in 1 .. n : i < j => VersionAt(log, i).id < VersionAt(log, j).id
  BY <1>1 DEF RecoveryInv, SerialLog, Whole, EngineLog
<1>4. w.key \in Key /\ w.version \in Version /\ w.version.id = writes + 1
  <2>1. [id |-> writes + 1, kind |-> kind] \in [id : 1 .. MaxWrites, kind : {"put", "delete"}]
    BY <1>2, <1>3, EngineConstants, SMTT(30)
  <2>2. [id |-> writes + 1, kind |-> kind] \in Version
    BY <2>1, EngineConstants, Zenon
  <2> QED
    BY <1>2, <2>2, Zenon DEF Entry
<1>5. r \in EngineRecord /\ r.lsn = n + 1 /\ r.payload = w
  <2>1. w \in [key : Key, version : Version]
    BY <1>2, <1>4 DEF Entry
  <2> QED
    BY <1>1, <1>3, <2>1 DEF EngineRecord
<1>6. /\ new \in EngineLog /\ Len(new) = n + 1 /\ new[n + 1] = r /\ DOMAIN new = 1 .. n + 1
      /\ \A i \in 1 .. n : new[i] = log[i]
  <2>1. log \in Seq(EngineRecord) /\ Len(log) = n
    BY <1>1, <1>3, Zenon DEF EngineLog
  <2> QED
    BY <1>2, <1>3, <1>5, <2>1, SMTT(30) DEF EngineLog
<1>7. /\ \A i \in 1 .. n : VersionAt(new, i) = VersionAt(log, i) /\ new[i].lsn = i
      /\ VersionAt(new, n + 1).id = writes + 1 /\ new[n + 1].lsn = n + 1
  BY <1>3, <1>4, <1>5, <1>6, Zenon DEF VersionAt
<1>8. \A i \in 1 .. n + 1 : VersionAt(new, i).id \in Nat
  BY <1>6, EntryType, Zenon
<1>9. \A i \in 1 .. n + 1 : i \in 1 .. n \/ i = n + 1
  BY <1>3
<1>10. \A i \in 1 .. n + 1 : VersionAt(new, i).id <= writes + 1
  <2>1. \A i \in 1 .. n : VersionAt(new, i).id <= writes
    BY <1>3, <1>7, Zenon
  <2> QED
    BY <1>3, <1>7, <1>8, <1>9, <2>1, SMTT(30)
<1>11. \A i, j \in 1 .. n + 1 : i < j => VersionAt(new, i).id < VersionAt(new, j).id
  <2> SUFFICES ASSUME NEW i \in 1 .. n + 1, NEW j \in 1 .. n + 1, i < j
               PROVE  VersionAt(new, i).id < VersionAt(new, j).id
    BY Zenon
  <2>1. i \in 1 .. n
    BY <1>3
  <2>2. CASE j \in 1 .. n
    BY <1>3, <1>7, <2>1, <2>2, Zenon
  <2>3. CASE j = n + 1
    <3>1. VersionAt(new, i).id <= writes
      BY <1>3, <1>7, <2>1, Zenon
    <3> QED
      BY <1>3, <1>7, <1>8, <2>3, <3>1, SMTT(30)
  <2> QED
    BY <1>9, <2>2, <2>3, Zenon
<1>12. \A i \in 1 .. n + 1 : new[i].lsn = i /\ ~ Stops(new[i])
  BY <1>6, <1>7, <1>9, Zenon DEF Undisturbed, Stops
<1>13. Settled(new)
  BY <1>2, <1>3, <1>5, AppendSettles, Zenon
<1>14. Whole(new)
  BY <1>6, <1>11, <1>12, <1>13, Zenon DEF Whole
<1>15. \A d, S : \A hi \in 0 .. n : FilesHold(log, d, S, hi) => FilesHold(new, d, S, hi)
  BY <1>2, <1>1, <1>3, AppendKeepsFiles, Zenon
<1>16. new[n + 1].payload = w
  BY <1>5, <1>6, Zenon
<1> QED
  BY <1>2, <1>1, <1>4, <1>6, <1>10, <1>14, <1>15, <1>16, Zenon

\* A write puts its entry at the end of the log (WriteEntry).
LEMMA WriteKeeps ==
  ASSUME RecoveryInv, Quiet, Quiet', NEW t \in Thread, NEW k \in Key,
         NEW kind \in {"put", "delete"}, WriteEntry(t, kind, k)
  PROVE  RecoveryInv'
<1>1. PICK log, n : log = wal_file /\ n = Len(wal_file)
  BY Zenon
<1>2. /\ log \in EngineLog /\ n \in Nat /\ writes \in Nat /\ write_file = "good"
      /\ next_sequence_number = n + 1 /\ unflushed = <<>> /\ engine = "open"
  BY <1>1 DEF RecoveryInv, SerialLog, Whole, EngineLog, WriteEntry
<1>3. PICK w : w = [key |-> k, version |-> [id |-> writes + 1, kind |-> kind]]
  BY Zenon
<1>4. PICK c : c = [pc |-> "apply", write |-> w]
  BY Zenon
<1>5. AppendOk(w) /\ Goto(t, c) /\ writes < MaxWrites
  BY <1>3, <1>4, WriteAppends, Zenon
<1>6. PICK r : r = [lsn |-> n + 1, payload |-> w, crc |-> "match"]
  BY Zenon
<1>7. /\ wal_file' = Append(log, r) /\ write_file' = "good" /\ unflushed' = <<>>
      /\ next_sequence_number' = n + 2
  <2>1. /\ wal_file' = Append(log, Stamped(w)) /\ UNCHANGED <<write_file, unflushed>>
        /\ next_sequence_number' = next_sequence_number + 1
    BY <1>1, <1>5, Zenon DEF AppendOk
  <2>2. Stamped(w) = r
    BY <1>2, <1>6, Zenon DEF Stamped
  <2> QED
    BY <1>2, <2>1, <2>2
<1>8. PICK new : new = wal_file'
  OBVIOUS
<1>9. /\ UNCHANGED <<files, disk, damaged, engine, loop, active_memtable, acked_version,
                     next_sst_sequence, checkpoint>>
      /\ writes' = writes + 1
  BY <1>2, Zenon DEF WriteEntry, compactionVars, sessionVars, loopVars
<1>10. /\ w.key \in Key /\ w.version \in Version /\ w.version.id = writes + 1
       /\ Whole(new) /\ new \in EngineLog
       /\ Len(new) = n + 1 /\ new[n + 1].payload = w
       /\ \A i \in 1 .. Len(new) : VersionAt(new, i).id <= writes'
       /\ \A d, S : \A hi \in 0 .. n : FilesHold(log, d, S, hi) => FilesHold(new, d, S, hi)
  <2>1. Undisturbed'
    BY Zenon DEF Quiet
  <2>2. Logs(k, kind)
    BY <1>1, <1>3, <1>5, <1>6, <1>7, <1>9, Zenon DEF Logs, Entry
  <2>3. /\ w.key \in Key /\ w.version \in Version /\ w.version.id = writes + 1
        /\ Whole(new) /\ new \in EngineLog /\ new[Len(wal_file) + 1].payload = w
        /\ Len(new) = Len(wal_file) + 1
        /\ \A i \in 1 .. Len(new) : VersionAt(new, i).id <= writes'
        /\ \A d, S : \A hi \in 0 .. Len(wal_file) :
             FilesHold(wal_file, d, S, hi) => FilesHold(new, d, S, hi)
    <3>1. Entry(k, kind) = w
      BY <1>3, Zenon DEF Entry
    <3> QED
      BY <1>8, <2>1, <2>2, <3>1, LogGrows, ZenonT(30)
  <2> QED
    BY <1>1, <2>3, Zenon
<1>11. SerialLog'
  <2>1. writes' \in Nat
    BY <1>2, <1>9
  <2>2. n + 2 = Len(new) + 1
    BY <1>2, <1>10
  <2> QED
    BY <1>2, <1>7, <1>8, <1>9, <1>10, <2>1, <2>2, Zenon DEF SerialLog
<1>12. /\ call'[t] = c /\ DOMAIN call' = Thread
       /\ \A u \in Thread \ {t} : call[u].pc = "idle" /\ call'[u] = call[u]
  <2>1. c.pc # "idle" /\ DOMAIN call = Thread
    BY <1>4, SMTT(30) DEF RecoveryInv, SessionInv
  <2> QED
    BY <1>5, <2>1, OthersIdle, Zenon DEF Quiet
<1>13. SessionInv'
  BY <1>2, <1>9, <1>12, ZenonT(30) DEF RecoveryInv, SessionInv
<1>14. CheckpointInv'
  <2>1. PICK l, S : l = checkpoint.last_flushed_lsn /\ S = checkpoint.sstables
    BY SMTT(30)
  <2>2. l \in 0 .. n /\ l \in 0 .. n + 1 /\ FilesHold(log, disk, S, l) /\ PathsInv
    BY <1>1, <1>2, <2>1 DEF RecoveryInv, CheckpointInv
  <2>3. FilesHold(new, disk, S, l)
    BY <1>10, <2>2, Zenon
  <2>4. PathsInv'
    BY <1>9, <2>2, Zenon DEF PathsInv
  <2> QED
    BY <1>8, <1>9, <1>10, <2>1, <2>2, <2>3, <2>4, Zenon DEF CheckpointInv
<1>15. AckedInv' /\ \A x \in Key : acked_version'[x].id < writes + 1
  <2>1. \A x \in Key : acked_version[x].id <= writes /\ acked_version[x].id \in Nat
    <3>1. \A v \in Version \cup {NoVersion} : v.id \in Nat
      BY CompactionConstants DEF NoVersion
    <3>2. \A x \in Key : acked_version[x] \in Version \cup {NoVersion}
      BY DEF RecoveryInv, AckedInv
    <3> QED
      BY <1>1, <3>1, <3>2 DEF RecoveryInv, AckedInv
  <2>2. \A x \in Key : acked_version[x].id < writes + 1 /\ acked_version[x].id <= writes + 1
    BY <1>2, <2>1, SMTT(30)
  <2> QED
    BY <1>9, <2>2, ZenonT(30) DEF RecoveryInv, AckedInv
<1>16. PICK b \in 0 .. n : /\ FilesHold(log, disk, files, b)
                           /\ Holds(log, active_memtable, b, n)
  <2>1. call[t].pc = "idle" /\ ~ Apart(call[t])
    BY DEF WriteEntry, At, Apart
  <2> QED
    BY <1>1, <1>2, <1>12, <2>1, OnlyCall, Zenon
<1>17. FilesHold(new, disk, files, b) /\ Holds(new, active_memtable, b, n)
  <2>1. b \in 0 .. n /\ b \in Nat /\ n \in 0 .. Len(log)
    BY <1>1, <1>2, SMTT(30)
  <2> QED
    BY <1>1, <1>2, <1>7, <1>8, <1>10, <1>16, <2>1, AppendKeepsHolds, Zenon
<1>18. b \in 0 .. Len(new) /\ b < n + 1 /\ n + 1 - 1 = n
  BY <1>2, <1>10, SMTT(30)
<1>19. CallInv(c, b)'
  <2>1. c = [pc |-> "apply", write |-> new[n + 1].payload]
    BY <1>4, <1>10, Zenon
  <2>2. c.pc = "apply" /\ Len(wal_file') = n + 1
    BY <1>4, <1>8, <1>10, SMTT(30)
  <2>3. /\ engine' = "open" /\ b < Len(wal_file')
        /\ \A x \in Key : acked_version'[x].id < VersionAt(wal_file', Len(wal_file')).id
    <3>1. VersionAt(new, n + 1).id = writes + 1
      BY <1>10, Zenon DEF VersionAt
    <3> QED
      BY <1>2, <1>8, <1>9, <1>15, <1>18, <2>2, <3>1, Zenon
  <2>4. /\ c = [pc |-> "apply", write |-> wal_file'[Len(wal_file')].payload]
        /\ Holds(wal_file', active_memtable', b, Len(wal_file') - 1)
    <3>1. Holds(wal_file', active_memtable', b, n)
      BY <1>8, <1>9, <1>17, Zenon
    <3>2. wal_file'[Len(wal_file')] = new[n + 1] /\ Len(wal_file') - 1 = n
      BY <1>2, <1>8, <2>2
    <3> QED
      BY <2>1, <3>1, <3>2, Zenon
  <2> QED
    BY <2>2, <2>3, <2>4, ZenonT(30) DEF CallInv, FlushPcs, VersionAt
<1>20. CutAt(b)'
  <2>1. Apart(c)
    BY <1>4 DEF Apart
  <2>2. \A u \in Thread \ {t} : call'[u].pc = "idle"
    BY <1>12, Zenon
  <2> QED
    BY <1>8, <1>9, <1>12, <1>17, <1>19, <2>1, <2>2, OnlyCallAfter, ZenonT(30)
<1> QED
  BY <1>8, <1>11, <1>13, <1>14, <1>15, <1>18, <1>20, Zenon DEF RecoveryInv

\* A call that moves on while log, disk and catalogue stay as they are.
LEMMA CallMoves ==
  ASSUME RecoveryInv, Quiet, Quiet', engine # "closed",
         NEW t \in Thread, NEW c, Goto(t, c), call[t].pc # "idle" \/ c.pc # "idle",
         Still, CheckpointInv', AckedInv',
         \A b \in 0 .. Len(wal_file) :
           /\ FilesHold(wal_file, disk, files, b)
           /\ CallInv(call[t], b)
           /\ ~ Apart(call[t]) => Holds(wal_file, active_memtable, b, Len(wal_file))
           => /\ CallInv(c, b)'
              /\ ~ Apart(c) => Holds(wal_file, active_memtable', b, Len(wal_file))
  PROVE  RecoveryInv'
<1>1. /\ call'[t] = c /\ DOMAIN call' = Thread
      /\ \A u \in Thread \ {t} : call[u].pc = "idle" /\ call'[u] = call[u]
  BY OthersIdle, Zenon DEF RecoveryInv, SessionInv, Quiet
<1>2. PICK b \in 0 .. Len(wal_file) :
        /\ FilesHold(wal_file, disk, files, b)
        /\ CallInv(call[t], b)
        /\ ~ Apart(call[t]) => Holds(wal_file, active_memtable, b, Len(wal_file))
  BY <1>1, OnlyCall, Zenon
<1>3. CallInv(c, b)' /\ (~ Apart(c) => Holds(wal_file, active_memtable', b, Len(wal_file)))
  BY <1>2, Zenon
<1>4. wal_file' = wal_file /\ disk' = disk /\ files' = files /\ engine' = engine
  BY Zenon DEF Still, walVars
<1>5. \A u \in Thread \ {t} : call'[u].pc = "idle"
  BY <1>1, Zenon
<1>6. FilesHold(wal_file', disk', files', b)
  BY <1>2, <1>4, Zenon
<1>7. ~ Apart(c) => Holds(wal_file', active_memtable', b, Len(wal_file'))
  BY <1>3, <1>4, Zenon
<1>8. CutAt(b)'
  BY <1>1, <1>3, <1>5, <1>6, <1>7, OnlyCallAfter, ZenonT(30)
<1>9. SerialLog' /\ SessionInv'
  BY <1>1, StillKeeps, Zenon DEF RecoveryInv
<1>10. b \in 0 .. Len(wal_file')
  BY <1>4, Zenon
<1> QED
  BY <1>8, <1>9, <1>10, Zenon DEF RecoveryInv

\* Versions have numbers.
LEMMA VersionIds ==
  ASSUME AckedInv
  PROVE  \A k \in Key : acked_version[k].id \in Nat
<1>1. \A v \in Version \cup {NoVersion} : v.id \in Nat
  BY CompactionConstants DEF NoVersion
<1>2. \A k \in Key : acked_version[k] \in Version \cup {NoVersion}
  BY DEF AckedInv
<1> QED
  BY <1>1, <1>2, Zenon

\* A call that returns without a write acknowledges nothing.
LEMMA AckNone ==
  ASSUME AckedInv, Acknowledge({})
  PROVE  acked_version' = acked_version
<1>1. acked_version' = [k \in Key |-> acked_version[k]]
  BY SMTT(30) DEF Acknowledge
<1> QED
  BY <1>1 DEF AckedInv

\* A call that returns with the last write of the log acknowledges just that.
LEMMA AckOne ==
  ASSUME SerialLog, Len(wal_file) # 0, AckedInv,
         \A k \in Key : acked_version[k].id < VersionAt(wal_file, Len(wal_file)).id,
         NEW w, w = wal_file[Len(wal_file)].payload, Acknowledge({w})
  PROVE  /\ w.key \in Key /\ w.version \in Version
         /\ acked_version' = [acked_version EXCEPT ![w.key] = w.version]
         /\ writes' = writes => AckedInv'
<1>1. PICK n : n = Len(wal_file)
  BY ZenonT(30)
<1>2. /\ n \in Nat /\ n \in 1 .. n /\ wal_file \in EngineLog /\ writes \in Nat
      /\ VersionAt(wal_file, n).id <= writes
  BY <1>1, SMTT(30) DEF SerialLog, Whole, EngineLog
<1>3. /\ w.key \in Key /\ w.version \in Version /\ w.version = VersionAt(wal_file, n)
      /\ w.version.id \in Nat
  BY <1>1, <1>2, EntryType DEF KeyAt, VersionAt
<1>4. \A k \in Key : acked_version[k].id < w.version.id /\ acked_version[k].id \in Nat
  BY <1>1, <1>3, VersionIds, Zenon
<1>5. acked_version' = [k \in Key |-> IF w.key = k THEN Newer(w.version, acked_version[k])
                                      ELSE acked_version[k]]
  <2>1. \A k \in Key : (\E a \in {w} : a.key = k) <=> w.key = k
    OBVIOUS
  <2>2. (CHOOSE a \in {w} : a.key = w.key) = w
    BY ZenonT(30)
  <2> QED
    BY <2>1, <2>2 DEF Acknowledge
<1>6. Newer(w.version, acked_version[w.key]) = w.version
  BY <1>3, <1>4, SMTT(30) DEF Newer
<1>7. acked_version' = [acked_version EXCEPT ![w.key] = w.version]
  BY <1>5, <1>6, Zenon DEF AckedInv
<1>8. ASSUME writes' = writes PROVE AckedInv'
  <2>1. acked_version' \in [Key -> Version \cup {NoVersion}]
    BY <1>3, <1>7, ZenonT(30) DEF AckedInv
  <2>2. \A k \in Key : acked_version'[k].id <= writes
    BY <1>2, <1>3, <1>7 DEF AckedInv
  <2> QED
    BY <1>8, <2>1, <2>2, ZenonT(30) DEF AckedInv
<1> QED
  BY <1>3, <1>7, <1>8

\* The memtable takes the entry; the call returns or goes on to flush.
LEMMA ApplyKeeps ==
  ASSUME RecoveryInv, Quiet, Quiet', NEW t \in Thread, ApplyToMemTable(t)
  PROVE  RecoveryInv'
<1>1. PICK n, w : n = Len(wal_file) /\ w = wal_file[n].payload
  BY Zenon
<1>2. call[t].pc = "apply" /\ DOMAIN call = Thread /\ Whole(wal_file) /\ n \in Nat
  BY <1>1, InvTypes, Zenon DEF ApplyToMemTable, At
<1>3. engine # "closed"
  BY <1>2, InvTypes, Zenon
<1>4. PICK c : Goto(t, c) /\ c \in {[pc |-> "gone"], Idle, [pc |-> "swap", ack |-> {call[t].write}]}
  BY Zenon DEF ApplyToMemTable, ReturnOk
<1>5. \A u \in Thread \ {t} : call[u].pc = "idle"
  BY <1>2, <1>4, OthersIdle, Zenon DEF Quiet
<1>6. PICK b0 \in 0 .. n : CallInv(call[t], b0)
  BY <1>1, <1>3, <1>5, OnlyCall, Zenon
<1>7. /\ engine = "open" /\ call[t].write = w /\ n # 0 /\ b0 < n
      /\ \A k \in Key : acked_version[k].id < VersionAt(wal_file, n).id
  <2>1. /\ engine = "open" /\ call[t] = [pc |-> "apply", write |-> w] /\ b0 < n
        /\ \A k \in Key : acked_version[k].id < VersionAt(wal_file, n).id
    BY <1>1, <1>2, <1>6, Zenon DEF CallInv
  <2> QED
    BY <1>2, <2>1, <1>6
<1>8. active_memtable' = [k \in DOMAIN active_memtable \cup {w.key} |->
                            IF k = w.key THEN w.version ELSE active_memtable[k]]
  BY <1>7, ZenonT(30) DEF ApplyToMemTable
<1>9. Still /\ CheckpointInv'
  <2>1. Still /\ checkpoint' = checkpoint
    BY Zenon DEF ApplyToMemTable, Still, compactionVars, sessionVars, loopVars
  <2> QED
    BY <2>1, StillCheckpoint, Zenon DEF RecoveryInv
<1>10. \/ Goto(t, Idle) /\ Acknowledge({w})
       \/ Goto(t, [pc |-> "swap", ack |-> {w}]) /\ acked_version' = acked_version
  BY <1>7, ZenonT(30) DEF ApplyToMemTable, ReturnOk
<1>11. AckedInv /\ SerialLog /\ wal_file' = wal_file /\ writes' = writes
  BY <1>9, Zenon DEF RecoveryInv, Still, walVars
<1>12. AckedInv'
  <2>1. CASE Acknowledge({w})
    BY <1>1, <1>2, <1>7, <1>11, <2>1, AckOne, ZenonT(30)
  <2>2. CASE acked_version' = acked_version
    BY <1>11, <2>2 DEF AckedInv
  <2> QED
    BY <1>10, <2>1, <2>2, Zenon
<1>13. ASSUME NEW b \in 0 .. n, CallInv(call[t], b)
       PROVE  Holds(wal_file, active_memtable', b, n)
  <2>1. b < n /\ Holds(wal_file, active_memtable, b, n - 1)
    BY <1>1, <1>2, <1>13, ZenonT(30) DEF CallInv
  <2>2. wal_file \in EngineLog /\ b \in Nat
    BY <1>2, <1>13, InvTypes
  <2>3. Holds(wal_file, WithWrite(active_memtable, wal_file[n].payload), b, n)
    BY <1>1, <2>1, <2>2, HoldsOneMore, Zenon
  <2>4. active_memtable' = WithWrite(active_memtable, w)
    BY <1>8, Zenon DEF WithWrite
  <2> QED
    BY <1>1, <2>3, <2>4, Zenon
<1>14. CASE Goto(t, Idle)
  <2>1. \A b : CallInv(Idle, b)'
    BY ZenonT(30) DEF CallInv, FlushPcs, Idle
  <2>2. PICK d : d = Idle
    OBVIOUS
  <2>3. \A b : CallInv(d, b)'
    BY <2>1, <2>2, Zenon DEF Idle
  <2> QED
    BY <1>1, <1>2, <1>3, <1>7, <1>9, <1>12, <1>13, <1>14, <2>2, <2>3, CallMoves, Zenon
<1>15. CASE Goto(t, [pc |-> "swap", ack |-> {w}]) /\ acked_version' = acked_version
  <2>1. PICK d : d = [pc |-> "swap", ack |-> {w}]
    BY Zenon
  <2>2. d.pc = "swap" /\ d.ack = {w}
    BY <2>1
  <2>3. engine' = "open"
    BY <1>7, <1>9, Zenon DEF Still
  <2>4. ASSUME NEW b PROVE CallInv(d, b)'
    BY <1>1, <1>7, <1>11, <1>15, <2>2, <2>3, ZenonT(30) DEF CallInv, FlushPcs, VersionAt
  <2> QED
    BY <1>1, <1>2, <1>3, <1>7, <1>9, <1>12, <1>13, <1>15, <2>1, <2>4, CallMoves, Zenon
<1> QED
  BY <1>10, <1>14, <1>15, Zenon

\* A client asks for a flush (Flush).
LEMMA CallFlushKeeps ==
  ASSUME RecoveryInv, Quiet, Quiet', NEW t \in Thread, CallFlush(t)
  PROVE  RecoveryInv'
<1>1. PICK c : c = [pc |-> "swap", ack |-> {}]
  BY Zenon
<1>2. /\ Goto(t, c) /\ c.pc = "swap" /\ c.ack = {} /\ call[t].pc = "idle" /\ engine = "open"
  BY <1>1, ZenonT(30) DEF CallFlush, At
<1>3. Still /\ checkpoint' = checkpoint /\ active_memtable' = active_memtable
      /\ acked_version' = acked_version
  BY Zenon DEF CallFlush, Still, compactionVars, sessionVars, loopVars
<1>4. engine' = "open" /\ wal_file' = wal_file /\ writes' = writes
  BY <1>2, <1>3, Zenon DEF Still, walVars
<1>5. AckedInv' /\ CheckpointInv'
  BY <1>3, <1>4, StillCheckpoint, Zenon DEF RecoveryInv, AckedInv
<1>6. \A b : CallInv(c, b)'
  BY <1>2, <1>4, ZenonT(30) DEF CallInv, FlushPcs
<1>7. ~ Apart(call[t])
  <2>1. call[t].pc = "idle"
    BY <1>2, Zenon
  <2> QED
    BY <2>1, Zenon DEF Apart
<1>8. engine # "closed" /\ (call[t].pc # "idle" \/ c.pc # "idle")
  BY <1>2, Zenon
<1> QED
  BY <1>2, <1>3, <1>5, <1>6, <1>7, <1>8, CallMoves, Zenon

\* What is acknowledged when a flush is over.
LEMMA FlushAcks ==
  ASSUME RecoveryInv, engine # "closed", NEW t \in Thread, call[t].pc \in FlushPcs,
         \A u \in Thread \ {t} : call[u].pc = "idle",
         Acknowledge(call[t].ack), writes' = writes
  PROVE  AckedInv'
<1>1. PICK b \in 0 .. Len(wal_file) : CallInv(call[t], b)
  BY OnlyCall, Zenon
<1>2. AckedInv /\ SerialLog
  BY Zenon DEF RecoveryInv
<1>3. CASE call[t].ack = {}
  <2>1. acked_version' = acked_version
    BY <1>2, <1>3, AckNone
  <2> QED
    BY <1>2, <2>1 DEF AckedInv
<1>4. CASE call[t].ack # {}
  <2>1. /\ Len(wal_file) # 0
        /\ call[t].ack = {wal_file[Len(wal_file)].payload}
        /\ \A k \in Key : acked_version[k].id < VersionAt(wal_file, Len(wal_file)).id
    BY <1>1, <1>4, ZenonT(30) DEF CallInv
  <2>2. PICK w : w = wal_file[Len(wal_file)].payload
    BY ZenonT(30)
  <2>3. Acknowledge({w})
    BY <2>1, <2>2, ZenonT(30) DEF Acknowledge
  <2> QED
    BY <1>2, <2>1, <2>2, <2>3, AckOne, Zenon
<1> QED
  BY <1>3, <1>4

\* A call that returns and leaves the engine's state alone.
LEMMA ReturnKeeps ==
  ASSUME RecoveryInv, Quiet, Quiet', engine # "closed", NEW t \in Thread,
         call[t].pc # "idle", ~ Apart(call[t]),
         Goto(t, IF engine = "closing" THEN [pc |-> "gone"] ELSE Idle),
         Still, CheckpointInv', AckedInv', active_memtable' = active_memtable
  PROVE  RecoveryInv'
<1>1. PICK c : c = IF engine = "closing" THEN [pc |-> "gone"] ELSE Idle
  OBVIOUS
<1>2. Goto(t, c)
  BY <1>1, Zenon
<1>3. c.pc = "idle" \/ (c.pc = "gone" /\ engine = "closing")
  BY <1>1 DEF Idle
<1>4. engine' = engine
  BY Zenon DEF Still
<1>5. \A b : CallInv(c, b)'
  BY <1>3, <1>4 DEF CallInv, FlushPcs
<1> QED
  BY <1>2, <1>5, CallMoves, Zenon

\* The memtable is swapped for an empty one, unless it is empty.
LEMMA SwapKeeps ==
  ASSUME RecoveryInv, Quiet, Quiet', NEW t \in Thread, SwapMemTable(t)
  PROVE  RecoveryInv'
<1>1. call[t].pc = "swap" /\ call[t].pc # "idle" /\ call[t].pc \in FlushPcs /\ ~ Apart(call[t])
  BY ZenonT(30) DEF SwapMemTable, At, FlushPcs, Apart
<1>2. engine # "closed" /\ DOMAIN call = Thread
  BY <1>1, InvTypes, Zenon
<1>3. Still /\ checkpoint' = checkpoint
  BY Zenon DEF SwapMemTable, Still, compactionVars, sessionVars, loopVars
<1>4. CheckpointInv' /\ wal_file' = wal_file /\ engine' = engine /\ writes' = writes
  BY <1>3, StillCheckpoint, Zenon DEF RecoveryInv, Still, walVars
<1>5. CASE /\ active_memtable' = active_memtable
           /\ ReturnOk(t, call[t].ack)
  <2>1. \A u \in Thread \ {t} : call[u].pc = "idle"
    BY <1>1, <1>2, <1>5, OthersIdle, Zenon DEF ReturnOk, Quiet
  <2>2. AckedInv'
    BY <1>1, <1>2, <1>4, <1>5, <2>1, FlushAcks, Zenon DEF ReturnOk
  <2> QED
    BY <1>1, <1>2, <1>3, <1>4, <1>5, <2>2, ReturnKeeps, Zenon DEF ReturnOk
<1>6. CASE /\ Goto(t, [pc |-> "lsn", ack |-> call[t].ack, table |-> active_memtable])
           /\ active_memtable' = EmptyTable /\ acked_version' = acked_version
  <2>1. PICK c : c = [pc |-> "lsn", ack |-> call[t].ack, table |-> active_memtable]
    BY Zenon
  <2>2. /\ Goto(t, c) /\ c.pc = "lsn" /\ c.pc # "idle" /\ c.ack = call[t].ack
        /\ c.table = active_memtable
    BY <1>6, <2>1
  <2>3. AckedInv'
    BY <1>4, <1>6, ZenonT(30) DEF RecoveryInv, AckedInv
  <2>4. ASSUME NEW b \in 0 .. Len(wal_file), CallInv(call[t], b),
               Holds(wal_file, active_memtable, b, Len(wal_file))
        PROVE  CallInv(c, b)'
    <3>1. /\ \/ c.ack = {}
             \/ /\ Len(wal_file) # 0 /\ c.ack = {wal_file[Len(wal_file)].payload}
                /\ engine = "open"
          /\ c.ack # {} =>
               \A k \in Key : acked_version[k].id < VersionAt(wal_file, Len(wal_file)).id
      BY <1>1, <2>2, <2>4, ZenonT(30) DEF CallInv
    <3>2. Holds(wal_file, c.table, b, Len(wal_file))
      BY <2>2, <2>4, Zenon
    <3> QED
      BY <1>4, <1>6, <2>2, <3>1, <3>2, ZenonT(30) DEF CallInv, FlushPcs, VersionAt
  <2>5. Apart(c)
    BY <2>2 DEF Apart
  <2> QED
    BY <1>1, <1>2, <1>3, <1>4, <2>2, <2>3, <2>4, <2>5, CallMoves, Zenon
<1> QED
  BY <1>5, <1>6, Zenon DEF SwapMemTable

\* What the steps of a flush between the swap and the return have in common.
LEMMA FlushMoves ==
  ASSUME RecoveryInv, Quiet, Quiet', NEW t \in Thread, NEW c, Goto(t, c),
         call[t].pc \in {"lsn", "files"}, c.pc \in {"write", "save"},
         c.pc = "write" <=> call[t].pc = "lsn",
         c.ack = call[t].ack,
         Still, UNCHANGED <<checkpoint, acked_version, active_memtable>>,
         c.pc = "write" => c.table = call[t].table /\ c.flush_lsn = Len(wal_file),
         c.pc = "save" => c.cp = [last_flushed_lsn |-> Len(wal_file), sstables |-> files]
  PROVE  RecoveryInv'
<1>1. engine # "closed" /\ call[t].pc # "idle"
  BY InvTypes
<1>2. /\ CheckpointInv' /\ wal_file' = wal_file /\ engine' = engine /\ writes' = writes
      /\ files' = files
  BY StillCheckpoint, Zenon DEF RecoveryInv, Still, walVars
<1>3. AckedInv'
  BY <1>2, SMTT(30) DEF RecoveryInv, AckedInv
<1>4. ASSUME NEW b \in 0 .. Len(wal_file), CallInv(call[t], b)
      PROVE  CallInv(c, b)'
  <2>1. /\ active_memtable = EmptyTable
        /\ \/ c.ack = {}
           \/ /\ Len(wal_file) # 0 /\ c.ack = {wal_file[Len(wal_file)].payload}
              /\ engine = "open"
        /\ c.ack # {} =>
               \A k \in Key : acked_version[k].id < VersionAt(wal_file, Len(wal_file)).id
    BY <1>4, ZenonT(30) DEF CallInv, FlushPcs
  <2>2. call[t].pc = "lsn" => Holds(wal_file, call[t].table, b, Len(wal_file))
    BY <1>4, ZenonT(30) DEF CallInv
  <2>3. call[t].pc = "files" => b = Len(wal_file)
    BY <1>4, ZenonT(30) DEF CallInv
  <2>4. c.pc = "write" => Holds(wal_file, c.table, b, Len(wal_file))
    BY <2>2, Zenon
  <2>5. c.pc = "save" => b = Len(wal_file)
    BY <2>3, ZenonT(30)
  <2> QED
    BY <1>2, <2>1, <2>4, <2>5, ZenonT(30) DEF CallInv, FlushPcs, VersionAt
<1>5. (~ Apart(c)) => ~ Apart(call[t])
  BY SMTT(30) DEF Apart
<1> QED
  BY <1>1, <1>2, <1>3, <1>4, <1>5, CallMoves, Zenon

\* The LSN of the flush is that of the last entry of the log.
LEMMA CaptureKeeps ==
  ASSUME RecoveryInv, Quiet, Quiet', NEW t \in Thread, CaptureFlushLsn(t)
  PROVE  RecoveryInv'
<1>1. PICK c : c = [pc |-> "write", ack |-> call[t].ack, table |-> call[t].table,
                    flush_lsn |-> current_sequence_number]
  BY Zenon
<1>2. /\ Goto(t, c) /\ c.pc = "write" /\ c.ack = call[t].ack /\ c.table = call[t].table
      /\ c.flush_lsn = next_sequence_number - 1
      /\ call[t].pc = "lsn"
  BY <1>1, ZenonT(30) DEF CaptureFlushLsn, At, current_sequence_number
<1>3. Still /\ UNCHANGED <<checkpoint, acked_version, active_memtable>>
  BY Zenon DEF CaptureFlushLsn, Still, compactionVars, sessionVars, loopVars
<1>4. c.flush_lsn = Len(wal_file)
  <2>1. engine # "closed"
    BY <1>2, InvTypes, Zenon
  <2>2. next_sequence_number = Len(wal_file) + 1 /\ Len(wal_file) \in Nat
    BY <2>1, SMTT(30) DEF RecoveryInv, SerialLog, Whole, EngineLog
  <2> QED
    BY <1>2, <2>2, SMTT(30)
<1> QED
  BY <1>2, <1>3, <1>4, FlushMoves, ZenonT(30)

\* The checkpoint to save names every file of the catalogue.
LEMMA CollectKeeps ==
  ASSUME RecoveryInv, Quiet, Quiet', NEW t \in Thread, CollectFiles(t)
  PROVE  RecoveryInv'
<1>1. PICK c : c = [pc |-> "save", ack |-> call[t].ack,
                    cp |-> [last_flushed_lsn |-> call[t].flush_lsn, sstables |-> files]]
  BY Zenon
<1>2. /\ Goto(t, c) /\ c.pc = "save" /\ c.ack = call[t].ack
      /\ c.cp = [last_flushed_lsn |-> call[t].flush_lsn, sstables |-> files]
      /\ call[t].pc = "files"
  BY <1>1, ZenonT(30) DEF CollectFiles, At
<1>3. Still /\ UNCHANGED <<checkpoint, acked_version, active_memtable>>
  BY Zenon DEF CollectFiles, Still, compactionVars, sessionVars, loopVars
<1>4. call[t].flush_lsn = Len(wal_file)
  <2>1. engine # "closed"
    BY <1>2, InvTypes, Zenon
  <2>2. PICK b \in 0 .. Len(wal_file) : CutAt(b)
    BY <2>1, Zenon DEF RecoveryInv
  <2>3. CallInv(call[t], b)
    BY <2>2, Zenon DEF CutAt
  <2> QED
    BY <1>2, <2>3, ZenonT(30) DEF CallInv
<1> QED
  BY <1>2, <1>3, <1>4, FlushMoves, ZenonT(30)

\* The new file is written under a path that no file of the catalogue or of the
\* checkpoint has.
LEMMA WriteLevel0Keeps ==
  ASSUME RecoveryInv, Quiet, Quiet', NEW t \in Thread, WriteLevel0(t)
  PROVE  RecoveryInv'
<1>1. PICK seq, T, log, n : /\ seq = next_sst_sequence /\ T = call[t].table
                            /\ log = wal_file /\ n = Len(wal_file)
  BY Zenon
<1>2. PICK c : c = [pc |-> "add", ack |-> call[t].ack, flush_lsn |-> call[t].flush_lsn,
                    meta |-> Level0Meta(seq, T, Min(DOMAIN T), Max(DOMAIN T))]
  BY Zenon
<1>3. call[t].pc = "write" /\ call[t].pc # "idle"
  BY ZenonT(30) DEF WriteLevel0, At
<1>4. engine # "closed" /\ DOMAIN call = Thread /\ seq \in Nat \ {0}
  BY <1>1, <1>3, InvTypes, Zenon
<1>5. /\ Goto(t, c) /\ next_sst_sequence' = seq + 1
      /\ disk' = WithTable(Level0Path(seq), T) /\ damaged' = damaged \ {Level0Path(seq)}
      /\ UNCHANGED <<walVars, files, sessionVars, loopVars, active_memtable, writes,
                     checkpoint, acked_version>>
      /\ Level0Path(seq) \notin DOMAIN disk
  <2>1. io_errors = 0 /\ ~ (io_errors' = io_errors + 1) /\ ~ overwritten'
    BY DEF Quiet, Undisturbed
  <2> QED
    BY <1>1, <1>2, <2>1, Zenon DEF WriteLevel0, TakesNextPath
<1>6. /\ wal_file' = log /\ files' = files /\ engine' = engine /\ loop' = loop
  BY <1>1, <1>5, Zenon DEF walVars, sessionVars, loopVars
<1>7. /\ call'[t] = c /\ DOMAIN call' = Thread
      /\ \A u \in Thread \ {t} : call[u].pc = "idle" /\ call'[u] = call[u]
  BY <1>3, <1>4, <1>5, OthersIdle, Zenon DEF Quiet
<1>8. PICK b \in 0 .. n : FilesHold(log, disk, files, b) /\ CallInv(call[t], b)
  BY <1>1, <1>4, <1>7, OnlyCall, Zenon
<1>9. /\ Holds(log, T, b, n) /\ active_memtable = EmptyTable
      /\ call[t].flush_lsn = n
      /\ \/ call[t].ack = {}
         \/ n # 0 /\ call[t].ack = {log[n].payload} /\ engine = "open"
      /\ call[t].ack # {} => \A k \in Key : acked_version[k].id < VersionAt(log, n).id
  BY <1>1, <1>3, <1>8, ZenonT(30) DEF CallInv, FlushPcs
<1>10. PICK l, S : l = checkpoint.last_flushed_lsn /\ S = checkpoint.sstables
  BY SMTT(30)
<1>11. /\ l \in 0 .. n /\ FilesHold(log, disk, S, l) /\ damaged = {}
       /\ (S \cup files # {} \/ seq # 1) => Level0Path(1) \in DOMAIN disk
       /\ \A f \in S \cup files : f.sequence_number < seq
  <2>1. PathsInv /\ l \in 0 .. n /\ FilesHold(log, disk, S, l)
    BY <1>1, <1>10, Zenon DEF RecoveryInv, CheckpointInv
  <2>2. CASE seq = 1
    BY <1>1, <1>5, <1>10, <2>1, <2>2, ZenonT(30) DEF PathsInv
  <2>3. CASE seq # 1
    BY <1>1, <1>10, <2>1, <2>3, ZenonT(30) DEF PathsInv
  <2> QED
    BY <2>1, <2>2, <2>3, Zenon
<1>12. \A f \in S \cup files : f.filepath # Level0Path(seq) /\ f.sequence_number < seq + 1
  <2> SUFFICES ASSUME NEW f \in S \cup files
               PROVE  f.filepath # Level0Path(seq) /\ f.sequence_number < seq + 1
    OBVIOUS
  <2>1. Flushed(disk, f)
    BY <1>8, <1>11, Zenon DEF FilesHold
  <2>2. /\ f.sequence_number \in Nat /\ f.sequence_number < seq
        /\ f.filepath = <<0, f.sequence_number>>
    BY <1>11, <2>1 DEF Flushed, Level0Path
  <2> QED
    BY <1>4, <2>2 DEF Level0Path
<1>13. disk' = [p \in DOMAIN disk \cup {Level0Path(seq)} |->
                  IF p = Level0Path(seq) THEN T ELSE disk[p]]
  BY <1>5 DEF WithTable
<1>14. FilesHold(log, disk', S, l) /\ FilesHold(log, disk', files, b)
  <2>1. \A q \in DOMAIN disk : q # Level0Path(seq) => q \in DOMAIN disk' /\ disk'[q] = disk[q]
    BY <1>13
  <2>2. \A X, hi : FilesHold(log, disk, X, hi) /\ (\A f \in X : f.filepath # Level0Path(seq))
                     => FilesHold(log, disk', X, hi)
    BY <2>1, SameFiles, ZenonT(30)
  <2> QED
    BY <1>8, <1>11, <1>12, <2>2, Zenon
<1>15. Level0Path(seq) \in DOMAIN disk' /\ disk'[Level0Path(seq)] = T
  BY <1>13, SMTT(30)
<1>16. CheckpointInv'
  <2>1. damaged' = {}
    BY <1>5, <1>11
  <2>2. Level0Path(1) \in DOMAIN disk'
    <3>1. CASE seq = 1
      BY <1>15, <3>1, Zenon
    <3>2. CASE seq # 1
      BY <1>11, <1>13, <3>2, Zenon
    <3> QED
      BY <3>1, <3>2, Zenon
  <2>3. PathsInv'
    BY <1>5, <1>6, <1>10, <1>12, <2>1, <2>2, ZenonT(30) DEF PathsInv
  <2> QED
    BY <1>1, <1>5, <1>6, <1>10, <1>11, <1>14, <2>3, ZenonT(30) DEF CheckpointInv
<1>17. SerialLog' /\ AckedInv'
  BY <1>1, <1>5, <1>6, Zenon DEF RecoveryInv, SerialLog, AckedInv, walVars
<1>18. SessionInv'
  BY <1>4, <1>5, <1>6, <1>7 DEF RecoveryInv, SessionInv
<1>19. c.pc = "add" /\ c.ack = call[t].ack /\ c.flush_lsn = n
       /\ c.meta = Level0Meta(seq, T, Min(DOMAIN T), Max(DOMAIN T))
  BY <1>2, <1>9, ZenonT(30)
<1>20. NewFile(c.meta, b)'
  <2>1. next_sst_sequence' - 1 = seq
    BY <1>4, <1>5, SMTT(30)
  <2>2. \A f \in checkpoint.sstables' \cup files' : f.sequence_number < seq
    BY <1>5, <1>6, <1>10, <1>11, ZenonT(30)
  <2> QED
    BY <1>1, <1>4, <1>6, <1>9, <1>15, <1>19, <2>1, <2>2, ZenonT(30) DEF NewFile
<1>21. CallInv(c, b)'
  BY <1>1, <1>5, <1>6, <1>9, <1>19, <1>20, ZenonT(30) DEF CallInv, FlushPcs, VersionAt
<1>22. CutAt(b)'
  <2>1. Apart(c)
    BY <1>19, ZenonT(30) DEF Apart
  <2>2. \A u \in Thread \ {t} : call'[u].pc = "idle"
    BY <1>7, Zenon
  <2> QED
    BY <1>6, <1>7, <1>14, <1>21, <2>1, <2>2, OnlyCallAfter, ZenonT(30)
<1>23. b \in 0 .. Len(wal_file')
  BY <1>1, <1>6
<1> QED
  BY <1>16, <1>17, <1>18, <1>22, <1>23, Zenon DEF RecoveryInv

\* The new file joins the catalogue, which now amounts to the whole log.
LEMMA RegisterKeeps ==
  ASSUME RecoveryInv, Quiet, Quiet', NEW t \in Thread, RegisterLevel0(t)
  PROVE  RecoveryInv'
<1>1. PICK log, n, seq : /\ log = wal_file /\ n = Len(wal_file)
                         /\ seq = next_sst_sequence - 1
  BY Zenon
<1>2. PICK c : c = [pc |-> "files", ack |-> call[t].ack, flush_lsn |-> call[t].flush_lsn]
  BY Zenon
<1>3. call[t].pc = "add" /\ call[t].pc # "idle"
  BY ZenonT(30) DEF RegisterLevel0, At
<1>4. engine # "closed" /\ DOMAIN call = Thread /\ n \in Nat /\ next_sst_sequence \in Nat
  BY <1>1, <1>3, InvTypes, Zenon
<1>5. /\ Goto(t, c) /\ AddFile(call[t].meta)
      /\ UNCHANGED <<walVars, disk, damaged, sessionVars, loopVars, active_memtable, writes,
                     acked_version, next_sst_sequence, checkpoint>>
  BY <1>2, Zenon DEF RegisterLevel0
<1>6. wal_file' = log /\ engine' = engine /\ loop' = loop
  BY <1>1, <1>5, Zenon DEF walVars, sessionVars, loopVars
<1>7. /\ call'[t] = c /\ DOMAIN call' = Thread
      /\ \A u \in Thread \ {t} : call[u].pc = "idle" /\ call'[u] = call[u]
  BY <1>3, <1>4, <1>5, OthersIdle, Zenon DEF Quiet
<1>8. PICK b \in 0 .. n : FilesHold(log, disk, files, b) /\ CallInv(call[t], b)
  BY <1>1, <1>4, <1>7, OnlyCall, Zenon
<1>9. /\ active_memtable = EmptyTable /\ call[t].flush_lsn = n
      /\ \/ call[t].ack = {}
         \/ n # 0 /\ call[t].ack = {log[n].payload} /\ engine = "open"
      /\ call[t].ack # {} => \A k \in Key : acked_version[k].id < VersionAt(log, n).id
      /\ NewFile(call[t].meta, b)
  BY <1>1, <1>3, <1>8, ZenonT(30) DEF CallInv, FlushPcs
<1>10. PICK T : T = disk[Level0Path(seq)]
  BY SMTT(30)
<1>11. /\ seq \in Nat \ {0} /\ Level0Path(seq) \in DOMAIN disk /\ Holds(log, T, b, n)
       /\ call[t].meta = Level0Meta(seq, T, Min(DOMAIN T), Max(DOMAIN T))
       /\ \A f \in checkpoint.sstables \cup files : f.sequence_number < seq
  BY <1>1, <1>9, <1>10, ZenonT(30) DEF NewFile
<1>12. PICK new : new = [call[t].meta EXCEPT
                    !.copy = Cardinality({f \in files : f.filepath = call[t].meta.filepath})]
  BY Zenon
<1>13. files' = files \cup {new}
  BY <1>5, <1>12 DEF AddFile
<1>14. /\ new.level = 0 /\ new.sequence_number = seq /\ new.filepath = Level0Path(seq)
       /\ new.smallest_key = Min(DOMAIN T) /\ new.largest_key = Max(DOMAIN T)
  BY <1>11, <1>12 DEF Level0Meta
<1>15. Flushed(disk, new)
  <2>1. \A k \in DOMAIN T : InRange(new, k)
    <3>1. \A k \in DOMAIN T : Min(DOMAIN T) <= k /\ k <= Max(DOMAIN T)
      BY <1>1, <1>8, <1>11, InvTypes, RangeCovers, ZenonT(30)
    <3> QED
      BY <1>14, <3>1, Zenon DEF InRange
  <2> QED
    BY <1>10, <1>11, <1>14, <2>1, Zenon DEF Flushed
<1>16. FilesHold(log, disk, files', n)
  <2>1. b \in Nat /\ b <= n /\ Holds(log, disk[new.filepath], b, n)
    BY <1>4, <1>10, <1>11, <1>14
  <2>2. \A g \in files : g.sequence_number < new.sequence_number
    BY <1>11, <1>14, Zenon
  <2> QED
    BY <1>4, <1>8, <1>13, <1>15, <2>1, <2>2, OneFileMore, ZenonT(30)
<1>17. CheckpointInv'
  <2>1. \A f \in checkpoint.sstables' \cup files' : f.sequence_number < next_sst_sequence'
    <3>1. \A f \in checkpoint.sstables \cup files : f.sequence_number \in Nat
      BY Zenon, <1>1, <1>8 DEF FilesHold, Flushed, RecoveryInv, CheckpointInv
    <3>2. seq < next_sst_sequence
      BY <1>1, <1>4, SMTT(30)
    <3>3. \A f \in checkpoint.sstables \cup files : f.sequence_number < next_sst_sequence
      BY <1>4, <1>11, <3>1, <3>2, SMTT(30)
    <3> QED
      BY <1>5, <1>13, <1>14, <3>2, <3>3, Zenon
  <2>2. PathsInv /\ next_sst_sequence # 1
    BY <1>1, <1>4, <1>11 DEF RecoveryInv, CheckpointInv
  <2>3. PathsInv'
    BY <1>5, <2>1, <2>2, ZenonT(30) DEF PathsInv
  <2> QED
    BY <1>1, <1>5, <1>6, <2>3, Zenon DEF RecoveryInv, CheckpointInv
<1>18. SerialLog' /\ AckedInv'
  BY <1>1, <1>5, <1>6, ZenonT(30) DEF RecoveryInv, SerialLog, AckedInv, walVars
<1>19. SessionInv'
  BY <1>4, <1>5, <1>6, <1>7, SMTT(30) DEF RecoveryInv, SessionInv
<1>20. c.pc = "files" /\ c.ack = call[t].ack /\ c.flush_lsn = n
  BY <1>2, <1>9, ZenonT(30)
<1>21. CallInv(c, n)'
  BY <1>1, <1>5, <1>6, <1>9, <1>20, ZenonT(30) DEF CallInv, FlushPcs, VersionAt
<1>22. Holds(log, active_memtable', n, n)
  <2>1. EmptyTable \in Table /\ DOMAIN EmptyTable = {}
    <3>1. <<>> \in Seq({})
      OBVIOUS
    <3>2. IsFiniteSet({})
      BY <3>1, Zenon DEF IsFiniteSet
    <3>3. EmptyTable \in [{} -> Version] /\ DOMAIN EmptyTable = {}
      BY DEF EmptyTable
    <3> QED
      BY <3>2, <3>3, Zenon DEF Table
  <2>2. n + 1 .. n = {}
    BY <1>4
  <2> QED
    BY <1>5, <1>9, <2>1, <2>2, ZenonT(30) DEF Holds, NoEntry
<1>23. CutAt(n)'
  <2>1. \A u \in Thread \ {t} : call'[u].pc = "idle"
    BY <1>7, Zenon
  <2>2. FilesHold(wal_file', disk', files', n)
    BY <1>5, <1>6, <1>16, Zenon
  <2>3. Holds(wal_file', active_memtable', n, Len(wal_file'))
    BY <1>1, <1>6, <1>22, Zenon
  <2> QED
    BY <1>7, <1>21, <2>1, <2>2, <2>3, OnlyCallAfter, ZenonT(30)
<1>24. n \in 0 .. Len(wal_file')
  BY <1>1, <1>4, <1>6
<1> QED
  BY <1>17, <1>18, <1>19, <1>23, <1>24, Zenon DEF RecoveryInv

\* The checkpoint is saved, or the old one stays.
LEMMA SaveKeeps ==
  ASSUME RecoveryInv, Quiet, Quiet', NEW t \in Thread, SaveFlushCheckpoint(t)
  PROVE  RecoveryInv'
<1>1. /\ call[t].pc = "save" /\ call[t].pc # "idle" /\ call[t].pc \in FlushPcs
      /\ ~ Apart(call[t])
  BY ZenonT(30) DEF SaveFlushCheckpoint, At, FlushPcs, Apart
<1>2. engine # "closed" /\ DOMAIN call = Thread
  BY <1>1, InvTypes, Zenon
<1>3. Still /\ active_memtable' = active_memtable
  BY Zenon DEF SaveFlushCheckpoint, Still, compactionVars, sessionVars, loopVars
<1>4. /\ wal_file' = wal_file /\ engine' = engine /\ writes' = writes /\ damaged' = damaged
      /\ disk' = disk /\ files' = files /\ next_sst_sequence' = next_sst_sequence
  BY <1>3, Zenon DEF Still, walVars
<1>5. Goto(t, IF engine = "closing" THEN [pc |-> "gone"] ELSE Idle)
  BY Zenon DEF SaveFlushCheckpoint, ReturnOk, ReturnError
<1>6. \A u \in Thread \ {t} : call[u].pc = "idle"
  BY <1>1, <1>2, <1>5, OthersIdle, Zenon DEF Quiet
<1>7. CASE checkpoint' = call[t].cp /\ ReturnOk(t, call[t].ack)
  <2>1. AckedInv'
    BY <1>1, <1>2, <1>4, <1>6, <1>7, FlushAcks, Zenon DEF ReturnOk
  <2>2. PICK b \in 0 .. Len(wal_file) :
          FilesHold(wal_file, disk, files, b) /\ CallInv(call[t], b)
    BY <1>2, <1>6, OnlyCall, Zenon
  <2>3. /\ b = Len(wal_file)
        /\ checkpoint' = [last_flushed_lsn |-> Len(wal_file), sstables |-> files]
    BY <1>1, <1>7, <2>2, ZenonT(30) DEF CallInv
  <2>4. checkpoint.last_flushed_lsn' = b /\ checkpoint.sstables' = files
    BY <2>3
  <2>5. FilesHold(wal_file', disk', checkpoint.sstables', checkpoint.last_flushed_lsn')
    BY <1>4, <2>2, <2>4, Zenon
  <2>6. PathsInv'
    BY <1>4, <2>4 DEF RecoveryInv, CheckpointInv, PathsInv
  <2>7. CheckpointInv'
    BY <1>4, <2>2, <2>4, <2>5, <2>6, Zenon DEF CheckpointInv
  <2> QED
    BY <1>1, <1>2, <1>3, <1>5, <2>1, <2>7, ReturnKeeps, Zenon
<1>8. CASE checkpoint' = checkpoint /\ acked_version' = acked_version
  <2>1. AckedInv' /\ CheckpointInv'
    BY <1>3, <1>4, <1>8, StillCheckpoint DEF RecoveryInv, AckedInv
  <2> QED
    BY <1>1, <1>2, <1>3, <1>5, <2>1, ReturnKeeps, Zenon
<1> QED
  BY <1>7, <1>8, Zenon DEF SaveFlushCheckpoint, SaveFails, ReturnError

\* What the steps of a Get have in common.
LEMMA GetMoves ==
  ASSUME RecoveryInv, Quiet, Quiet', NEW t \in Thread, NEW c, Goto(t, c),
         engine = "open", call[t].pc \in {"idle", "look", "search", "got"},
         call[t].pc # "idle" \/ c.pc # "idle",
         UNCHANGED <<walVars, compactionVars, sessionVars, loopVars, active_memtable, writes,
                     acked_version, next_sst_sequence, checkpoint>>,
         c.pc \in {"idle", "look", "search", "got"},
         c.pc \in {"look", "search"} =>
           /\ c.key \in Key
           /\ c.key \in DOMAIN active_memtable => active_memtable[c.key].kind = "delete",
         c.pc = "search" =>
           /\ c = [pc |-> "search", key |-> c.key, latest |-> c.latest, left |-> c.left]
           /\ c.left \subseteq files
           /\ \A f \in files : HasKey(disk, f, c.key) => f \in c.left
  PROVE  RecoveryInv'
<1>1. Still /\ checkpoint' = checkpoint
  BY Zenon DEF Still, compactionVars, sessionVars, loopVars
<1>2. /\ wal_file' = wal_file /\ engine' = "open" /\ disk' = disk /\ files' = files
      /\ writes' = writes
  BY <1>1, Zenon DEF Still, walVars
<1>3. AckedInv' /\ CheckpointInv'
  BY <1>1, <1>2, StillCheckpoint, SMTT(30) DEF RecoveryInv, AckedInv
<1>4. \A b : CallInv(c, b)'
  BY <1>2, ZenonT(30) DEF CallInv, FlushPcs
<1>5. ~ Apart(call[t]) /\ engine # "closed"
  BY DEF Apart
<1> QED
  BY <1>1, <1>3, <1>4, <1>5, CallMoves, Zenon

\* A Get that has to look at the files found no put in the memtable.
LEMMA GetKeeps ==
  ASSUME RecoveryInv, Quiet, Quiet', NEW t \in Thread, NEW k \in Key,
         GetFromMemTable(t, k)
  PROVE  RecoveryInv'
<1>1. /\ engine = "open" /\ call[t].pc = "idle"
      /\ UNCHANGED <<walVars, compactionVars, sessionVars, loopVars, active_memtable, writes,
                     acked_version, next_sst_sequence, checkpoint>>
  BY Zenon DEF GetFromMemTable, At
<1>2. CASE k \in DOMAIN active_memtable /\ active_memtable[k].kind = "put"
  <2>1. PICK c : c = [pc |-> "got", key |-> k, latest |-> acked_version[k],
                      found |-> active_memtable[k]]
    BY Zenon
  <2>2. Goto(t, c)
    BY <1>2, <2>1, Zenon DEF GetFromMemTable, Got
  <2>3. c.pc = "got"
    BY <2>1, ZenonT(30)
  <2> QED
    BY <1>1, <2>2, <2>3, GetMoves, SMTT(30)
<1>3. CASE ~ (k \in DOMAIN active_memtable /\ active_memtable[k].kind = "put")
  <2>1. PICK c : c = [pc |-> "look", key |-> k, latest |-> acked_version[k]]
    BY Zenon
  <2>2. Goto(t, c)
    BY <1>3, <2>1, Zenon DEF GetFromMemTable
  <2>3. c.pc = "look" /\ c.key = k
    BY <2>1, Zenon
  <2>4. k \in DOMAIN active_memtable => active_memtable[k].kind = "delete"
    <3>1. PICK b \in 0 .. Len(wal_file) : CutAt(b)
      BY <1>1, Zenon DEF RecoveryInv
    <3>2. \A u \in Thread : ~ Apart(call[u])
      <4>1. \A u \in Thread \ {t} : call[u].pc = "idle"
        BY <2>2, <2>3, OthersIdle, ZenonT(30) DEF RecoveryInv, SessionInv, Quiet
      <4> QED
        BY <1>1, <4>1, ZenonT(30) DEF Apart
    <3>3. active_memtable \in Table
      BY <3>1, <3>2, Zenon DEF CutAt, Holds
    <3>4. \A x \in DOMAIN active_memtable : active_memtable[x] \in Version
      BY <3>3 DEF Table
    <3>5. \A v \in Version : v.kind \in {"put", "delete"}
      BY CompactionConstants
    <3> QED
      BY <1>3, <3>4, <3>5
  <2> QED
    BY <1>1, <2>2, <2>3, <2>4, GetMoves, SMTT(30)
<1> QED
  BY <1>2, <1>3

\* A Get under way: its place, and that the engine is open.
LEMMA GetAt ==
  ASSUME RecoveryInv, NEW t \in Thread, call[t].pc \in {"look", "search", "got"}
  PROVE  /\ engine = "open"
         /\ \E b \in 0 .. Len(wal_file) :
              FilesHold(wal_file, disk, files, b) /\ CallInv(call[t], b)
<1>1. engine # "closed"
  BY DEF RecoveryInv, SessionInv, Idle
<1>2. PICK b \in 0 .. Len(wal_file) : CutAt(b)
  BY <1>1, Zenon DEF RecoveryInv
<1>3. FilesHold(wal_file, disk, files, b) /\ CallInv(call[t], b)
  BY <1>2, Zenon DEF CutAt
<1>4. engine = "open"
  BY <1>3, ZenonT(30) DEF CallInv
<1> QED
  BY <1>3, <1>4, Zenon

\* The files to search are those whose range has the key.
LEMMA SnapshotKeeps ==
  ASSUME RecoveryInv, Quiet, Quiet', NEW t \in Thread, GetSnapshot(t)
  PROVE  RecoveryInv'
<1>1. /\ call[t].pc = "look"
      /\ UNCHANGED <<walVars, compactionVars, sessionVars, loopVars, active_memtable, writes,
                     acked_version, next_sst_sequence, checkpoint>>
  BY Zenon DEF GetSnapshot, At
<1>2. engine = "open" /\ \E b \in 0 .. Len(wal_file) :
        FilesHold(wal_file, disk, files, b) /\ CallInv(call[t], b)
  BY <1>1, GetAt, ZenonT(30)
<1>3. PICK b \in 0 .. Len(wal_file) : FilesHold(wal_file, disk, files, b) /\ CallInv(call[t], b)
  BY <1>2, Zenon
<1>4. PICK k, left : k = call[t].key /\ left = {f \in files : InRange(f, call[t].key)}
  BY Zenon
<1>5. PICK c : c = [pc |-> "search", key |-> k, latest |-> call[t].latest, left |-> left]
  BY Zenon
<1>6. Goto(t, c)
  BY <1>4, <1>5, Zenon DEF GetSnapshot
<1>7. c.pc = "search" /\ c.key = k /\ c.left = left /\ c.latest = call[t].latest
  BY <1>5, SMTT(30)
<1>8. k \in Key /\ (k \in DOMAIN active_memtable => active_memtable[k].kind = "delete")
  BY <1>1, <1>3, <1>4, ZenonT(30) DEF CallInv
<1>9. left \subseteq files /\ \A f \in files : HasKey(disk, f, k) => f \in left
  BY <1>3, <1>4, Zenon DEF FilesHold, Flushed, HasKey
<1>10. c = [pc |-> "search", key |-> c.key, latest |-> c.latest, left |-> c.left]
  BY <1>5, <1>7, Zenon
<1> QED
  BY <1>1, <1>2, <1>6, <1>7, <1>8, <1>9, <1>10, GetMoves, SMTT(30)

\* When the file that a search opens next has the key, it has the last version of
\* it among all files.
LEMMA FirstIsFound ==
  ASSUME NEW b, FilesHold(wal_file, disk, files, b), NEW k \in Key,
         NEW left, left \subseteq files, \A g \in files : HasKey(disk, g, k) => g \in left,
         NEW f \in left, \A g \in left : ~ SearchedBefore(g, f), HasKey(disk, f, k)
  PROVE  \E i \in 1 .. b : /\ LastEntry(wal_file, i, k, 0, b)
                           /\ disk[f.filepath][k] = VersionAt(wal_file, i)
<1>1. PICK i \in 1 .. b, g \in files :
        /\ LastEntry(wal_file, i, k, 0, b) /\ FoundFirst(disk, files, g, k)
        /\ disk[g.filepath][k] = VersionAt(wal_file, i)
  BY Zenon DEF FilesHold
<1>2. g \in left /\ f \in files /\ f.sequence_number <= g.sequence_number
  BY <1>1, Zenon DEF FoundFirst
<1>3. g.level = f.level /\ g.sequence_number \in Nat /\ f.sequence_number \in Nat
  BY <1>1, <1>2, Zenon DEF FilesHold, Flushed
<1>4. ~ (g.sequence_number > f.sequence_number)
  BY <1>2, <1>3, Zenon DEF SearchedBefore
<1>5. g.sequence_number = f.sequence_number
  BY <1>2, <1>3, <1>4
<1>6. g = f
  BY <1>1, <1>2, <1>5, Zenon DEF FilesHold
<1> QED
  BY <1>1, <1>6, Zenon

\* A search without one of its files.
LEMMA FileDone ==
  ASSUME NEW k, NEW latest, NEW left, NEW f, NEW old, NEW new,
         old = [pc |-> "search", key |-> k, latest |-> latest, left |-> left],
         new = [pc |-> "search", key |-> k, latest |-> latest, left |-> left \ {f}]
  PROVE  [old EXCEPT !.left = @ \ {f}] = new
OBVIOUS

\* One file is searched: with the key there is an answer, without it the file is not
\* needed.
LEMMA SearchKeeps ==
  ASSUME RecoveryInv, Quiet, Quiet', NEW t \in Thread, GetFromSSTable(t)
  PROVE  RecoveryInv'
<1>1. /\ call[t].pc = "search"
      /\ UNCHANGED <<walVars, compactionVars, sessionVars, loopVars, active_memtable, writes,
                     acked_version, next_sst_sequence, checkpoint>>
  BY Zenon DEF GetFromSSTable, At
<1>2. engine = "open" /\ \E b \in 0 .. Len(wal_file) :
        FilesHold(wal_file, disk, files, b) /\ CallInv(call[t], b)
  BY <1>1, GetAt, ZenonT(30)
<1>3. PICK b \in 0 .. Len(wal_file) : FilesHold(wal_file, disk, files, b) /\ CallInv(call[t], b)
  BY <1>2, Zenon
<1>4. PICK k, latest, left : k = call[t].key /\ latest = call[t].latest /\ left = call[t].left
  BY Zenon
<1>5. /\ call[t] = [pc |-> "search", key |-> k, latest |-> latest, left |-> left]
      /\ k \in Key /\ (k \in DOMAIN active_memtable => active_memtable[k].kind = "delete")
      /\ left \subseteq files /\ \A f \in files : HasKey(disk, f, k) => f \in left
  BY <1>1, <1>3, <1>4, ZenonT(30) DEF CallInv
<1>6. ASSUME NEW found, Got(t, k, latest, found) PROVE RecoveryInv'
  <2>1. PICK c : c = [pc |-> "got", key |-> k, latest |-> latest, found |-> found]
    BY Zenon
  <2>2. Goto(t, c) /\ c.pc = "got"
    BY <1>6, <2>1 DEF Got
  <2> QED
    BY <1>1, <1>2, <2>2, GetMoves, SMTT(30)
<1>7. ASSUME NEW f \in left, \A g \in left : ~ SearchedBefore(g, f),
             ReadKey(f, k) = NoVersion,
             Goto(t, [call[t] EXCEPT !.left = @ \ {f}])
      PROVE  RecoveryInv'
  <2>1. PICK c : c = [pc |-> "search", key |-> k, latest |-> latest, left |-> left \ {f}]
    BY Zenon
  <2>2. [call[t] EXCEPT !.left = @ \ {f}] = c
    <3>1. PICK old : old = call[t]
      OBVIOUS
    <3>2. old = [pc |-> "search", key |-> k, latest |-> latest, left |-> left]
      BY <1>5, <3>1, Zenon
    <3>3. [old EXCEPT !.left = @ \ {f}] = c
      BY <2>1, <3>2, FileDone, Zenon
    <3> QED
      BY <3>1, <3>3, Zenon
  <2>3. Goto(t, c)
    BY <1>7, <2>2, Zenon
  <2>4. c.pc = "search" /\ c.key = k /\ c.left = left \ {f} /\ c.latest = latest
    BY <2>1
  <2>5. c = [pc |-> "search", key |-> c.key, latest |-> c.latest, left |-> c.left]
    BY <2>1, <2>4, Zenon
  <2>6. ~ HasKey(disk, f, k)
    <3>1. f \in files /\ f.filepath \in DOMAIN disk
      BY <1>3, <1>5, Zenon DEF FilesHold, Flushed
    <3> SUFFICES ASSUME HasKey(disk, f, k) PROVE FALSE
      OBVIOUS
    <3>2. disk[f.filepath][k] = NoVersion
      <4>1. CanRead(f)
        BY <3>1 DEF RecoveryInv, CheckpointInv, PathsInv, CanRead
      <4> QED
        BY <1>7, <4>1, Zenon DEF ReadKey, HasKey
    <3>3. wal_file \in EngineLog
      BY DEF RecoveryInv, SerialLog, Whole
    <3>4. PICK i \in 1 .. b : disk[f.filepath][k] = VersionAt(wal_file, i)
      BY <1>3, <1>5, <1>7, <3>1, FirstIsFound, ZenonT(30)
    <3>5. VersionAt(wal_file, i) # NoVersion
      <4>1. i \in 1 .. Len(wal_file)
        BY <1>3, <3>4, InvTypes
      <4> QED
        BY <3>3, <4>1, EntryType, Zenon
    <3> QED
      BY <3>2, <3>4, <3>5
  <2>7. \A g \in files : HasKey(disk, g, k) => g \in left \ {f}
    BY <1>5, <2>6, Zenon
  <2> QED
    BY <1>1, <1>2, <1>5, <2>3, <2>4, <2>5, <2>7, GetMoves, ZenonT(30)
<1> QED
  BY <1>4, <1>6, <1>7, Zenon DEF GetFromSSTable

\* The answer is returned.
LEMMA GetReturnsKeeps ==
  ASSUME RecoveryInv, Quiet, Quiet', NEW t \in Thread, GetReturns(t)
  PROVE  RecoveryInv'
<1>1. /\ call[t].pc = "got" /\ Goto(t, Idle)
      /\ UNCHANGED <<walVars, compactionVars, sessionVars, loopVars, active_memtable, writes,
                     acked_version, next_sst_sequence, checkpoint>>
  BY Zenon DEF GetReturns, At
<1>2. engine = "open"
  BY <1>1, GetAt, ZenonT(30)
<1>3. PICK c : c = Idle
  BY SMTT(30)
<1>4. c.pc = "idle" /\ Goto(t, c)
  BY <1>1, <1>3, ZenonT(30) DEF Idle
<1> QED
  BY <1>1, <1>2, <1>4, GetMoves
----------------------------------------------------------------------------
(* Opening, closing and the compaction thread.                             *)

\* A call moves on without anything that the invariant says of it.
LEMMA SameCall ==
  ASSUME NEW c, NEW b, CallInv(c, b),
         UNCHANGED <<wal_file, engine, active_memtable, acked_version, files, disk,
                     checkpoint, next_sst_sequence>>
  PROVE  CallInv(c, b)'
<1>1. NewFile(c.meta, b) => NewFile(c.meta, b)'
  BY ZenonT(30) DEF NewFile
<1> QED
  BY <1>1, ZenonT(30) DEF CallInv, VersionAt

\* The destructor begins.
LEMMA DestroyKeeps ==
  ASSUME RecoveryInv, Quiet, Quiet', NEW t \in Thread, Destroy(t)
  PROVE  RecoveryInv'
<1>1. PICK c : c = [pc |-> "join"]
  BY Zenon
<1>2. c.pc = "join" /\ ~ Apart(c) /\ ~ Apart(call[t])
  BY <1>1, ZenonT(30) DEF Apart, Destroy, At
<1>3. /\ engine = "open" /\ engine' = "closing" /\ Goto(t, c)
      /\ UNCHANGED <<walVars, files, disk, damaged, loop, active_memtable, writes, acked_version,
                     next_sst_sequence, checkpoint>>
  BY <1>1, Zenon DEF Destroy, compactionVars, loopVars
<1>4. DOMAIN call = Thread
  BY SMTT(30) DEF RecoveryInv, SessionInv
<1>5. /\ call'[t] = c /\ DOMAIN call' = Thread
      /\ \A u \in Thread \ {t} : call[u].pc = "idle" /\ call'[u] = call[u]
  BY <1>2, <1>3, <1>4, OthersIdle, ZenonT(30) DEF Quiet
<1>6. SerialLog'
  BY <1>3, SMTT(30) DEF RecoveryInv, SerialLog, walVars
<1>8. SessionInv'
  <2>1. SessionInv
    BY DEF RecoveryInv
  <2> QED
    BY <1>3, <1>5, <2>1 DEF SessionInv
<1>9. wal_file' = wal_file
  BY <1>3, ZenonT(30) DEF walVars
<1>10. CheckpointInv'
  BY <1>3, <1>9, Zenon DEF RecoveryInv, CheckpointInv, PathsInv
<1>11. AckedInv'
  BY <1>3, <1>9 DEF RecoveryInv, AckedInv
<1>12. PICK b \in 0 .. Len(wal_file) :
         /\ FilesHold(wal_file, disk, files, b)
         /\ ~ Apart(call[t]) => Holds(wal_file, active_memtable, b, Len(wal_file))
  BY <1>3, <1>5, OnlyCall, Zenon
<1>13. CallInv(c, b)'
  BY <1>2, <1>3, ZenonT(30) DEF CallInv, FlushPcs
<1>14. CutAt(b)'
  <2>1. FilesHold(wal_file', disk', files', b)
    BY <1>3, <1>9, <1>12, SMTT(30)
  <2>2. Holds(wal_file', active_memtable', b, Len(wal_file'))
    BY <1>2, <1>3, <1>9, <1>12, ZenonT(30)
  <2>3. \A u \in Thread \ {t} : call'[u].pc = "idle"
    BY <1>5
  <2> QED
    BY <1>5, <1>13, <2>1, <2>2, <2>3, OnlyCallAfter, Zenon
<1>15. (\E a \in 0 .. Len(wal_file) : CutAt(a))'
  BY <1>9, <1>14, Zenon
<1> QED
  BY <1>6, <1>8, <1>10, <1>11, <1>15, Zenon DEF RecoveryInv

\* The destructor has joined the compaction thread.
LEMMA JoinKeeps ==
  ASSUME RecoveryInv, Quiet, Quiet', NEW t \in Thread, JoinThenFlush(t)
  PROVE  RecoveryInv'
<1>1. PICK c : c = IF active_memtable = EmptyTable THEN [pc |-> "gone"]
                   ELSE [pc |-> "swap", ack |-> {}]
  BY Zenon
<1>2. /\ call[t].pc = "join" /\ Goto(t, c)
      /\ UNCHANGED <<walVars, files, disk, damaged, engine, loop, active_memtable, writes,
                     acked_version, next_sst_sequence, checkpoint>>
  BY <1>1, Zenon DEF JoinThenFlush, At, compactionVars, loopVars, sessionVars
<1>3. Still /\ checkpoint' = checkpoint /\ active_memtable' = active_memtable
  BY <1>2, Zenon DEF Still
<1>4. engine # "closed"
  BY <1>2 DEF RecoveryInv, SessionInv, Idle
<1>5. PICK b \in 0 .. Len(wal_file) : CutAt(b)
  BY <1>4, Zenon DEF RecoveryInv
<1>6. CallInv(call[t], b)
  BY <1>5, Zenon DEF CutAt
<1>7. engine = "closing"
  BY <1>2, <1>6, ZenonT(30) DEF CallInv
<1>8. wal_file' = wal_file
  BY <1>2, ZenonT(30) DEF walVars
<1>9. AckedInv' /\ CheckpointInv'
  BY <1>2, <1>3, <1>8, StillCheckpoint, ZenonT(30) DEF RecoveryInv, AckedInv
<1>10. c.pc = "gone" \/ (c.pc = "swap" /\ c.ack = {} /\ active_memtable # EmptyTable)
  BY <1>1
<1>12. \A a : CallInv(c, a)'
  BY <1>2, <1>7, <1>10, ZenonT(30) DEF CallInv, FlushPcs
<1>13. ~ Apart(call[t])
  BY <1>2 DEF Apart
<1> QED
  BY <1>2, <1>3, <1>4, <1>9, <1>12, <1>13, CallMoves, Zenon

\* The object goes, in the destructor or in a crash: what is on disk is what counts.
LEMMA GoneKeeps ==
  ASSUME RecoveryInv, ObjectGone, write_file' = "closed", unflushed' = <<>>,
         Whole(wal_file'), CheckpointInv', writes' \in {writes, writes + 1},
         \A i \in 1 .. Len(wal_file') : VersionAt(wal_file', i).id <= writes'
  PROVE  RecoveryInv'
<1>1. /\ engine' = "closed" /\ loop' = "exited" /\ next_sst_sequence' = 1 /\ files' = {}
      /\ call' = [t \in Thread |-> Idle] /\ acked_version' = acked_version
  BY Zenon DEF ObjectGone
<1>2. writes \in Nat /\ writes' \in Nat /\ writes <= writes'
  BY DEF RecoveryInv, SerialLog
<1>3. SerialLog'
  BY <1>1, <1>2, Zenon DEF SerialLog
<1>4. SessionInv'
  BY <1>1 DEF SessionInv
<1>5. AckedInv'
  <2>1. AckedInv
    BY Zenon DEF RecoveryInv
  <2>2. \A k \in Key : acked_version[k].id <= writes'
    BY <1>2, <2>1, VersionIds DEF AckedInv
  <2> QED
    BY <1>1, <2>1, <2>2, Zenon DEF AckedInv
<1> QED
  BY <1>1, <1>3, <1>4, <1>5, Zenon DEF RecoveryInv

\* The paths of the checkpoint's files stay taken for the sessions to come.
LEMMA GonePaths ==
  ASSUME PathsInv, ObjectGone, DOMAIN disk \subseteq DOMAIN disk', damaged' = {}
  PROVE  PathsInv'
<1>1. next_sst_sequence' = 1 /\ files' = {} /\ checkpoint' = checkpoint
  BY Zenon DEF ObjectGone
<1> QED
  BY <1>1 DEF PathsInv

\* ... with nothing written.
LEMMA SameLogGone ==
  ASSUME RecoveryInv, ObjectGone, write_file' = "closed", unflushed' = <<>>,
         UNCHANGED <<wal_file, disk, damaged>>, writes' \in {writes, writes + 1}
  PROVE  RecoveryInv'
<1>1. SerialLog /\ CheckpointInv /\ PathsInv /\ damaged = {}
  BY Zenon DEF RecoveryInv, CheckpointInv, PathsInv
<1>2. PathsInv'
  BY <1>1, GonePaths, Zenon
<1>3. CheckpointInv'
  BY <1>1, <1>2, Zenon DEF CheckpointInv, ObjectGone
<1>4. Whole(wal_file') /\ \A i \in 1 .. Len(wal_file') : VersionAt(wal_file', i).id <= writes'
  <2>1. /\ Whole(wal_file) /\ wal_file \in EngineLog /\ writes \in Nat /\ writes' \in Nat
        /\ writes <= writes'
    BY <1>1 DEF SerialLog, Whole
  <2>2. \A i \in 1 .. Len(wal_file) : VersionAt(wal_file, i).id \in Nat
    BY <2>1, EntryType, Zenon
  <2>3. \A i \in 1 .. Len(wal_file) : VersionAt(wal_file, i).id <= writes
    BY <1>1, Zenon DEF SerialLog
  <2>4. \A i \in 1 .. Len(wal_file) : VersionAt(wal_file, i).id <= writes'
    BY <2>1, <2>2, <2>3
  <2> QED
    BY <2>1, <2>4, Zenon DEF VersionAt
<1> QED
  BY <1>3, <1>4, GoneKeeps, Zenon

\* The destructor flushes nothing of the log that is not there.
LEMMA DestroyedKeeps ==
  ASSUME RecoveryInv, NEW t \in Thread, Destroyed(t)
  PROVE  RecoveryInv'
<1>1. unflushed = <<>> /\ wal_file \in EngineLog
  BY DEF RecoveryInv, SerialLog, Whole
<1>2. wal_file \o unflushed = wal_file
  BY <1>1 DEF EngineLog
<1>3. /\ write_file' = "closed" /\ unflushed' = <<>> /\ wal_file' = wal_file /\ ObjectGone
      /\ UNCHANGED <<disk, damaged, writes>>
  BY <1>2, Zenon DEF Destroyed, WALClose
<1> QED
  BY <1>3, SameLogGone, Zenon

\* A crash is no more than that.
LEMMA CrashKeeps ==
  ASSUME RecoveryInv, Crash
  PROVE  RecoveryInv'
<1>1. /\ write_file' = "closed" /\ unflushed' = <<>> /\ wal_file' = wal_file /\ ObjectGone
      /\ UNCHANGED <<disk, damaged, writes>>
  BY Zenon DEF Crash, WALCrash, LogObjectGone
<1> QED
  BY <1>1, SameLogGone, Zenon

\* A crash in the middle of an append leaves nothing of the write or all of it,
\* unless it leaves a part of it, at which ReadAll stops.
LEMMA CrashInAppendLogs ==
  ASSUME RecoveryInv, Undisturbed', CrashInAppend
  PROVE  \/ wal_file' = wal_file
         \/ \E k \in Key, kind \in {"put", "delete"} : Logs(k, kind)
<1>1. PICK k \in Key, kind \in {"put", "delete"} :
        WALCrashInAppend([key |-> k, version |-> [id |-> writes + 1, kind |-> kind]])
  BY Zenon DEF CrashInAppend
<1>2. PICK w : w = [key |-> k, version |-> [id |-> writes + 1, kind |-> kind]]
  BY Zenon
<1>3. /\ engine = "open" /\ writes < MaxWrites /\ writes' = writes + 1
      /\ wal_file' \in {wal_file, Append(wal_file, Torn(Stamped(w))),
                        Append(wal_file, Stamped(w))}
  BY <1>1, <1>2, ZenonT(30) DEF CrashInAppend, WALCrashInAppend, PartlyWritten
<1>4. wal_file' # Append(wal_file, Torn(Stamped(w)))
  <2> SUFFICES ASSUME wal_file' = Append(wal_file, Torn(Stamped(w))) PROVE FALSE
    OBVIOUS
  <2>1. wal_file \in EngineLog
    BY Zenon DEF RecoveryInv, SerialLog, Whole
  <2>2. PICK torn : torn = Torn(Stamped(w))
    BY Zenon
  <2>3. Len(wal_file) + 1 \in DOMAIN wal_file' /\ wal_file'[Len(wal_file) + 1] = torn
    BY <2>1, <2>2 DEF EngineLog
  <2>4. torn.crc = "mismatch"
    BY <2>2, Zenon DEF Torn, Stamped
  <2>5. Stops(torn)
    BY <2>4, Zenon DEF Stops
  <2>6. ~ Stops(wal_file'[Len(wal_file) + 1])
    BY <2>3, Zenon DEF Undisturbed, Stops
  <2> QED
    BY <2>3, <2>5, <2>6, Zenon
<1>5. CASE wal_file' = Append(wal_file, Stamped(w))
  <2>1. PICK n : n = Len(wal_file)
    BY Zenon
  <2>2. PICK r : r = [lsn |-> n + 1, payload |-> w, crc |-> "match"]
    BY Zenon
  <2>3. SerialLog /\ n \in Nat
    BY <2>1, InvTypes, Zenon DEF RecoveryInv
  <2>4. Stamped(w) = r
    BY <1>3, <2>1, <2>2, <2>3 DEF Stamped, SerialLog
  <2>5. Logs(k, kind)
    BY <1>2, <1>3, <1>5, <2>1, <2>2, <2>4, Zenon DEF Logs, Entry
  <2> QED
    BY <2>5, Zenon
<1> QED
  BY <1>3, <1>4, <1>5, Zenon

\* Either way the log and the checkpoint fit together as before.
LEMMA CrashInAppendKeeps ==
  ASSUME RecoveryInv, Undisturbed', CrashInAppend
  PROVE  RecoveryInv'
<1>1. /\ write_file' = "closed" /\ unflushed' = <<>> /\ ObjectGone /\ engine = "open"
      /\ UNCHANGED <<disk, damaged>> /\ writes' = writes + 1
  BY ZenonT(30) DEF CrashInAppend, WALCrashInAppend, LogObjectGone
<1>2. CASE wal_file' = wal_file
  BY <1>1, <1>2, SameLogGone, Zenon
<1>3. ASSUME NEW k \in Key, NEW kind \in {"put", "delete"}, Logs(k, kind) PROVE RecoveryInv'
  <2>1. PICK n, new, w : n = Len(wal_file) /\ new = wal_file' /\ w = Entry(k, kind)
    BY Zenon
  <2>2. CheckpointInv /\ n \in Nat
    BY <2>1, InvTypes, Zenon DEF RecoveryInv
  <2>3. /\ Whole(new) /\ Len(new) = n + 1
        /\ \A i \in 1 .. Len(new) : VersionAt(new, i).id <= writes'
        /\ \A d, S : \A hi \in 0 .. n :
             FilesHold(wal_file, d, S, hi) => FilesHold(new, d, S, hi)
    BY <1>3, <2>1, LogGrows, ZenonT(30)
  <2>4. PathsInv'
    BY <1>1, <2>2, GonePaths, Zenon DEF CheckpointInv, PathsInv
  <2>5. CheckpointInv'
    <3>1. PICK l, S : l = checkpoint.last_flushed_lsn /\ S = checkpoint.sstables
      BY SMTT(30)
    <3>2. l \in 0 .. n /\ l \in 0 .. n + 1 /\ FilesHold(wal_file, disk, S, l)
      BY <2>1, <2>2, <3>1 DEF CheckpointInv
    <3>3. checkpoint' = checkpoint
      BY <1>1, Zenon DEF ObjectGone
    <3> QED
      BY <1>1, <2>1, <2>3, <2>4, <3>1, <3>2, <3>3, Zenon DEF CheckpointInv
  <2>6. Whole(wal_file') /\ \A i \in 1 .. Len(wal_file') : VersionAt(wal_file', i).id <= writes'
    BY <2>1, <2>3, Zenon DEF VersionAt
  <2> QED
    BY <1>1, <2>5, <2>6, GoneKeeps, Zenon
<1> QED
  BY <1>2, <1>3, CrashInAppendLogs, Zenon

\* A crash in the middle of a flush leaves nothing under a path nobody had.
LEMMA CrashInFlushKeeps ==
  ASSUME RecoveryInv, Undisturbed', CrashInFlush
  PROVE  RecoveryInv'
<1>1. PICK path : path = Level0Path(next_sst_sequence)
  BY Zenon
<1>2. /\ write_file' = "closed" /\ unflushed' = <<>> /\ wal_file' = wal_file /\ ObjectGone
      /\ disk' = [p \in DOMAIN disk \ {path} |-> disk[p]] /\ damaged' = damaged \ {path}
      /\ writes' = writes /\ path \notin DOMAIN disk
  BY <1>1, Zenon DEF CrashInFlush, TakesNextPath, Undisturbed, WALCrash, LogObjectGone,
     Unreadable
<1>3. SerialLog /\ CheckpointInv /\ PathsInv /\ damaged = {}
  BY Zenon DEF RecoveryInv, CheckpointInv, PathsInv
<1>4. /\ damaged' = {} /\ DOMAIN disk \subseteq DOMAIN disk'
      /\ \A p \in DOMAIN disk : p \in DOMAIN disk' /\ disk'[p] = disk[p]
  BY <1>2, <1>3
<1>5. PathsInv'
  BY <1>2, <1>3, <1>4, GonePaths, Zenon
<1>6. CheckpointInv'
  <2>1. PICK l, S : l = checkpoint.last_flushed_lsn /\ S = checkpoint.sstables
    BY SMTT(30)
  <2>2. FilesHold(wal_file, disk', S, l)
    BY <1>3, <1>4, <2>1, SameFiles, Zenon DEF CheckpointInv
  <2>3. checkpoint' = checkpoint
    BY <1>2, Zenon DEF ObjectGone
  <2> QED
    BY <1>2, <1>3, <1>5, <2>1, <2>2, <2>3, Zenon DEF CheckpointInv
<1>7. Whole(wal_file') /\ \A i \in 1 .. Len(wal_file') : VersionAt(wal_file', i).id <= writes'
  BY <1>2, <1>3, Zenon DEF SerialLog, VersionAt
<1> QED
  BY <1>2, <1>6, <1>7, GoneKeeps, Zenon

\* Open scans a log of which no record is torn to its end, and goes on behind it.
LEMMA NumbersGoOn ==
  ASSUME NEW log \in Seq(WALRecord),
         \A i \in DOMAIN log : log[i].crc = "match" /\ log[i].lsn = i
  PROVE  NextSeq(log) = Len(log) + 1
<1> DEFINE lsns == 0 .. Len(log)
<1>1. Len(log) \in Nat /\ DOMAIN log = 1 .. Len(log)
  OBVIOUS
<1>2. Scanned(log) = 1 .. Len(log)
  <2>1. \A i \in 1 .. Len(log) : \A j \in 1 .. i : j \in 1 .. Len(log)
    BY <1>1
  <2> QED
    BY <1>1, <2>1, ZenonT(30) DEF Scanned
<1>3. {0} \cup {log[i].lsn : i \in Scanned(log)} = lsns
  BY <1>1, <1>2
<1>4. Len(log) \in lsns /\ \A y \in lsns : Len(log) >= y
  BY <1>1
<1>5. Max(lsns) \in lsns /\ \A y \in lsns : Max(lsns) >= y
  <2> HIDE DEF lsns
  <2> QED
    BY <1>4, MaxMin, Zenon
<1>6. Max(lsns) = Len(log)
  BY <1>1, <1>4, <1>5
<1>7. NextSeq(log) = 1 + Max(lsns)
  BY <1>3, Zenon DEF NextSeq
<1> QED
  BY <1>1, <1>6, <1>7

\* Open rebuilds the catalogue from the checkpoint and the memtable from the log
\* behind its LSN, which is where the two are cut.
LEMMA OpenKeeps ==
  ASSUME RecoveryInv, Open
  PROVE  RecoveryInv'
<1>1. /\ engine = "closed" /\ engine' = "open" /\ loop' = "wait"
      /\ files' = checkpoint.sstables /\ WALOpen
      /\ active_memtable' = Replayed(checkpoint.last_flushed_lsn)
      /\ UNCHANGED <<disk, damaged, call, writes, acked_version, next_sst_sequence, checkpoint>>
  BY Zenon DEF Open
<1>2. /\ write_file' = "good" /\ wal_file' = wal_file /\ unflushed' = unflushed
      /\ next_sequence_number' = NextSeq(wal_file)
  BY <1>1, Zenon DEF WALOpen
<1>3. Whole(wal_file)
  BY DEF RecoveryInv, SerialLog
<1>4. NextSeq(wal_file) = Len(wal_file) + 1
  <2>1. wal_file \in Seq(WALRecord)
    BY <1>3, LogType, Zenon DEF Whole
  <2>2. \A i \in DOMAIN wal_file : wal_file[i].crc = "match" /\ wal_file[i].lsn = i
    <3>1. \A i \in DOMAIN wal_file : i \in 1 .. Len(wal_file) /\ wal_file[i] \in WALRecord
      BY <2>1
    <3>2. \A x \in WALRecord : x.crc = "mismatch" \/ x.crc = "match"
      BY DEF WALRecord
    <3>3. \A i \in DOMAIN wal_file : wal_file[i].crc # "mismatch" /\ wal_file[i].lsn = i
      BY <1>3, <3>1, Zenon DEF Whole, Stops
    <3> QED
      BY <3>1, <3>2, <3>3, Zenon
  <2> QED
    BY <2>1, <2>2, NumbersGoOn, Zenon
<1>5. SerialLog'
  BY <1>1, <1>2, <1>4 DEF RecoveryInv, SerialLog
<1>6. SessionInv /\ CheckpointInv
  BY DEF RecoveryInv
<1>7. SessionInv'
  BY <1>1, <1>6, SMTT(30) DEF SessionInv
<1>9. CheckpointInv'
  <2>1. PathsInv'
    BY <1>1, <1>6 DEF CheckpointInv, PathsInv
  <2> QED
    BY <1>1, <1>2, <1>6, <2>1, Zenon DEF CheckpointInv
<1>10. AckedInv'
  BY <1>1, <1>2 DEF RecoveryInv, AckedInv
<1>11. PICK b : b = checkpoint.last_flushed_lsn
  OBVIOUS
<1>12. b \in 0 .. Len(wal_file)
  BY <1>6, <1>11 DEF CheckpointInv
<1>13. FilesHold(wal_file', disk', files', b)
  BY <1>1, <1>2, <1>6, <1>11, Zenon DEF CheckpointInv
<1>14. Holds(wal_file', active_memtable', b, Len(wal_file'))
  <2>1. Holds(wal_file, Replayed(b), b, Len(wal_file))
    BY <1>3, <1>12, ReplayHolds
  <2>2. active_memtable' = Replayed(b)
    BY <1>1, <1>11, SMTT(30)
  <2> QED
    BY <1>2, <2>1, <2>2
<1>15. \A u \in Thread : CallInv(call[u], b)'
  <2> SUFFICES ASSUME NEW u \in Thread PROVE CallInv(call[u], b)'
    BY Zenon
  <2>1. call'[u].pc = "idle"
    BY <1>1, <1>6 DEF SessionInv, Idle
  <2> QED
    BY <2>1, ZenonT(30) DEF CallInv, FlushPcs
<1>16. CutAt(b)'
  BY <1>13, <1>14, <1>15, Zenon DEF CutAt
<1>17. (\E a \in 0 .. Len(wal_file) : CutAt(a))'
  BY <1>2, <1>12, <1>16, Zenon
<1> QED
  BY <1>5, <1>7, <1>9, <1>10, <1>17, Zenon DEF RecoveryInv

\* A step that changes nothing but where the compaction thread sleeps.
LEMMA SameKeeps ==
  ASSUME RecoveryInv, loop' \in {"wait", "exited"},
         UNCHANGED <<walVars, engine, active_memtable, call, writes, acked_version,
                     files, disk, damaged, checkpoint, next_sst_sequence>>
  PROVE  RecoveryInv'
<1>1. wal_file' = wal_file
  BY DEF walVars
<1>2. SerialLog'
  BY DEF RecoveryInv, SerialLog, walVars
<1>3. SessionInv'
  BY ZenonT(30) DEF RecoveryInv, SessionInv
<1>4. CheckpointInv' /\ AckedInv'
  BY <1>1, Zenon DEF RecoveryInv, CheckpointInv, PathsInv, AckedInv
<1>5. ASSUME NEW b, CutAt(b) PROVE CutAt(b)'
  <2>1. \A u \in Thread : CallInv(call[u], b)'
    <3> SUFFICES ASSUME NEW u \in Thread PROVE CallInv(call[u], b)'
      OBVIOUS
    <3>1. PICK d : d = call[u]
      OBVIOUS
    <3>2. CallInv(d, b)
      BY <1>5, <3>1, Zenon DEF CutAt
    <3>3. CallInv(d, b)'
      BY <1>1, <3>2, SameCall, Zenon
    <3> QED
      BY <3>1, <3>3, ZenonT(30) DEF CallInv, NewFile, VersionAt
  <2> QED
    BY <1>1, <1>5, <2>1, Zenon DEF CutAt
<1>6. engine' # "closed" => (\E a \in 0 .. Len(wal_file) : CutAt(a))'
  BY <1>1, <1>5, Zenon DEF RecoveryInv
<1> QED
  BY <1>2, <1>3, <1>4, <1>6, Zenon DEF RecoveryInv

\* Without a compaction the thread has nothing to do but exit.
LEMMA LoopKeeps ==
  ASSUME RecoveryInv, Undisturbed', LoopStep
  PROVE  RecoveryInv'
<1>1. loop \in {"wait", "exited"} /\ ~ compacted'
  BY DEF RecoveryInv, SessionInv, Undisturbed
<1>2. LoopExit
  BY <1>1 DEF LoopStep, LoopStart, LoopCompact, LoopCaptureLsn, LoopCollectFiles,
      LoopSaveCheckpoint
<1>3. /\ loop' = "exited"
      /\ UNCHANGED <<walVars, engine, active_memtable, call, writes, acked_version,
                     files, disk, damaged, checkpoint, next_sst_sequence>>
  BY <1>2, Zenon DEF LoopExit, compactionVars, sessionVars, clientVars
<1> QED
  BY <1>3, SameKeeps
----------------------------------------------------------------------------
(* The theorems.                                                           *)

\* The empty directory satisfies the invariant.
LEMMA RecoveryInvInit ==
  ASSUME EngineInit
  PROVE  RecoveryInv
<1>1. /\ wal_file = <<>> /\ write_file = "closed" /\ unflushed = <<>>
      /\ disk = <<>> /\ damaged = {} /\ files = {}
      /\ engine = "closed" /\ call = [t \in Thread |-> Idle]
      /\ loop = "exited" /\ next_sst_sequence = 1 /\ checkpoint = NoCheckpoint
      /\ writes = 0 /\ acked_version = [k \in Key |-> NoVersion]
  BY Zenon DEF EngineInit, WALInit, CompactionInit
<1>2. Whole(wal_file) /\ Len(wal_file) = 0
  BY <1>1 DEF Whole, Settled, EngineLog
<1>3. SerialLog
  BY <1>1, <1>2 DEF SerialLog
<1>4. SessionInv
  BY <1>1, SMTT(30) DEF SessionInv
<1>5. checkpoint.last_flushed_lsn = 0 /\ checkpoint.sstables = {}
  BY <1>1 DEF NoCheckpoint
<1>6. \A k : NoEntry(wal_file, k, 0, 0)
  BY SMTT(30) DEF NoEntry
<1>7. FilesHold(wal_file, disk, {}, 0)
  BY <1>6, ZenonT(30) DEF FilesHold
<1>8. CheckpointInv
  <2>1. checkpoint.last_flushed_lsn \in 0 .. Len(wal_file)
    BY <1>2, <1>5, SMTT(30)
  <2>2. PathsInv
    BY <1>1, <1>5 DEF PathsInv
  <2> QED
    BY <1>1, <1>5, <1>7, <2>1, <2>2, Zenon DEF CheckpointInv
<1>9. AckedInv
  BY <1>1, <1>2 DEF AckedInv, NoVersion
<1> QED
  BY <1>1, <1>3, <1>4, <1>8, <1>9 DEF RecoveryInv

\* Every step of the engine preserves it, under the conditions.
LEMMA RecoveryInvNext ==
  ASSUME RecoveryInv, Quiet, Quiet', [EngineNext]_engineVars
  PROVE  RecoveryInv'
<1>1. ASSUME NEW t \in Thread, ClientStep(t) PROVE RecoveryInv'
  <2>1. ASSUME NEW kind \in Calls \cap {"put", "delete"}, NEW k \in Key, WriteEntry(t, kind, k)
        PROVE  RecoveryInv'
    BY <2>1, WriteKeeps, Zenon
  <2>2. CASE ApplyToMemTable(t)
    BY <2>2, ApplyKeeps, Zenon
  <2>3. CASE CallFlush(t)
    BY <2>3, CallFlushKeeps, Zenon
  <2>4. CASE SwapMemTable(t)
    BY <2>4, SwapKeeps, Zenon
  <2>5. CASE CaptureFlushLsn(t)
    BY <2>5, CaptureKeeps, Zenon
  <2>6. CASE WriteLevel0(t)
    BY <2>6, WriteLevel0Keeps, Zenon
  <2>7. CASE RegisterLevel0(t)
    BY <2>7, RegisterKeeps, Zenon
  <2>8. CASE CollectFiles(t)
    BY <2>8, CollectKeeps, Zenon
  <2>9. CASE SaveFlushCheckpoint(t)
    BY <2>9, SaveKeeps, Zenon
  <2>10. ASSUME NEW k \in Key, GetFromMemTable(t, k) PROVE RecoveryInv'
    BY <2>10, GetKeeps, Zenon
  <2>11. CASE GetSnapshot(t)
    BY <2>11, SnapshotKeeps, Zenon
  <2>12. CASE GetFromSSTable(t)
    BY <2>12, SearchKeeps, Zenon
  <2>13. CASE GetReturns(t)
    BY <2>13, GetReturnsKeeps, Zenon
  <2>14. CASE Destroy(t)
    BY <2>14, DestroyKeeps, Zenon
  <2>15. CASE JoinThenFlush(t)
    BY <2>15, JoinKeeps, Zenon
  <2>16. CASE Destroyed(t)
    BY <2>16, DestroyedKeeps, Zenon
  <2> QED
    BY <1>1, <2>1, <2>2, <2>3, <2>4, <2>5, <2>6, <2>7, <2>8, <2>9, <2>10, <2>11, <2>12, <2>13,
       <2>14, <2>15, <2>16, Zenon DEF ClientStep
<1>2. CASE LoopStep
  BY <1>2, LoopKeeps, Zenon DEF Quiet
<1>3. CASE Open
  BY <1>3, OpenKeeps, Zenon
<1>4. CASE Crash \/ CrashInAppend \/ CrashInFlush \/ CrashInMerge
  <2>1. ~ CrashInMerge
    BY DEF CrashInMerge, RecoveryInv, SessionInv
  <2> QED
    BY <1>4, <2>1, CrashKeeps, CrashInAppendKeeps, CrashInFlushKeeps, Zenon DEF Quiet
<1>5. CASE UNCHANGED engineVars
  <2>1. /\ loop' = loop
        /\ UNCHANGED <<walVars, engine, active_memtable, call, writes, acked_version,
                       files, disk, damaged, checkpoint, next_sst_sequence>>
    BY <1>5, Zenon DEF engineVars, sessionVars, clientVars, loopVars, compactionVars
  <2>2. loop \in {"wait", "exited"}
    BY DEF RecoveryInv, SessionInv
  <2> QED
    BY <2>1, <2>2, SameKeeps
<1> QED
  BY <1>1, <1>2, <1>3, <1>4, <1>5, Zenon DEF EngineNext

\* What recovery would rebuild is what the log says.
StoreIsLog == \A k \in Key : Latest(wal_file, k, Recovered(k))

\* What recovery would rebuild is in the log, or there is nothing.
LEMMA RecoveryInvStore ==
  ASSUME RecoveryInv
  PROVE  StoreIsLog
<1>1. /\ Whole(wal_file) /\ checkpoint.last_flushed_lsn \in 0 .. Len(wal_file)
      /\ FilesHold(wal_file, disk, checkpoint.sstables, checkpoint.last_flushed_lsn)
      /\ damaged = {}
  BY Zenon DEF RecoveryInv, SerialLog, CheckpointInv, PathsInv
<1> QED
  BY <1>1, RecoveredIsLatest, Zenon DEF StoreIsLog

\* So is what the engine has, when no call has a part of it.
LEMMA RecoveryInvCurrent ==
  ASSUME RecoveryInv, engine # "closed", \A t \in Thread : ~ Apart(call[t]), NEW k \in Key
  PROVE  Recovered(k) = Current(k)
<1>1. PICK b \in 0 .. Len(wal_file) : CutAt(b)
  BY Zenon DEF RecoveryInv
<1>2. wal_file \in EngineLog /\ damaged = {}
  BY Zenon DEF RecoveryInv, SerialLog, Whole, CheckpointInv, PathsInv
<1>3. FilesHold(wal_file, disk, files, b) /\ Holds(wal_file, active_memtable, b, Len(wal_file))
  BY <1>1, Zenon DEF CutAt
<1>4. Latest(wal_file, k, Current(k))
  BY <1>2, <1>3, CurrentIsLatest, Zenon
<1>5. Latest(wal_file, k, Recovered(k))
  BY RecoveryInvStore, Zenon DEF StoreIsLog
<1> QED
  BY <1>2, <1>4, <1>5, OneLatest, Zenon

\* With no call under way it is what the engine holds.
LEMMA RecoveryInvExact ==
  ASSUME Undisturbed => RecoveryInv
  PROVE  RecoveryIsExact
<1> SUFFICES ASSUME RecoveryInv, engine = "open", \A t \in Thread : At(t, "idle"),
                    NEW k \in Key
             PROVE  Recovered(k) = Current(k)
  BY Zenon DEF RecoveryIsExact
<1>1. \A t \in Thread : ~ Apart(call[t])
  BY DEF At, Apart
<1> QED
  BY <1>1, RecoveryInvCurrent

\* What recovery skips is in the files of the checkpoint.
LEMMA RecoveryInvSkipped ==
  ASSUME Undisturbed => RecoveryInv
  PROVE  SkippedIsFlushed
<1> SUFFICES ASSUME RecoveryInv, NEW i \in Readable(wal_file),
                    wal_file[i].lsn <= checkpoint.last_flushed_lsn
             PROVE  FirstVersion(checkpoint.sstables, wal_file[i].payload.key).id
                      >= wal_file[i].payload.version.id
  BY Zenon DEF SkippedIsFlushed
<1>1. PICK l, S : l = checkpoint.last_flushed_lsn /\ S = checkpoint.sstables
  OBVIOUS
<1>2. /\ Whole(wal_file) /\ l \in 0 .. Len(wal_file) /\ FilesHold(wal_file, disk, S, l)
      /\ damaged = {}
  BY <1>1, Zenon DEF RecoveryInv, SerialLog, CheckpointInv, PathsInv
<1>3. wal_file \in EngineLog /\ Len(wal_file) \in Nat
  BY <1>2 DEF Whole, EngineLog
<1>4. i \in 1 .. Len(wal_file)
  BY <1>3, SMTT(30) DEF Readable, EngineLog
<1>5. wal_file[i].lsn = i /\ i <= l
  BY <1>1, <1>2, <1>4, Zenon DEF Whole
<1>6. PICK k : k = KeyAt(wal_file, i)
  BY Zenon
<1>7. k \in Key
  BY <1>3, <1>4, <1>6, EntryType, Zenon
<1>8. ~ NoEntry(wal_file, k, 0, l)
  BY <1>2, <1>4, <1>5, <1>6 DEF NoEntry
<1>9. PICK j \in 1 .. l : /\ LastEntry(wal_file, j, k, 0, l)
                          /\ FirstVersion(S, k) = VersionAt(wal_file, j)
  BY <1>2, <1>3, <1>7, <1>8, SearchFinds, Zenon
<1>10. j >= i
  <2>1. i \notin j + 1 .. l
    BY <1>6, <1>9, Zenon DEF LastEntry
  <2> QED
    BY <1>2, <1>3, <1>4, <1>5, <1>9, <2>1
<1>11. VersionAt(wal_file, j).id >= VersionAt(wal_file, i).id
  <2>1. j \in 1 .. Len(wal_file)
    BY <1>2, <1>3, <1>9, SMTT(30)
  <2>2. VersionAt(wal_file, j).id \in Nat /\ VersionAt(wal_file, i).id \in Nat
    BY <1>3, <1>4, <2>1, EntryType, Zenon
  <2>3. i < j => VersionAt(wal_file, i).id < VersionAt(wal_file, j).id
    BY <1>2, <1>4, <2>1, Zenon DEF Whole
  <2>4. i < j \/ i = j
    BY <1>4, <1>10, <2>1
  <2> QED
    BY <2>2, <2>3, <2>4, SMTT(30)
<1>12. FirstVersion(S, k).id >= VersionAt(wal_file, i).id
  BY <1>9, <1>11, Zenon
<1> QED
  BY <1>1, <1>6, <1>12, Zenon DEF KeyAt, VersionAt
----------------------------------------------------------------------------
(* What has disturbed the engine stays.                                    *)

\* Failed accesses to SSTables are counted.
FailuresCounted == io_errors \in Nat

\* No step of the engine takes one back.
LEMMA FailuresStay ==
  ASSUME EngineNext
  PROVE  io_errors' \in {io_errors, io_errors + 1}
<1>1. CASE Open \/ Crash \/ CrashInAppend \/ CrashInFlush \/ CrashInMerge
  BY <1>1, ZenonT(30) DEF Open, Crash, CrashInAppend, CrashInFlush, CrashInMerge, ObjectGone
<1>2. ASSUME NEW t \in Thread, ClientStep(t) PROVE io_errors' \in {io_errors, io_errors + 1}
  <2>1. CASE WriteLevel0(t)
    BY <2>1, ZenonT(30) DEF WriteLevel0
  <2>2. CASE Destroyed(t) \/ RegisterLevel0(t)
    BY <2>2, Zenon DEF Destroyed, ObjectGone, RegisterLevel0
  <2>3. CASE ~ (WriteLevel0(t) \/ Destroyed(t) \/ RegisterLevel0(t))
    <3>1. UNCHANGED compactionVars
      BY <1>2, <2>3, Zenon DEF ClientStep, WriteEntry, ApplyToMemTable, CallFlush, SwapMemTable,
          CaptureFlushLsn, CollectFiles, SaveFlushCheckpoint, GetFromMemTable, GetSnapshot,
          GetFromSSTable, GetReturns, Destroy, JoinThenFlush
    <3> QED
      BY <3>1, Zenon DEF compactionVars
  <2> QED
    BY <2>1, <2>2, <2>3, ZenonT(30)
<1>3. CASE LoopStep
  <2>1. CASE LoopStart \/ LoopCompact
    BY <2>1, ZenonT(30)
       DEF LoopStart, SelectCompactionFiles, LoopCompact, MergeFiles, MergeReadFails,
        MergeWriteFails, AddOutput, RemoveInput, UnlinkInput
  <2>2. CASE LoopCaptureLsn \/ LoopCollectFiles \/ LoopSaveCheckpoint \/ LoopExit
    <3>1. UNCHANGED compactionVars
      BY <2>2, Zenon DEF LoopCaptureLsn, LoopCollectFiles, LoopSaveCheckpoint, LoopExit
    <3> QED
      BY <3>1 DEF compactionVars
  <2> QED
    BY <1>3, <2>1, <2>2, Zenon DEF LoopStep
<1> QED
  BY <1>1, <1>2, <1>3, Zenon DEF EngineNext

\* Nor does one forget a compaction or an SSTable that was overwritten.
LEMMA PastStays ==
  ASSUME EngineNext
  PROVE  (compacted => compacted') /\ (overwritten => overwritten')
<1> DEFINE Stays == (compacted => compacted') /\ (overwritten => overwritten')
<1> SUFFICES Stays
  OBVIOUS
<1>1. UNCHANGED pastVars => Stays
  BY SMTT(10) DEF pastVars
<1>2. TakesNextPath => Stays
  BY SMTT(10) DEF TakesNextPath
<1>3. LoopStart => Stays
  BY SMTT(10) DEF LoopStart
<1> HIDE DEF Stays
<1>4. CASE Open \/ Crash \/ CrashInAppend \/ CrashInFlush \/ CrashInMerge
  BY <1>1, <1>2, <1>4, Zenon DEF Open, Crash, CrashInAppend, CrashInFlush, CrashInMerge
<1>5. ASSUME NEW t \in Thread, ClientStep(t) PROVE Stays
  <2>1. CASE WriteLevel0(t)
    BY <1>2, <2>1, Zenon DEF WriteLevel0
  <2>2. CASE ~ WriteLevel0(t)
    <3>1. UNCHANGED pastVars
      BY <1>5, <2>2, ZenonT(30)
         DEF ClientStep, WriteEntry, ApplyToMemTable, CallFlush, SwapMemTable,
          CaptureFlushLsn, RegisterLevel0, CollectFiles, SaveFlushCheckpoint, GetFromMemTable,
          GetSnapshot, GetFromSSTable, GetReturns, Destroy, JoinThenFlush, Destroyed, pastVars
    <3> QED
      BY <1>1, <3>1, Zenon
  <2> QED
    BY <2>1, <2>2, Zenon
<1>6. CASE LoopStep
  BY <1>1, <1>3, <1>6, Zenon DEF LoopStep, LoopCompact, LoopCaptureLsn, LoopCollectFiles,
     LoopSaveCheckpoint, LoopExit
<1> QED
  BY <1>4, <1>5, <1>6, Zenon DEF EngineNext
=============================================================================
