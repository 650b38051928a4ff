--------------------------- MODULE ComponentProofs ---------------------------
(***************************************************************************)
(* The components that stand by themselves and keep their state in memory, *)
(* each for every value of its constants: the block cache, the state of a  *)
(* Raft node, the metrics registry and the thread pool.                    *)
(***************************************************************************)
EXTENDS RaftState, MetricsRegistry, ThreadPool, BlockCache, WellFoundedInduction, TLAPS

----------------------------------------------------------------------------
(* The block cache, for any number of threads and keys, any sizes and any  *)
(* capacity: what its statistics count, and that its list is always exact  *)
(* (the bytes in it, the order of use, the data of the last Put).          *)
(*                                                                         *)
(* misses_ is read and written by readers that share the lock; the         *)
(* exclusive lock of Promote keeps the other writer away from them.        *)

\* The elements of two sequences one after the other.
LEMMA ConcatAt ==
  ASSUME NEW V, NEW s \in Seq(V), NEW t \in Seq(V), NEW i \in 1 .. Len(s) + Len(t)
  PROVE  (s \o t)[i] = IF i <= Len(s) THEN s[i] ELSE t[i - Len(s)]
OBVIOUS

\* Sequences that agree everywhere are the same.
LEMMA SameSequence ==
  ASSUME NEW V, NEW s \in Seq(V), NEW t \in Seq(V),
         Len(s) = Len(t), \A i \in 1 .. Len(t) : s[i] = t[i]
  PROVE  s = t
OBVIOUS

----------------------------------------------------------------------------
(* The statistics.                                                         *)

\* What a reader has read never exceeds the Gets that had returned by then, less
\* the hits; and as long as no two readers overlapped there is at most one, and
\* what it has read is still the count.
CountInv ==
  /\ {hits, misses, gets} \subseteq Nat
  /\ hits + misses <= gets
  /\ \A t \in Thread : call[t].at = "missed" =>
       call[t].read \in Nat /\ hits + call[t].read <= gets
  /\ ~ overlapped =>
       /\ hits + misses = gets
       /\ \A t \in Thread : call[t].at = "missed" => call[t].read = misses
       /\ \A t, u \in Thread : call[t].at = "missed" /\ call[u].at = "missed" => t = u
  /\ DOMAIN call = Thread

\* Nothing has been counted at first.
LEMMA CountInvInit == CacheInit => CountInv
  BY DEF CacheInit, CountInv, Idle

\* A lookup reads the count; a second reader makes the misses overlap.
LEMMA LookUpCounts ==
  ASSUME CountInv, NEW t \in Thread, NEW key \in Key, LookUp(t, key)
  PROVE  CountInv'
<1>1. CASE IsCached(key)
  BY <1>1, Zenon DEF LookUp, CountInv
<1>2. CASE ~ IsCached(key)
  BY <1>2, Zenon DEF LookUp, CountInv, NoReaders
<1> QED
  BY <1>1, <1>2

\* A miss is counted on top of what was read.
LEMMA CountMissCounts ==
  ASSUME CountInv, NEW t \in Thread, CountMiss(t)
  PROVE  CountInv'
BY DEF CountMiss, CountInv, Idle

\* Under the exclusive lock nobody is between the read and the write.
LEMMA PromoteCounts ==
  ASSUME CountInv, NEW t \in Thread, Promote(t)
  PROVE  CountInv'
<1>1. \/ hits' = hits + 1 /\ misses' = misses
      \/ misses' = misses + 1 /\ hits' = hits
  BY DEF Promote
<1> QED
  BY <1>1, SMTT(30) DEF Promote, CountInv, NoReaders, Idle

\* Put does not touch the counters.
LEMMA CountInvNext == CountInv /\ [CacheNext]_cacheVars => CountInv'
<1> SUFFICES ASSUME CountInv, [CacheNext]_cacheVars PROVE CountInv'
  OBVIOUS
<1>1. CASE UNCHANGED cacheVars
  BY <1>1 DEF cacheVars, CountInv
<1>2. ASSUME NEW t \in Thread, NEW key \in Key, NEW size \in Size, Put(t, key, size)
      PROVE  CountInv'
  BY <1>2 DEF Put, CountInv
<1> QED
  BY <1>1, <1>2, LookUpCounts, CountMissCounts, PromoteCounts DEF CacheNext

\* No Get is counted twice, and one is lost only when two misses overlap,
\* although misses_ is incremented under the shared lock.
THEOREM MissesLostOnlyWhenOverlapping == CacheSpec => []LostOnlyWhenMissesOverlap
<1>1. CountInv => LostOnlyWhenMissesOverlap
  BY DEF CountInv, LostOnlyWhenMissesOverlap
<1> QED
  BY <1>1, CountInvInit, CountInvNext, PTL DEF CacheSpec
----------------------------------------------------------------------------
(* Numbers.                                                                *)

\* Counting up from zero reaches every number up to N.
LEMMA Counting ==
  ASSUME NEW N \in Nat, NEW S, 0 \in S, \A n \in 0 .. N - 1 : n \in S => n + 1 \in S
  PROVE  \A n \in 0 .. N : n \in S
<1> DEFINE Bad == {n \in 0 .. N : n \notin S}
<1> SUFFICES ASSUME Bad # {} PROVE FALSE
  OBVIOUS
<1>1. PICK x \in Bad : \A y \in Bad : ~ (<<y, x>> \in OpToRel(<, Nat))
  <2>1. Bad \subseteq Nat
    OBVIOUS
  <2> HIDE DEF Bad
  <2> QED
    BY <2>1, NatLessThanWellFounded, WFMin, Zenon
<1>2. \A y \in Bad : ~ (y < x)
  <2>1. Bad \subseteq Nat
    OBVIOUS
  <2> HIDE DEF Bad
  <2> QED
    BY <1>1, <2>1, Zenon DEF OpToRel
<1>3. x # 0 /\ x - 1 \in 0 .. N - 1 /\ x - 1 \notin Bad
  BY <1>2
<1> QED
  BY <1>3

----------------------------------------------------------------------------
(* The bytes of a list.                                                    *)

\* Items of the list.
Sized == [key : Key, size : Nat, put : Nat]

\* f[n] is the size of the first n items.
Sums(list, f) ==
  /\ f \in [0 .. Len(list) -> Nat]
  /\ f[0] = 0
  /\ \A n \in 1 .. Len(list) : f[n] = f[n - 1] + list[n].size

\* The sizes of the prefixes of a list can be summed up.
LEMMA SumsExist ==
  ASSUME NEW list \in Seq(Sized)
  PROVE  \E f : Sums(list, f)
<1> DEFINE SumTo(n, f) ==
             /\ f \in [0 .. n -> Nat]
             /\ f[0] = 0
             /\ \A i \in 1 .. n : f[i] = f[i - 1] + list[i].size
           S == {n \in 0 .. Len(list) : \E f : SumTo(n, f)}
<1>1. 0 \in S
  <2>1. SumTo(0, [i \in 0 .. 0 |-> 0])
    OBVIOUS
  <2> HIDE DEF SumTo
  <2> QED
    BY <2>1
<1>2. ASSUME NEW n \in 0 .. Len(list) - 1, n \in S
      PROVE  n + 1 \in S
  <2>1. PICK f : SumTo(n, f)
    BY <1>2, ZenonT(30)
  <2>2. list[n + 1].size \in Nat
    <3>1. list[n + 1] \in Sized
      OBVIOUS
    <3> QED
      BY <3>1, ZenonT(30) DEF Sized
  <2> DEFINE g == [i \in 0 .. n + 1 |-> IF i = n + 1 THEN f[n] + list[n + 1].size ELSE f[i]]
  <2>3. SumTo(n + 1, g)
    <3>1. f \in [0 .. n -> Nat] /\ f[n] \in Nat /\ n \in Nat
      BY <2>1
    <3>2. g \in [0 .. n + 1 -> Nat] /\ g[0] = 0
      BY <2>1, <2>2, <3>1, SMTT(30)
    <3>3. ASSUME NEW i \in 1 .. n + 1 PROVE g[i] = g[i - 1] + list[i].size
      <4>1. CASE i = n + 1
        BY <3>1, <4>1, SMTT(30)
      <4>2. CASE i # n + 1
        BY <2>1, <3>1, <4>2
      <4> QED
        BY <4>1, <4>2
    <3> QED
      BY <3>2, <3>3, ZenonT(30)
  <2> HIDE DEF SumTo, g
  <2> QED
    BY <2>3
<1>3. Len(list) \in S
  <2> HIDE DEF S
  <2>1. Len(list) \in Nat
    OBVIOUS
  <2>2. \A n \in 0 .. Len(list) : n \in S
    BY <1>1, <1>2, <2>1, Counting, ZenonT(30)
  <2> QED
    BY <2>1, <2>2
<1> QED
  BY <1>3, Zenon DEF Sums

\* So the recursive function that defines Bytes is that sum.
LEMMA BytesIsSum ==
  ASSUME NEW list \in Seq(Sized)
  PROVE  \E f : Sums(list, f) /\ Bytes(list) = f[Len(list)]
<1> DEFINE Def(f) == f = [n \in 0 .. Len(list) |-> IF n = 0 THEN 0 ELSE f[n - 1] + list[n].size]
           h == CHOOSE f : Def(f)
<1>1. PICK f : Sums(list, f)
  BY SumsExist, ZenonT(30)
<1>2. Def(f)
  BY <1>1 DEF Sums
<1>3. Def(h)
  <2> HIDE DEF Def
  <2> QED BY <1>2, ZenonT(30)
<1>4. Bytes(list) = h[Len(list)]
  BY DEF Bytes
<1>5. \A n \in 0 .. Len(list) : h[n] = IF n = 0 THEN 0 ELSE h[n - 1] + list[n].size
  <2> HIDE DEF h
  <2> QED
    BY <1>3, ZenonT(30)
<1>6. h \in [0 .. Len(list) -> Nat]
  <2> HIDE DEF h
  <2> DEFINE S == {n \in 0 .. Len(list) : h[n] \in Nat}
  <2>1. 0 \in S
    BY <1>5
  <2>2. ASSUME NEW n \in 0 .. Len(list) - 1, n \in S PROVE n + 1 \in S
    <3>1. list[n + 1] \in Sized
      OBVIOUS
    <3> QED
      BY <1>5, <2>2, <3>1, SMTT(30) DEF Sized
  <2>3. \A n \in 0 .. Len(list) : n \in S
    <3>1. Len(list) \in Nat
      OBVIOUS
    <3> HIDE DEF S
    <3> QED
      BY <2>1, <2>2, <3>1, Counting, SMTT(30)
  <2> QED
    BY <1>3, <2>3, ZenonT(30)
<1>7. Sums(list, h)
  <2> HIDE DEF h
  <2> QED
    BY <1>5, <1>6 DEF Sums
<1> HIDE DEF h
<1> QED
  BY <1>4, <1>7

\* The bytes of two lists, one behind the other, add up.
LEMMA BytesOfConcat ==
  ASSUME NEW a \in Seq(Sized), NEW b \in Seq(Sized)
  PROVE  Bytes(a \o b) = Bytes(a) + Bytes(b)
<1>1. PICK f : Sums(a, f) /\ Bytes(a) = f[Len(a)]
  BY BytesIsSum
<1>2. PICK g : Sums(b, g) /\ Bytes(b) = g[Len(b)]
  BY BytesIsSum
<1>3. PICK h : Sums(a \o b, h) /\ Bytes(a \o b) = h[Len(a \o b)]
  <2>1. a \o b \in Seq(Sized)
    OBVIOUS
  <2> QED
    BY <2>1, BytesIsSum, Zenon
<1>4. Len(a \o b) = Len(a) + Len(b) /\ Len(a) \in Nat /\ Len(b) \in Nat
  OBVIOUS
<1>5. \A n \in 0 .. Len(a) : h[n] = f[n]
  <2> DEFINE S == {n \in 0 .. Len(a) : h[n] = f[n]}
  <2>1. 0 \in S
    BY <1>1, <1>3, <1>4 DEF Sums
  <2>2. ASSUME NEW n \in 0 .. Len(a) - 1, n \in S PROVE n + 1 \in S
    <3>1. (a \o b)[n + 1] = a[n + 1]
      OBVIOUS
    <3> QED
      BY <1>1, <1>3, <1>4, <2>2, <3>1, SMTT(30) DEF Sums
  <2> HIDE DEF S
  <2>3. \A n \in 0 .. Len(a) : n \in S
    BY <1>4, <2>1, <2>2, Counting, Zenon
  <2> QED
    BY <2>3, Zenon DEF S
<1>6. \A n \in 0 .. Len(b) : h[Len(a) + n] = f[Len(a)] + g[n]
  <2> DEFINE S == {n \in 0 .. Len(b) : h[Len(a) + n] = f[Len(a)] + g[n]}
  <2>1. 0 \in S
    BY <1>1, <1>2, <1>3, <1>4, <1>5, SMTT(30) DEF Sums
  <2>2. ASSUME NEW n \in 0 .. Len(b) - 1, n \in S PROVE n + 1 \in S
    <3>1. (a \o b)[Len(a) + n + 1] = b[n + 1]
      OBVIOUS
    <3>2. h[Len(a) + n + 1] = h[Len(a) + n] + b[n + 1].size
      BY <1>3, <1>4, <3>1, SMTT(30) DEF Sums
    <3>3. g[n + 1] = g[n] + b[n + 1].size
      BY <1>2, <1>4 DEF Sums
    <3>4. b[n + 1].size \in Nat /\ f[Len(a)] \in Nat /\ g[n] \in Nat
      <4>1. b[n + 1] \in Sized
        OBVIOUS
      <4>2. f[Len(a)] \in Nat
        BY <1>1, <1>4 DEF Sums
      <4>3. g[n] \in Nat
        BY <1>2, <1>4, SMTT(30) DEF Sums
      <4> QED
        BY <4>1, <4>2, <4>3, ZenonT(30) DEF Sized
    <3> QED
      BY <2>2, <3>2, <3>3, <3>4, <1>4, SMTT(30)
  <2> HIDE DEF S
  <2>3. \A n \in 0 .. Len(b) : n \in S
    BY <1>4, <2>1, <2>2, Counting, Zenon
  <2> QED
    BY <2>3, Zenon DEF S
<1> QED
  BY <1>1, <1>2, <1>3, <1>4, <1>6, SMTT(30)

\* A list has a number of bytes, ...
LEMMA BytesIsNat ==
  ASSUME NEW list \in Seq(Sized)
  PROVE  Bytes(list) \in Nat
<1>1. PICK f : Sums(list, f) /\ Bytes(list) = f[Len(list)]
  BY BytesIsSum, ZenonT(30)
<1> QED
  BY <1>1 DEF Sums

\* ... one item has its own, ...
LEMMA BytesOfOne ==
  ASSUME NEW item \in Sized
  PROVE  Bytes(<<item>>) = item.size
<1>1. PICK f : Sums(<<item>>, f) /\ Bytes(<<item>>) = f[Len(<<item>>)]
  <2>1. <<item>> \in Seq(Sized)
    OBVIOUS
  <2> QED
    BY <2>1, BytesIsSum, Zenon
<1>2. f[1] = f[0] + item.size /\ f[0] = 0 /\ item.size \in Nat
  BY <1>1 DEF Sums, Sized
<1> QED
  BY <1>1, <1>2

\* ... and no item has none.
LEMMA BytesOfNone == Bytes(<<>>) = 0
<1>1. PICK f : Sums(<<>>, f) /\ Bytes(<<>>) = f[Len(<<>>)]
  <2>1. <<>> \in Seq(Sized)
    OBVIOUS
  <2> QED
    BY <2>1, BytesIsSum, Zenon
<1> QED
  BY <1>1, ZenonT(30) DEF Sums
----------------------------------------------------------------------------
(* Moving to the front.                                                    *)

\* splice: an element of the list goes, changed or not, to its front.
LEMMA ToFront ==
  ASSUME NEW S, NEW s \in Seq(S), NEW p \in 1 .. Len(s), NEW e \in S
  PROVE  /\ <<e>> \o RemoveAt(s, p) \in Seq(S)
         /\ Len(<<e>> \o RemoveAt(s, p)) = Len(s)
         /\ (<<e>> \o RemoveAt(s, p))[1] = e
         /\ \A i \in 2 .. Len(s) :
              (<<e>> \o RemoveAt(s, p))[i] = IF i <= p THEN s[i - 1] ELSE s[i]
<1> DEFINE a == SubSeq(s, 1, p - 1)
           b == SubSeq(s, p + 1, Len(s))
<1>1. a \in Seq(S) /\ Len(a) = p - 1 /\ \A i \in 1 .. p - 1 : a[i] = s[i]
  OBVIOUS
<1>2. b \in Seq(S) /\ Len(b) = Len(s) - p /\ \A i \in 1 .. Len(s) - p : b[i] = s[p + i]
  OBVIOUS
<1>3. RemoveAt(s, p) = a \o b
  BY DEF RemoveAt
<1> HIDE DEF a, b
<1>0. a \in Seq(S) /\ b \in Seq(S)
  BY <1>1, <1>2, ZenonT(30)
<1>4. a \o b \in Seq(S) /\ Len(a \o b) = Len(s) - 1
  <2>1. a \o b \in Seq(S) /\ Len(a \o b) = Len(a) + Len(b)
    BY <1>0
  <2> QED
    BY <1>1, <1>2, <2>1
<1>5. ASSUME NEW i \in 1 .. Len(s) - 1
      PROVE  (a \o b)[i] = IF i < p THEN s[i] ELSE s[i + 1]
  <2>1. CASE i < p
    BY <1>1, <1>2, <2>1
  <2>2. CASE ~ (i < p)
    <3>1. (a \o b)[i] = b[i - (p - 1)]
      BY <1>1, <1>2, <2>2
    <3>2. i - (p - 1) \in 1 .. Len(s) - p
      BY <2>2
    <3>3. p + (i - (p - 1)) = i + 1
      OBVIOUS
    <3> QED
      BY <1>2, <2>2, <3>1, <3>2, <3>3, SMTT(30)
  <2> QED
    BY <2>1, <2>2, Zenon
<1> DEFINE c == a \o b
<1> HIDE DEF c
<1>6. c \in Seq(S) /\ Len(c) = Len(s) - 1
      /\ \A i \in 1 .. Len(s) - 1 : c[i] = IF i < p THEN s[i] ELSE s[i + 1]
  BY <1>4, <1>5, Zenon DEF c
<1>7. <<e>> \o c \in Seq(S) /\ Len(<<e>> \o c) = Len(s) /\ (<<e>> \o c)[1] = e
  BY <1>6
<1>8. \A i \in 2 .. Len(s) : (<<e>> \o c)[i] = c[i - 1]
  BY <1>6
<1>9. ASSUME NEW i \in 2 .. Len(s)
      PROVE  (<<e>> \o c)[i] = IF i <= p THEN s[i - 1] ELSE s[i]
  <2>1. i - 1 \in 1 .. Len(s) - 1 /\ (i - 1) + 1 = i /\ (i - 1 < p <=> i <= p)
    OBVIOUS
  <2> QED
    BY <1>6, <1>8, <2>1, Zenon
<1> QED
  BY <1>3, <1>7, <1>9, Zenon DEF c

\* A nonempty set of naturals has a least element, and Min is it.
LEMMA MinIsMember ==
  ASSUME NEW S \in SUBSET Nat, S # {}
  PROVE  Min(S) \in S
<1>1. PICK x \in S : \A y \in S : ~ (<<y, x>> \in OpToRel(<, Nat))
  BY NatLessThanWellFounded, WFMin, Zenon
<1>2. \A y \in S : ~ (y < x)
  BY <1>1, Zenon DEF OpToRel
<1>3. \A y \in S : x <= y
  BY <1>2
<1> QED
  BY <1>3, Zenon DEF Min

\* No element comes twice.
Distinct(s) == \A i, j \in 1 .. Len(s) : s[i] = s[j] => i = j

\* The three properties of the list, with what makes them inductive: no key was
\* used twice in `recency', and every cached key was used.
CacheInv ==
  /\ lru_list \in Seq(Sized)
  /\ recency \in Seq(Key) /\ Distinct(recency)
  /\ Len(lru_list) <= Len(recency)
  /\ newest \in [Key -> Nat]
  /\ calls \in Nat
  /\ DOMAIN call = Thread
  /\ \A t \in Thread : call[t].at = "found" => call[t].key \in Key
  /\ SizeIsAccounted /\ CachedAreMostRecent /\ CachedIsNewest

\* hash_map_ leads to the one item of the key, and that item is erased.
LEMMA WithoutIs ==
  ASSUME CacheInv, NEW key \in Key
  PROVE  /\ IsCached(key) =>
              \E p \in 1 .. Len(lru_list) : /\ lru_list[p].key = key
                                            /\ Without(lru_list, key) = RemoveAt(lru_list, p)
                                            /\ Item(key) = lru_list[p]
         /\ ~ IsCached(key) => Without(lru_list, key) = lru_list
<1> DEFINE I == {i \in 1 .. Len(lru_list) : lru_list[i].key = key}
<1>1. ASSUME IsCached(key)
      PROVE  \E p \in 1 .. Len(lru_list) : /\ lru_list[p].key = key
                                           /\ Without(lru_list, key) = RemoveAt(lru_list, p)
                                           /\ Item(key) = lru_list[p]
  <2>1. I # {} /\ I \in SUBSET Nat
    BY <1>1 DEF IsCached
  <2>2. Without(lru_list, key) = RemoveAt(lru_list, Min(I))
    BY <1>1, <2>1, ZenonT(30) DEF Without, RemoveFirstMatch, SelectInSeq, IsCached
  <2>3. Min(I) \in I
    <3> HIDE DEF I
    <3> QED
      BY <2>1, MinIsMember, ZenonT(30)
  <2>4. PICK p \in I : p = Min(I)
    BY <2>3, Zenon
  <2>5. Item(key) = lru_list[p]
    <3>1. \A i \in I : i = p
      BY <2>4, SMTT(30) DEF CacheInv, CachedAreMostRecent, Distinct
    <3>2. (CHOOSE i \in 1 .. Len(lru_list) : lru_list[i].key = key) \in I
      BY <2>4
    <3> QED
      BY <3>1, <3>2, ZenonT(30) DEF Item
  <2> QED
    BY <2>2, <2>4, <2>5, Zenon
<1>2. ASSUME ~ IsCached(key) PROVE Without(lru_list, key) = lru_list
  BY <1>2 DEF Without, RemoveFirstMatch, IsCached
<1> QED
  BY <1>1, <1>2

\* The key leaves its old place in the order of use, if it has one.
LEMMA RemoveFirstIs ==
  ASSUME CacheInv, NEW key \in Key
  PROVE  \/ /\ \A i \in 1 .. Len(recency) : recency[i] # key
            /\ Used(key) = <<key>> \o recency
         \/ \E q \in 1 .. Len(recency) : /\ recency[q] = key
                                         /\ Used(key) = <<key>> \o RemoveAt(recency, q)
<1> DEFINE I == {i \in 1 .. Len(recency) : recency[i] = key}
<1>1. CASE I = {}
  BY <1>1, Zenon DEF Used, RemoveFirst
<1>2. CASE I # {}
  <2>1. Min(I) \in I
    <3>1. I \in SUBSET Nat
      OBVIOUS
    <3> HIDE DEF I
    <3> QED
      BY <1>2, <3>1, MinIsMember, ZenonT(30)
  <2>2. RemoveFirst(recency, key) = RemoveAt(recency, Min(I))
    BY <1>2, ZenonT(30) DEF RemoveFirst, SelectInSeq
  <2>3. PICK q \in I : q = Min(I)
    BY <2>1, Zenon
  <2> QED
    BY <2>2, <2>3, Zenon DEF Used
<1> QED
  BY <1>1, <1>2, Zenon

\* t is s with e in front, and without its p-th element if it has one.
Fronted(t, s, p, e) ==
  /\ p \in 1 .. Len(s) + 1
  /\ Len(t) = IF p <= Len(s) THEN Len(s) ELSE Len(s) + 1
  /\ t[1] = e
  /\ \A i \in 2 .. Len(t) : t[i] = IF i <= p THEN s[i - 1] ELSE s[i]

\* The list after a hit or a Put, before evictions.
LEMMA ListFronted ==
  ASSUME CacheInv, NEW key \in Key, NEW item \in Sized, item.key = key
  PROVE  /\ <<item>> \o Without(lru_list, key) \in Seq(Sized)
         /\ \E p : /\ Fronted(<<item>> \o Without(lru_list, key), lru_list, p, item)
                   /\ p <= Len(lru_list) => lru_list[p].key = key
                   /\ p > Len(lru_list) => ~ IsCached(key)
<1>1. lru_list \in Seq(Sized) /\ Len(lru_list) \in Nat
  BY DEF CacheInv
<1>2. CASE IsCached(key)
  <2>1. PICK p \in 1 .. Len(lru_list) : /\ lru_list[p].key = key
                                        /\ Without(lru_list, key) = RemoveAt(lru_list, p)
    BY <1>2, WithoutIs, Zenon
  <2>2. /\ <<item>> \o RemoveAt(lru_list, p) \in Seq(Sized)
        /\ Len(<<item>> \o RemoveAt(lru_list, p)) = Len(lru_list)
        /\ (<<item>> \o RemoveAt(lru_list, p))[1] = item
        /\ \A i \in 2 .. Len(lru_list) :
              (<<item>> \o RemoveAt(lru_list, p))[i] =
                IF i <= p THEN lru_list[i - 1] ELSE lru_list[i]
    BY <1>1, ToFront
  <2>3. Fronted(<<item>> \o RemoveAt(lru_list, p), lru_list, p, item)
    <3> DEFINE list == <<item>> \o RemoveAt(lru_list, p)
    <3> HIDE DEF list
    <3> QED
      BY <1>1, <2>2 DEF Fronted, list
  <2> QED
    BY <1>1, <2>1, <2>2, <2>3, SMTT(30)
<1>3. CASE ~ IsCached(key)
  <2>1. Without(lru_list, key) = lru_list
    BY <1>3, WithoutIs, ZenonT(30)
  <2>2. /\ <<item>> \o lru_list \in Seq(Sized)
        /\ Len(<<item>> \o lru_list) = Len(lru_list) + 1
        /\ (<<item>> \o lru_list)[1] = item
        /\ \A i \in 2 .. Len(lru_list) + 1 : (<<item>> \o lru_list)[i] = lru_list[i - 1]
    BY <1>1
  <2>3. Fronted(<<item>> \o lru_list, lru_list, Len(lru_list) + 1, item)
    BY <1>1, <2>2 DEF Fronted
  <2> QED
    BY <1>1, <1>3, <2>1, <2>2, <2>3, SMTT(30)
<1> QED
  BY <1>2, <1>3, ZenonT(30)

\* The order of use after a hit or a Put.
LEMMA UsedFronted ==
  ASSUME CacheInv, NEW key \in Key
  PROVE  /\ Used(key) \in Seq(Key)
         /\ \E q : /\ Fronted(Used(key), recency, q, key)
                   /\ q <= Len(recency) => recency[q] = key
                   /\ q > Len(recency) => \A i \in 1 .. Len(recency) : recency[i] # key
<1>1. recency \in Seq(Key) /\ Len(recency) \in Nat
  BY DEF CacheInv
<1>2. ASSUME NEW q \in 1 .. Len(recency), recency[q] = key,
             Used(key) = <<key>> \o RemoveAt(recency, q)
      PROVE  Used(key) \in Seq(Key) /\ Fronted(Used(key), recency, q, key)
  <2>1. /\ <<key>> \o RemoveAt(recency, q) \in Seq(Key)
        /\ Len(<<key>> \o RemoveAt(recency, q)) = Len(recency)
        /\ (<<key>> \o RemoveAt(recency, q))[1] = key
        /\ \A i \in 2 .. Len(recency) :
              (<<key>> \o RemoveAt(recency, q))[i] = IF i <= q THEN recency[i - 1] ELSE recency[i]
    BY <1>1, ToFront
  <2> DEFINE used == <<key>> \o RemoveAt(recency, q)
  <2> HIDE DEF used
  <2> QED
    BY <1>1, <1>2, <2>1, SMTT(30) DEF Fronted, used
<1>3. ASSUME Used(key) = <<key>> \o recency
      PROVE  Used(key) \in Seq(Key) /\ Fronted(Used(key), recency, Len(recency) + 1, key)
  <2>1. /\ <<key>> \o recency \in Seq(Key)
        /\ Len(<<key>> \o recency) = Len(recency) + 1
        /\ (<<key>> \o recency)[1] = key
        /\ \A i \in 2 .. Len(recency) + 1 : (<<key>> \o recency)[i] = recency[i - 1]
    BY <1>1
  <2> QED
    BY <1>1, <1>3, <2>1 DEF Fronted
<1>4. CASE \E q \in 1 .. Len(recency) : /\ recency[q] = key
                                      /\ Used(key) = <<key>> \o RemoveAt(recency, q)
  <2>1. PICK q \in 1 .. Len(recency) : /\ recency[q] = key
                                      /\ Used(key) = <<key>> \o RemoveAt(recency, q)
    BY <1>4, Zenon
  <2>2. ~ (q > Len(recency))
    BY <1>1
  <2> QED
    BY <1>2, <2>1, <2>2, Zenon
<1>5. CASE /\ \A i \in 1 .. Len(recency) : recency[i] # key
           /\ Used(key) = <<key>> \o recency
  <2>1. ~ (Len(recency) + 1 <= Len(recency))
    BY <1>1
  <2> QED
    BY <1>3, <1>5, <2>1, Zenon
<1> QED
  BY <1>4, <1>5, RemoveFirstIs, Zenon

\* Moving a key to the front does not repeat it.
LEMMA FrontedIsDistinct ==
  ASSUME NEW t, NEW s, NEW p, NEW e, Len(s) \in Nat, Fronted(t, s, p, e), Distinct(s),
         p <= Len(s) => s[p] = e,
         p > Len(s) => \A i \in 1 .. Len(s) : s[i] # e
  PROVE  Distinct(t)
<1>1. p \in Nat /\ Len(t) \in Nat /\ Len(t) <= Len(s) + 1
  BY DEF Fronted
<1> DEFINE from(i) == IF i <= p THEN i - 1 ELSE i
<1>2. \A i \in 2 .. Len(t) : from(i) \in 1 .. Len(s) /\ from(i) # p /\ t[i] = s[from(i)]
  BY <1>1 DEF Fronted
<1>3. \A i, j \in 2 .. Len(t) : from(i) = from(j) => i = j
  BY <1>1
<1> HIDE DEF from
<1>4. \A i \in 2 .. Len(t) : t[i] # e
  <2> SUFFICES ASSUME NEW i \in 2 .. Len(t), t[i] = e PROVE FALSE
    OBVIOUS
  <2>1. from(i) \in 1 .. Len(s) /\ from(i) # p /\ s[from(i)] = e
    BY <1>2, Zenon
  <2>2. CASE p <= Len(s)
    BY <1>1, <2>1, <2>2 DEF Distinct, Fronted
  <2>3. CASE p > Len(s)
    BY <2>1, <2>3, ZenonT(30)
  <2> QED
    BY <1>1, <2>2, <2>3, SMTT(30)
<1>5. \A i, j \in 2 .. Len(t) : t[i] = t[j] => i = j
  BY <1>2, <1>3 DEF Distinct
<1> QED
  BY <1>1, <1>4, <1>5, SMTT(30) DEF Distinct, Fronted

\* The list and the order of use with `item' in front, in step with each other.
InStep(list, used, item) ==
  /\ list \in Seq(Sized) /\ used \in Seq(Key)
  /\ Len(list) \in Nat \ {0} /\ list[1] = item
  /\ Distinct(used) /\ Len(list) <= Len(used)
  /\ \A i \in 1 .. Len(list) : list[i].key = used[i]
  /\ \A i \in 2 .. Len(list) :
       list[i].key # item.key /\ list[i].put = newest[list[i].key]

\* Both orders move the key to the front; the other items keep their data.
LEMMA Moved ==
  ASSUME CacheInv, NEW key \in Key, NEW item \in Sized, item.key = key
  PROVE  InStep(<<item>> \o Without(lru_list, key), Used(key), item)
<1>1. /\ Len(lru_list) \in Nat /\ Len(recency) \in Nat /\ Len(lru_list) <= Len(recency)
      /\ Distinct(recency)
      /\ \A i \in 1 .. Len(lru_list) : lru_list[i].key = recency[i]
      /\ \A i \in 1 .. Len(lru_list) : lru_list[i].put = newest[lru_list[i].key]
  <2>1. lru_list \in Seq(Sized) /\ recency \in Seq(Key)
    BY Zenon DEF CacheInv
  <2>2. Len(lru_list) \in Nat /\ Len(recency) \in Nat
    BY <2>1
  <2> QED
    BY <2>2, Zenon DEF CacheInv, CachedAreMostRecent, CachedIsNewest
<1>2. PICK list, p :
        /\ list \in Seq(Sized) /\ list = <<item>> \o Without(lru_list, key)
        /\ Fronted(list, lru_list, p, item)
        /\ p <= Len(lru_list) => lru_list[p].key = key
        /\ p > Len(lru_list) => ~ IsCached(key)
  BY ListFronted, Zenon
<1>3. PICK used, q :
        /\ used \in Seq(Key) /\ used = Used(key)
        /\ Fronted(used, recency, q, key)
        /\ q <= Len(recency) => recency[q] = key
        /\ q > Len(recency) => \A i \in 1 .. Len(recency) : recency[i] # key
  BY UsedFronted, Zenon
<1>4. Distinct(used)
  BY <1>1, <1>3, FrontedIsDistinct, Zenon
<1>5. p \in Nat /\ q \in Nat /\ Len(list) \in Nat \ {0} /\ Len(used) \in Nat
  BY <1>1, <1>2, <1>3 DEF Fronted
<1>6. p = q \/ (p = Len(lru_list) + 1 /\ q >= p)
  <2>1. CASE p <= Len(lru_list)
    <3>1. recency[p] = key /\ p \in 1 .. Len(recency)
      BY <1>1, <1>2, <2>1 DEF Fronted
    <3>2. q \in 1 .. Len(recency) /\ recency[q] = key
      BY <1>1, <1>3, <3>1, SMTT(30) DEF Fronted
    <3> QED
      BY <1>1, <3>1, <3>2, ZenonT(30) DEF Distinct
  <2>2. CASE p > Len(lru_list)
    <3>1. \A i \in 1 .. Len(lru_list) : recency[i] # key
      BY <1>1, <1>2, <2>2, Zenon DEF IsCached
    <3>2. q > Len(lru_list)
      BY <1>1, <1>3, <3>1, SMTT(30) DEF Fronted
    <3>3. p = Len(lru_list) + 1
      BY <1>1, <1>2, <2>2, SMTT(30) DEF Fronted
    <3> QED
      BY <1>1, <1>5, <3>2, <3>3
  <2> QED
    BY <1>1, <1>5, <2>1, <2>2
<1>7. Len(list) <= Len(used)
  BY <1>1, <1>2, <1>3, <1>5, <1>6, SMTT(30) DEF Fronted
<1>8. ASSUME NEW i \in 2 .. Len(list)
      PROVE  \E j \in 1 .. Len(lru_list) : list[i] = lru_list[j] /\ used[i] = recency[j]
  <2> DEFINE j == IF i <= p THEN i - 1 ELSE i
  <2>1. j \in 1 .. Len(lru_list) /\ list[i] = lru_list[j]
    BY <1>1, <1>2, <1>5, SMTT(30) DEF Fronted
  <2>2. j = IF i <= q THEN i - 1 ELSE i
    BY <1>1, <1>2, <1>5, <1>6, SMTT(30) DEF Fronted
  <2>3. i \in 2 .. Len(used)
    BY <1>5, <1>7
  <2>4. used[i] = recency[j]
    BY <1>3, <2>2, <2>3, Zenon DEF Fronted
  <2> HIDE DEF j
  <2> QED
    BY <2>1, <2>4, ZenonT(30)
<1>9. \A i \in 2 .. Len(list) : list[i].key = used[i] /\ list[i].put = newest[list[i].key]
  BY <1>1, <1>8, ZenonT(30)
<1>10. list[1] = item /\ used[1] = key
  BY <1>2, <1>3, ZenonT(30) DEF Fronted
<1>11. \A i \in 1 .. Len(list) : list[i].key = used[i]
  BY <1>5, <1>9, <1>10
<1>12. \A i \in 2 .. Len(list) : list[i].key # key
  BY <1>4, <1>5, <1>7, <1>10, <1>11 DEF Distinct
<1> QED
  BY <1>2, <1>3, <1>4, <1>5, <1>7, <1>9, <1>10, <1>11, <1>12, Zenon DEF InStep

\* Taking the item of a key out takes its bytes off.
LEMMA BytesWithout ==
  ASSUME CacheInv, NEW key \in Key
  PROVE  /\ Without(lru_list, key) \in Seq(Sized)
         /\ Bytes(Without(lru_list, key))
              = Bytes(lru_list) - (IF IsCached(key) THEN Item(key).size ELSE 0)
<1>1. lru_list \in Seq(Sized)
  BY Zenon DEF CacheInv
<1>2. CASE ~ IsCached(key)
  BY <1>1, <1>2, WithoutIs, BytesIsNat, SMTT(30)
<1>3. CASE IsCached(key)
  <2>1. PICK p \in 1 .. Len(lru_list) : /\ Without(lru_list, key) = RemoveAt(lru_list, p)
                                        /\ Item(key) = lru_list[p]
    BY <1>3, WithoutIs, Zenon
  <2> DEFINE a == SubSeq(lru_list, 1, p - 1)
             b == SubSeq(lru_list, p + 1, Len(lru_list))
             x == lru_list[p]
  <2>2. a \in Seq(Sized) /\ b \in Seq(Sized) /\ x \in Sized
    BY <1>1
  <2>3. lru_list = a \o (<<x>> \o b)
    <3>1. <<x>> \o b = SubSeq(lru_list, p, Len(lru_list))
      BY <1>1
    <3>2. a \o SubSeq(lru_list, p, Len(lru_list)) = lru_list
      BY <1>1
    <3> QED
      BY <3>1, <3>2, Zenon
  <2>4. RemoveAt(lru_list, p) = a \o b
    BY DEF RemoveAt
  <2> HIDE DEF a, b, x
  <2>5. <<x>> \in Seq(Sized) /\ <<x>> \o b \in Seq(Sized) /\ a \o b \in Seq(Sized)
    BY <2>2
  <2>6. Bytes(lru_list) = Bytes(a) + (x.size + Bytes(b))
    BY <2>2, <2>3, <2>5, BytesOfConcat, BytesOfOne, Zenon
  <2>7. Bytes(a \o b) = Bytes(a) + Bytes(b)
    BY <2>2, BytesOfConcat, Zenon
  <2>8. Bytes(a) \in Nat /\ Bytes(b) \in Nat /\ x.size \in Nat
    BY <2>2, BytesIsNat, Zenon DEF Sized
  <2>9. Item(key) = x
    BY <2>1, Zenon DEF x
  <2> QED
    BY <1>3, <2>1, <2>4, <2>5, <2>6, <2>7, <2>8, <2>9, SMTT(30)
<1> QED
  BY <1>2, <1>3, Zenon
----------------------------------------------------------------------------
(* The methods of the cache keep the list exact.                           *)

\* The constructor makes an empty cache.
LEMMA CacheInvInit == CacheInit => CacheInv
<1> SUFFICES ASSUME CacheInit PROVE CacheInv
  OBVIOUS
<1>1. SizeIsAccounted
  BY BytesOfNone, CacheConstants DEF CacheInit, SizeIsAccounted
<1> QED
  BY <1>1 DEF CacheInit, CacheInv, Distinct, Idle, CachedAreMostRecent, CachedIsNewest

\* The lookup and the counting of a miss leave the list alone.
LEMMA ReadKeepsCache ==
  ASSUME CacheInv, NEW t \in Thread,
         \/ CountMiss(t)
         \/ \E key \in Key : LookUp(t, key)
  PROVE  CacheInv'
<1>1. UNCHANGED <<lru_list, current_size_bytes, newest, recency>> /\ calls' \in Nat
  BY DEF CountMiss, LookUp, CacheInv
<1>2. DOMAIN call' = Thread /\ \A u \in Thread : call'[u].at = "found" => call'[u].key \in Key
  <2>1. CASE CountMiss(t)
    BY <2>1, ZenonT(30) DEF CountMiss, CacheInv, Idle
  <2>2. ASSUME NEW key \in Key, LookUp(t, key)
        PROVE  <1>2!:
    <3>1. CASE IsCached(key)
      BY <2>2, <3>1, Zenon DEF LookUp, CacheInv
    <3>2. CASE ~ IsCached(key)
      BY <2>2, <3>2, ZenonT(30) DEF LookUp, CacheInv
    <3> QED
      BY <3>1, <3>2, ZenonT(30)
  <2> QED
    BY <2>1, <2>2, ZenonT(30)
<1> QED
  BY <1>1, <1>2, Zenon DEF CacheInv, SizeIsAccounted, CachedAreMostRecent, CachedIsNewest

\* A hit moves the item to the front of both orders.
LEMMA PromoteKeepsCache ==
  ASSUME CacheInv, NEW t \in Thread, Promote(t)
  PROVE  CacheInv'
<1>1. DOMAIN call' = Thread /\ \A u \in Thread : call'[u].at = "found" => call'[u].key \in Key
  BY ZenonT(30) DEF Promote, CacheInv, Idle
<1>2. UNCHANGED <<current_size_bytes, calls, newest>>
  BY ZenonT(30) DEF Promote
<1>3. CASE UNCHANGED <<lru_list, recency>>
  BY <1>1, <1>2, <1>3, ZenonT(30) DEF CacheInv, SizeIsAccounted, CachedAreMostRecent, CachedIsNewest
<1>4. ASSUME NEW key \in Key, IsCached(key),
             lru_list' = <<Item(key)>> \o Without(lru_list, key), recency' = Used(key)
      PROVE  CacheInv'
  <2>1. PICK p \in 1 .. Len(lru_list) : Item(key) = lru_list[p] /\ lru_list[p].key = key
    BY <1>4, WithoutIs, ZenonT(30)
  <2>2. Item(key) \in Sized /\ Item(key).key = key /\ Item(key).put = newest[key]
    BY <2>1 DEF CacheInv, CachedIsNewest
  <2>3. PICK item \in Sized : item = Item(key)
    BY <2>2, Zenon
  <2>4. PICK list \in Seq(Sized), used \in Seq(Key) :
          /\ list = <<item>> \o Without(lru_list, key) /\ used = Used(key)
          /\ InStep(list, used, item)
    <3>1. item.key = key
      BY <2>2, <2>3, Zenon
    <3>2. InStep(<<item>> \o Without(lru_list, key), Used(key), item)
      BY <3>1, Moved, Zenon
    <3>3. <<item>> \o Without(lru_list, key) \in Seq(Sized) /\ Used(key) \in Seq(Key)
      BY <3>2, Zenon DEF InStep
    <3> QED
      BY <3>2, <3>3, Zenon
  <2>5. Bytes(list) = Bytes(lru_list)
    <3>1. Without(lru_list, key) \in Seq(Sized) /\ <<item>> \in Seq(Sized)
      BY BytesWithout
    <3>2. Bytes(list) = item.size + Bytes(Without(lru_list, key))
      BY <2>4, <3>1, BytesOfConcat, BytesOfOne, Zenon
    <3>3. Bytes(lru_list) \in Nat /\ item.size \in Nat
      BY BytesIsNat, Zenon DEF CacheInv, Sized
    <3> QED
      BY <1>4, <2>3, <3>2, <3>3, BytesWithout, SMTT(30)
  <2>6. \A i \in 1 .. Len(list) : list[i].put = newest[list[i].key]
    BY <2>2, <2>3, <2>4 DEF InStep
  <2>7. lru_list' = list /\ recency' = used
    BY <1>4, <2>3, <2>4, ZenonT(30) DEF InStep
  <2>8. SizeIsAccounted'
    BY <1>2, <2>5, <2>7, ZenonT(30) DEF CacheInv, SizeIsAccounted
  <2>9. CachedAreMostRecent' /\ CachedIsNewest'
    BY <1>2, <2>4, <2>6, <2>7, Zenon DEF InStep, CachedAreMostRecent, CachedIsNewest
  <2> QED
    BY <1>1, <1>2, <2>4, <2>7, <2>8, <2>9, ZenonT(30) DEF InStep, CacheInv
<1>5. call[t].at = "found" /\ call[t].key \in Key
  BY ZenonT(30) DEF Promote, CacheInv
<1> QED
  BY <1>3, <1>4, <1>5, ZenonT(30) DEF Promote

\* What is kept and what is dropped make up the list.
LEMMA SplitBack ==
  ASSUME NEW S, NEW s \in Seq(S), NEW n \in 0 .. Len(s)
  PROVE  Back(s, n) \in Seq(S) /\ s = SubSeq(s, 1, Len(s) - n) \o Back(s, n)
<1>1. CASE n = 0
  <2>1. SubSeq(s, 1, Len(s) - n) = s /\ Back(s, n) = <<>>
    BY <1>1, SMTT(30) DEF Back
  <2> QED
    BY <2>1
<1>2. CASE n # 0
  <2>1. Len(s) - n \in 0 .. Len(s) - 1
    BY <1>2
  <2>2. PICK m \in 0 .. Len(s) - 1 : m = Len(s) - n
    BY <2>1, Zenon
  <2>3. Back(s, n) = SubSeq(s, m + 1, Len(s)) /\ SubSeq(s, 1, Len(s) - n) = SubSeq(s, 1, m)
    BY <2>2, Zenon DEF Back
  <2> DEFINE a == SubSeq(s, 1, m)
             b == SubSeq(s, m + 1, Len(s))
  <2>4. a \in Seq(S) /\ Len(a) = m /\ \A i \in 1 .. m : a[i] = s[i]
    OBVIOUS
  <2>5. b \in Seq(S) /\ Len(b) = Len(s) - m /\ \A i \in 1 .. Len(s) - m : b[i] = s[m + i]
    OBVIOUS
  <2>6. s = a \o b
    <3> HIDE DEF a, b
    <3>0. Len(s) \in Nat /\ m \in Nat
      OBVIOUS
    <3>1. a \in Seq(S) /\ b \in Seq(S)
      BY <2>4, <2>5, Zenon
    <3>2. Len(a \o b) = Len(s)
      <4>1. Len(a \o b) = Len(a) + Len(b)
        BY <3>1
      <4> QED
        BY <2>4, <2>5, <3>0, <4>1, SMTT(30)
    <3>3. ASSUME NEW i \in 1 .. Len(s) PROVE (a \o b)[i] = s[i]
      <4>1. CASE i <= m
        BY <2>4, <3>1, <4>1, SMTT(30)
      <4>2. CASE i > m
        <5>0. i \in 1 .. Len(a) + Len(b) /\ ~ (i <= Len(a)) /\ Len(a) = m
          BY <2>4, <2>5, <3>0, <4>2, SMTT(30)
        <5>1. (a \o b)[i] = b[i - m]
          BY <3>1, <5>0, ConcatAt, Zenon
        <5>2. i - m \in 1 .. Len(s) - m /\ m + (i - m) = i
          BY <4>2
        <5> QED
          BY <2>5, <5>1, <5>2, Zenon
      <4>3. i <= m \/ i > m
        BY <3>0
      <4> QED
        BY <4>1, <4>2, <4>3, Zenon
    <3>4. a \o b \in Seq(S)
      BY <3>1
    <3> QED
      BY <3>2, <3>3, <3>4, SameSequence, Zenon
  <2> HIDE DEF a, b
  <2> QED
    BY <2>3, <2>5, <2>6, ZenonT(30) DEF a, b
<1> QED
  BY <1>1, <1>2, ZenonT(30)

\* The item goes to the front, and what is dropped is taken from the back.
LEMMA PutKeepsCache ==
  ASSUME CacheInv, NEW t \in Thread, NEW key \in Key, NEW size \in Size, Put(t, key, size)
  PROVE  CacheInv'
<1>1. UNCHANGED call /\ calls' = calls + 1
  BY ZenonT(30) DEF Put
<1>2. CASE size > capacity_bytes
  BY <1>1, <1>2, SMTT(30) DEF Put, CacheInv, SizeIsAccounted, CachedAreMostRecent, CachedIsNewest
<1>3. CASE ~ (size > capacity_bytes)
  <2>1. PICK item \in Sized : item = [key |-> key, size |-> size, put |-> calls + 1]
    <3>1. size \in Nat /\ calls + 1 \in Nat
      BY CacheConstants, SMTT(30) DEF CacheInv
    <3> QED
      BY <3>1, Zenon DEF Sized
  <2>2. PICK list \in Seq(Sized), used \in Seq(Key) :
          /\ list = <<item>> \o Without(lru_list, key) /\ used = Used(key)
          /\ InStep(list, used, item)
    <3>1. item.key = key
      BY <2>1, ZenonT(30)
    <3>2. InStep(<<item>> \o Without(lru_list, key), Used(key), item)
      BY <3>1, Moved, Zenon
    <3>3. <<item>> \o Without(lru_list, key) \in Seq(Sized) /\ Used(key) \in Seq(Key)
      BY <3>2, Zenon DEF InStep
    <3> QED
      BY <3>2, <3>3, Zenon
  <2>3. list = WithItem(item)
    BY <2>1, <2>2, ZenonT(30) DEF WithItem
  <2>4. Bytes(list) = SizeWith(item)
    <3>1. Without(lru_list, key) \in Seq(Sized) /\ <<item>> \in Seq(Sized)
      BY BytesWithout
    <3>2. Bytes(list) = item.size + Bytes(Without(lru_list, key))
      BY <2>2, <3>1, BytesOfConcat, BytesOfOne, Zenon
    <3>3. Bytes(lru_list) \in Nat /\ item.size \in Nat /\ item.key = key
      BY <2>1, BytesIsNat, Zenon DEF CacheInv, Sized
    <3>4. IsCached(key) => Item(key).size \in Nat
      <4>1. \A i \in 1 .. Len(lru_list) : lru_list[i].size \in Nat
        <5>1. \A i \in 1 .. Len(lru_list) : lru_list[i] \in Sized
          BY DEF CacheInv
        <5> QED
          BY <5>1, Zenon DEF Sized
      <4> QED
        BY <4>1, WithoutIs, Zenon
    <3> QED
      BY <3>2, <3>3, <3>4, BytesWithout, SMTT(30) DEF SizeWith, CacheInv, SizeIsAccounted
  <2>5. PICK n : n = Evictions(list, SizeWith(item))
    OBVIOUS
  <2>6. /\ lru_list' = SubSeq(list, 1, Len(list) - n)
        /\ current_size_bytes' = SizeWith(item) - Bytes(Back(list, n))
        /\ newest' = [newest EXCEPT ![key] = calls + 1]
        /\ recency' = used
    BY <1>3, <2>1, <2>2, <2>3, <2>5, Zenon DEF InStep, Put
  <2>7. /\ n \in 0 .. Len(list)
        /\ n # Len(list) => SizeWith(item) - Bytes(Back(list, n)) <= capacity_bytes
    <3> DEFINE N == {Len(list)} \cup
             {m \in 0 .. Len(list) : SizeWith(item) - Bytes(Back(list, m)) <= capacity_bytes}
    <3>1. N \in SUBSET Nat /\ N # {}
      BY <2>2 DEF InStep
    <3>2. n = Min(N)
      BY <2>5, ZenonT(30) DEF Evictions
    <3>3. n \in N
      <4> HIDE DEF N
      <4> QED
        BY <3>1, <3>2, MinIsMember, ZenonT(30)
    <3> QED
      BY <2>2, <3>3, SMTT(30) DEF InStep
  <2> DEFINE kept == SubSeq(list, 1, Len(list) - n)
  <2>8. /\ kept \in Seq(Sized) /\ Len(kept) = Len(list) - n
        /\ \A i \in 1 .. Len(list) - n : kept[i] = list[i]
    BY <2>7, SMTT(30)
  <2>9. Back(list, n) \in Seq(Sized) /\ list = kept \o Back(list, n)
    BY <2>7, SplitBack, Zenon
  <2> HIDE DEF kept
  <2>10. Bytes(list) = Bytes(kept) + Bytes(Back(list, n))
    BY <2>8, <2>9, BytesOfConcat, Zenon
  <2>11. Bytes(kept) \in Nat /\ Bytes(Back(list, n)) \in Nat
    BY <2>8, <2>9, BytesIsNat, Zenon
  <2>12. lru_list' = kept
    BY <2>6, Zenon DEF kept
  <2>13. current_size_bytes' = Bytes(kept)
    BY <2>4, <2>6, <2>10, <2>11, SMTT(30)
  <2>14. Bytes(kept) <= capacity_bytes
    <3>1. CASE n # Len(list)
      BY <2>4, <2>7, <2>10, <2>11, <3>1, SMTT(30)
    <3>2. CASE n = Len(list)
      <4>1. kept = <<>>
        BY <2>2, <2>8, <3>2, SMTT(30) DEF InStep
      <4> QED
        BY <4>1, BytesOfNone, CacheConstants, SMTT(30)
    <3> QED
      BY <3>1, <3>2, Zenon
  <2>15. ASSUME NEW i \in 1 .. Len(kept) PROVE i \in 1 .. Len(list) /\ kept[i] = list[i]
    <3>1. Len(list) \in Nat /\ n \in Nat /\ Len(kept) = Len(list) - n
      BY <2>7, <2>8, SMTT(30)
    <3>2. i \in 1 .. Len(list) - n /\ i \in 1 .. Len(list)
      BY <3>1
    <3> QED
      BY <2>8, <3>2, ZenonT(30)
  <2>16. SizeIsAccounted'
    BY <2>12, <2>13, <2>14, ZenonT(30) DEF SizeIsAccounted
  <2>17. CachedAreMostRecent'
    <3>1. \A i \in 1 .. Len(list) : list[i].key = used[i]
      BY <2>2, Zenon DEF InStep
    <3>2. recency' = used
      BY <2>6, Zenon
    <3> QED
      BY <2>12, <2>15, <3>1, <3>2, Zenon DEF CachedAreMostRecent
  <2>18. newest' \in [Key -> Nat] /\ newest'[key] = calls + 1
         /\ \A k \in Key : k # key => newest'[k] = newest[k]
    BY <2>6 DEF CacheInv
  <2>19. \A i \in 1 .. Len(list) : list[i].put = newest'[list[i].key]
    <3>1. list[1].put = newest'[list[1].key]
      BY <2>1, <2>2, <2>18 DEF InStep
    <3>2. \A i \in 2 .. Len(list) : list[i].key \in Key
      <4>1. list \in Seq(Sized) /\ Len(list) \in Nat
        BY <2>2, ZenonT(30) DEF InStep
      <4>2. \A i \in 2 .. Len(list) : list[i] \in Sized
        BY <4>1, SMTT(30)
      <4> QED
        BY <4>2, ZenonT(30) DEF Sized
    <3>3. \A i \in 2 .. Len(list) : list[i].put = newest'[list[i].key]
      <4>1. item.key = key
        BY <2>1, ZenonT(30)
      <4>2. \A i \in 2 .. Len(list) : list[i].key # key /\ list[i].put = newest[list[i].key]
        BY <2>2, <4>1, Zenon DEF InStep
      <4> QED
        BY <2>18, <3>2, <4>2, Zenon
    <3>4. \A i \in 1 .. Len(list) : i = 1 \/ i \in 2 .. Len(list)
      <4>1. Len(list) \in Nat
        BY <2>2, ZenonT(30) DEF InStep
      <4> QED
        BY <4>1, SMTT(30)
    <3> QED
      BY <3>1, <3>3, <3>4, ZenonT(30)
  <2>20. CachedIsNewest'
    BY <2>12, <2>15, <2>19, ZenonT(30) DEF CachedIsNewest
  <2>21. lru_list' \in Seq(Sized) /\ Len(lru_list') <= Len(recency')
    <3>1. list \in Seq(Sized) /\ used \in Seq(Key) /\ Len(list) <= Len(used)
      BY <2>2, ZenonT(30) DEF InStep
    <3>2. Len(list) \in Nat /\ Len(used) \in Nat
      BY <3>1, SMTT(30)
    <3>3. n \in 0 .. Len(list) /\ Len(kept) = Len(list) - n
      BY <2>7, <2>8, ZenonT(30)
    <3>4. Len(kept) <= Len(used)
      BY <3>1, <3>2, <3>3, SMTT(30)
    <3> QED
      BY <2>6, <2>8, <2>12, <3>4, ZenonT(30)
  <2> QED
    BY <1>1, <2>2, <2>6, <2>16, <2>17, <2>18, <2>20, <2>21, Zenon DEF InStep, CacheInv
<1> QED
  BY <1>2, <1>3, ZenonT(30)

\* No step of Get or Put breaks it.
LEMMA CacheInvNext == CacheInv /\ [CacheNext]_cacheVars => CacheInv'
<1> SUFFICES ASSUME CacheInv, [CacheNext]_cacheVars PROVE CacheInv'
  OBVIOUS
<1>1. CASE UNCHANGED cacheVars
  BY <1>1, Zenon DEF cacheVars, CacheInv, SizeIsAccounted, CachedAreMostRecent, CachedIsNewest
<1> QED
  BY <1>1, ReadKeepsCache, PromoteKeepsCache, PutKeepsCache, ZenonT(30) DEF CacheNext

\* What holds of the list of the cache, whatever the threads that use it.
LEMMA CacheInvariant == CacheSpec => []CacheInv
  BY CacheInvInit, CacheInvNext, PTL DEF CacheSpec

\* current_size_bytes_ never drifts from what the list holds, and never exceeds
\* the capacity, for any sizes, capacity, threads and keys.
THEOREM SizeAlwaysAccounted == CacheSpec => []SizeIsAccounted
<1>1. CacheInv => SizeIsAccounted
  BY Zenon DEF CacheInv
<1> QED
  BY <1>1, CacheInvariant, PTL

\* The cached blocks are the ones used last, in the order of use, although the
\* two locks of a hit let other calls in between.
THEOREM CachedAlwaysMostRecent == CacheSpec => []CachedAreMostRecent
<1>1. CacheInv => CachedAreMostRecent
  BY Zenon DEF CacheInv
<1> QED
  BY <1>1, CacheInvariant, PTL

\* A cached block has the data of the last Put of its key that fits.
THEOREM CachedAlwaysNewest == CacheSpec => []CachedIsNewest
<1>1. CacheInv => CachedIsNewest
  BY DEF CacheInv
<1> QED
  BY <1>1, CacheInvariant, PTL
----------------------------------------------------------------------------
(* The state of a Raft node, for every set of peers and without a bound on *)
(* the terms.                                                              *)

\* LoadState comes first, when the node is still the follower it starts as;
\* without this conjunct it could change the vote of a candidate.
RaftInv ==
  /\ RaftTypeOK
  /\ CandidateVotedForItself
  /\ ~ started => current_role = "follower"
  /\ ListenerKnowsRole

\* The constructor establishes the invariant.
LEMMA RaftInvInit == RaftInit => RaftInv
  BY RaftConstants
     DEF RaftInit, RaftInv, RaftTypeOK, CandidateVotedForItself, ListenerKnowsRole, Role

\* Every method preserves it.
LEMMA RaftInvNext == RaftInv /\ [RaftNext]_raftVars => RaftInv'
<1> SUFFICES ASSUME RaftInv, [RaftNext]_raftVars PROVE RaftInv'
  BY ZenonT(30)
<1> USE RaftConstants
    DEF RaftInv, RaftTypeOK, CandidateVotedForItself, ListenerKnowsRole, Role, Id,
        CallBack, NoCallBack
<1>1. CASE TransitionToCandidate
  BY <1>1 DEF TransitionToCandidate
<1>2. CASE TransitionToLeader
  BY <1>2 DEF TransitionToLeader
<1>3. CASE \E id \in Id : GrantVote(id)
  BY <1>3, Zenon DEF GrantVote
<1>4. ASSUME NEW term \in 0 .. MaxTerm, NEW vote \in Id \cup {NoId}, LoadState(term, vote)
      PROVE  RaftInv'
  BY <1>4 DEF LoadState, listenerVars
<1>5. ASSUME NEW term \in 0 .. MaxTerm, NEW leader \in Id \cup {NoId}, StepDown(term, leader)
      PROVE  RaftInv'
  BY <1>5 DEF StepDown
<1>6. ASSUME NEW term \in 0 .. MaxTerm, NEW id \in Id, Refused(term, id)
      PROVE  RaftInv'
  BY <1>6, ZenonT(30) DEF Refused
<1>7. CASE \E is_set \in BOOLEAN : SetStateChangeCallback(is_set)
  BY <1>7 DEF SetStateChangeCallback
<1>8. CASE UNCHANGED raftVars
  BY <1>8, ZenonT(30) DEF raftVars, listenerVars
<1> QED
  BY <1>1, <1>2, <1>3, <1>4, <1>5, <1>6, <1>7, <1>8, ZenonT(30) DEF RaftNext

\* The types are right, and a leader knows itself as the leader.
THEOREM RaftTypeCorrect == RaftSpec => []RaftTypeOK
<1>1. RaftInv => RaftTypeOK
  BY Zenon DEF RaftInv
<1> QED
  BY <1>1, RaftInvInit, RaftInvNext, PTL DEF RaftSpec

\* A candidate or leader has given its own vote to itself, in every run of calls.
THEOREM CandidateAlwaysVotedForItself == RaftSpec => []CandidateVotedForItself
<1>1. RaftInv => CandidateVotedForItself
  BY Zenon DEF RaftInv
<1> QED
  BY <1>1, RaftInvInit, RaftInvNext, PTL DEF RaftSpec

\* A listener that missed no change of role knows the role, however the calls
\* follow one another.
THEOREM ListenerAlwaysKnowsRole == RaftSpec => []ListenerKnowsRole
<1>1. RaftInv => ListenerKnowsRole
  BY Zenon DEF RaftInv
<1> QED
  BY <1>1, RaftInvInit, RaftInvNext, PTL DEF RaftSpec

\* Terms never go back and a vote stays what it is until its term is over.
THEOREM VoteAlwaysLastsItsTerm == RaftSpec => VoteLastsItsTerm
<1> DEFINE Lasts ==
      started =>
        /\ current_term' >= current_term
        /\ current_term' = current_term /\ voted_for # NoId => voted_for' = voted_for
<1>1. RaftInv /\ [RaftNext]_raftVars => [Lasts]_raftVars
  <2> SUFFICES ASSUME RaftInv, RaftNext, started PROVE Lasts
    BY Zenon
  <2> USE DEF RaftInv, RaftTypeOK
  <2>1. CASE TransitionToCandidate
    BY <2>1 DEF TransitionToCandidate
  <2>2. CASE TransitionToLeader
    BY <2>2 DEF TransitionToLeader
  <2>3. CASE \E id \in Id : GrantVote(id)
    BY <2>3 DEF GrantVote
  <2>4. ASSUME NEW term \in 0 .. MaxTerm, NEW vote, LoadState(term, vote)
        PROVE  Lasts
    BY <2>4, Zenon DEF LoadState
  <2>5. ASSUME NEW term \in 0 .. MaxTerm, NEW leader, StepDown(term, leader)
        PROVE  Lasts
    BY <2>5, RaftConstants DEF StepDown
  <2>6. ASSUME NEW term, NEW id, Refused(term, id)
        PROVE  Lasts
    BY <2>6 DEF Refused
  <2>7. CASE \E is_set \in BOOLEAN : SetStateChangeCallback(is_set)
    BY <2>7 DEF SetStateChangeCallback
  <2> QED
    BY <2>1, <2>2, <2>3, <2>4, <2>5, <2>6, <2>7, Zenon DEF RaftNext
<1> QED
  BY <1>1, RaftInvInit, RaftInvNext, PTL DEF RaftSpec, VoteLastsItsTerm

----------------------------------------------------------------------------
(* The metrics registry, for any kinds and names of metrics.               *)

\* Without a registry there is no server and nothing registered; a server serves the
\* registry, and every family registered is cached as the registry's.
MetricsInv ==
  /\ made \in Nat
  /\ DOMAIN families = Kind \X Name
  /\ registered \subseteq Kind \X Name
  /\ exposer \in {0, registry}
  /\ registry = 0 => registered = {}
  /\ \A m \in registered : families[m] = registry

\* A new family of the registry is cached as such.
LEMMA AddFamilyKeeps ==
  ASSUME MetricsInv, NEW kind \in Kind, NEW name \in Name, AddFamily(kind, name)
  PROVE  MetricsInv'
<1> DEFINE m == <<kind, name>>
<1>1. m \in Kind \X Name
  BY Zenon
<1>2. /\ registry # 0 /\ families' = [families EXCEPT ![m] = registry]
      /\ registered' = registered \cup {m} /\ UNCHANGED <<registry, exposer, made>>
  BY Zenon DEF AddFamily
<1> HIDE DEF m
<1> QED
  BY <1>1, <1>2 DEF MetricsInv

\* Every step keeps it.
LEMMA MetricsInvNext == MetricsInv /\ [MetricsNext]_metricsVars => MetricsInv'
<1> SUFFICES ASSUME MetricsInv, [MetricsNext]_metricsVars PROVE MetricsInv'
  BY ZenonT(30)
<1>1. CASE UNCHANGED metricsVars
  BY <1>1, Zenon DEF metricsVars, MetricsInv
<1>2. CASE Initialize
  BY <1>2 DEF Initialize, MakeRegistry, MetricsInv
<1>3. CASE MetricsShutdown
  BY <1>3 DEF MetricsShutdown, MetricsInv
<1>4. ASSUME NEW kind \in Kind, NEW name \in Name, AddEndsProcess(kind, name) PROVE MetricsInv'
  BY <1>4 DEF AddEndsProcess, NoFamilies, MetricsInv
<1> QED
  BY <1>1, <1>2, <1>3, <1>4, AddFamilyKeeps, Zenon DEF MetricsNext

\* Whatever the order of Initialize, with or without a server, Shutdown and the Add
\* methods, a running HTTP server serves the registry in place, and the families it
\* shows are those that the Add methods hand metrics out of.
THEOREM ServedIsAlwaysHandedOut == MetricsSpec => []ServedIsHandedOut
<1>1. MetricsInit => MetricsInv
  BY DEF MetricsInit, NoFamilies, MetricsInv
<1>2. MetricsInv => ServedIsHandedOut
  BY DEF MetricsInv, ServedIsHandedOut
<1> QED
  BY <1>1, <1>2, MetricsInvNext, PTL DEF MetricsSpec
----------------------------------------------------------------------------
(* The thread pool runs what it accepts, in order, and leaves nothing      *)
(* behind when it is destroyed, for any workers, clients and tasks.        *)

\* A queue behind the tasks already taken, and an entry put at its end.
LEMMA PushedBehind ==
  ASSUME NEW s \in Seq(Task), NEW q \in Seq(Task), NEW t \in Task
  PROVE  /\ s \o Append(q, t) = Append(s \o q, t)
         /\ s \o Append(q, t) \in Seq(Task)
OBVIOUS

\* Taking the first entry of the queue.
LEMMA PoppedInFront ==
  ASSUME NEW s \in Seq(Task), NEW q \in Seq(Task), q # <<>>
  PROVE  /\ Append(s, Head(q)) \o Tail(q) = s \o q
         /\ Head(q) \in Task /\ Tail(q) \in Seq(Task) /\ Append(s, Head(q)) \in Seq(Task)
OBVIOUS

\* What a sequence holds after one more entry.
LEMMA SetOfAppend ==
  ASSUME NEW s \in Seq(Task), NEW t \in Task
  PROVE  ToSet(Append(s, t)) = ToSet(s) \cup {t}
<1>2. \A i \in 1 .. Len(s) : Append(s, t)[i] = s[i]
  OBVIOUS
<1>3. DOMAIN Append(s, t) = 1 .. Len(s) + 1 /\ DOMAIN s = 1 .. Len(s) /\ Len(s) \in Nat
  OBVIOUS
<1>4. Append(s, t)[Len(s) + 1] = t
  OBVIOUS
<1>5. 1 .. Len(s) + 1 = (1 .. Len(s)) \cup {Len(s) + 1}
  BY <1>3
<1> QED
  BY <1>2, <1>3, <1>4, <1>5, ZenonT(30) DEF ToSet

\* Taken tasks are finished or running; a worker returns only from a stopped
\* pool with an empty queue, to which nothing is added any more.
PoolInv ==
  /\ {accepted, taken, tasks} \subseteq Seq(Task)
  /\ TakenInOrder
  /\ \A t : t \in ToSet(taken) <=> t \in finished \/ \E w \in Worker : t \in running[w]
  /\ DOMAIN running = Worker /\ DOMAIN worker = Worker
  /\ \A w \in Worker : /\ worker[w] # "running" => running[w] = {}
                       /\ worker[w] = "returned" => stop /\ tasks = <<>>
  /\ destructor = "joined" => \A w \in Worker : worker[w] = "returned"

\* At first nothing has been accepted.
LEMMA PoolInvInit == PoolInit => PoolInv
  BY DEF PoolInit, PoolInv, TakenInOrder, ToSet

\* A task is accepted only while the pool is not stopped.
LEMMA EnqueueKeeps ==
  ASSUME PoolInv, NEW c \in Client, NEW t \in Task, Enqueue(c, t)
  PROVE  PoolInv'
<1>1. accepted' = taken' \o tasks' /\ {accepted', taken', tasks'} \subseteq Seq(Task)
  <2>1. taken \in Seq(Task) /\ tasks \in Seq(Task) /\ accepted = taken \o tasks
    BY Zenon DEF PoolInv, TakenInOrder
  <2>2. taken' = taken /\ tasks' = Append(tasks, t) /\ accepted' = Append(accepted, t)
    BY Zenon DEF Enqueue
  <2>3. taken \o Append(tasks, t) = Append(taken \o tasks, t)
    BY <2>1, PushedBehind, Zenon
  <2> QED
    BY <2>1, <2>2, <2>3
<1>2. \A w \in Worker : worker[w] # "returned"
  BY Zenon DEF Enqueue, PoolInv
<1> QED
  BY <1>1, <1>2, ZenonT(30) DEF Enqueue, PoolInv, TakenInOrder

\* The task taken is the one accepted first among those not taken yet.
LEMMA TakeKeeps ==
  ASSUME PoolInv, NEW w \in Worker, Take(w)
  PROVE  PoolInv'
<1>1. accepted' = taken' \o tasks' /\ {accepted', taken', tasks'} \subseteq Seq(Task)
  BY PoppedInFront, ZenonT(30) DEF Take, PoolInv, TakenInOrder
<1>2. ToSet(taken') = ToSet(taken) \cup {Head(tasks)}
  BY SetOfAppend, PoppedInFront, ZenonT(30) DEF Take, PoolInv
<1>3. \A u \in Worker : worker[u] # "returned"
  BY Zenon DEF Take, PoolInv
<1>4. running[w] = {} /\ running' = [running EXCEPT ![w] = {Head(tasks)}]
  BY ZenonT(30) DEF Take, PoolInv
<1>5. \A t : t \in ToSet(taken') <=> t \in finished' \/ \E u \in Worker : t \in running'[u]
  BY <1>2, <1>4, Zenon DEF Take, PoolInv
<1> QED
  BY <1>1, <1>3, <1>5, Zenon DEF Take, PoolInv, TakenInOrder

\* A finished task is no longer running.
LEMMA FinishKeeps ==
  ASSUME PoolInv, NEW w \in Worker, Finish(w)
  PROVE  PoolInv'
<1>1. \A t : t \in ToSet(taken') <=> t \in finished' \/ \E u \in Worker : t \in running'[u]
  BY Zenon DEF Finish, PoolInv
<1> QED
  BY <1>1, Zenon DEF Finish, PoolInv, TakenInOrder

\* The other steps only put workers to sleep, wake them or let them return.
LEMMA PoolInvNext == PoolInv /\ [PoolNext]_poolVars => PoolInv'
<1> SUFFICES ASSUME PoolInv, [PoolNext]_poolVars PROVE PoolInv'
  BY ZenonT(30)
<1>1. CASE UNCHANGED poolVars
  BY <1>1, Zenon DEF poolVars, PoolInv, TakenInOrder
<1>2. ASSUME NEW c \in Client, NotifyOne(c) PROVE PoolInv'
  BY <1>2, Zenon DEF NotifyOne, PoolInv, TakenInOrder
<1>3. ASSUME NEW w \in Worker, Sleep(w) PROVE PoolInv'
  BY <1>3, Zenon DEF Sleep, PoolInv, TakenInOrder
<1>4. ASSUME NEW w \in Worker, WakeSpuriously(w) PROVE PoolInv'
  BY <1>4, Zenon DEF WakeSpuriously, PoolInv, TakenInOrder
<1>5. ASSUME NEW w \in Worker, Return(w) PROVE PoolInv'
  BY <1>5, Zenon DEF Return, PoolInv, TakenInOrder
<1>6. CASE Stop
  BY <1>6, ZenonT(30) DEF Stop, PoolInv, TakenInOrder
<1>7. CASE NotifyAll
  BY <1>7, Zenon DEF NotifyAll, PoolInv, TakenInOrder
<1>8. CASE Join
  BY <1>8, Zenon DEF Join, PoolInv, TakenInOrder
<1> QED
  BY <1>1, <1>2, <1>3, <1>4, <1>5, <1>6, <1>7, <1>8, EnqueueKeeps, TakeKeeps,
     FinishKeeps, ZenonT(30)
  DEF PoolNext, WorkerStep

\* The inductive invariant holds throughout; fairness is not needed for it.
THEOREM PoolInvariant == PoolSpec => []PoolInv
BY PoolInvInit, PoolInvNext, PTL DEF PoolSpec

\* Tasks are taken once each, in the order in which Enqueue accepted them.
THEOREM AlwaysTakenInOrder == PoolSpec => []TakenInOrder
<1>1. PoolInv => TakenInOrder
  BY Zenon DEF PoolInv
<1> QED
  BY <1>1, PoolInvariant, PTL

\* Once the destructor has joined the workers, every accepted task has been run.
THEOREM NothingEverLeftBehind == PoolSpec => []NothingLeftBehind
<1>1. PoolInv => NothingLeftBehind
  <2> SUFFICES ASSUME PoolInv, destructor = "joined" PROVE finished = ToSet(accepted)
    BY Zenon DEF NothingLeftBehind
  <2>1. PICK w \in Worker : worker[w] = "returned"
    BY PoolConstants, Zenon DEF PoolInv
  <2>2. accepted = taken
    BY <2>1 DEF PoolInv, TakenInOrder
  <2>3. \A u \in Worker : running[u] = {}
    BY ZenonT(30) DEF PoolInv
  <2>4. \A t : t \in ToSet(taken) <=> t \in finished
    BY <2>3, ZenonT(30) DEF PoolInv
  <2> QED
    BY <2>2, <2>4, Zenon
<1> QED
  BY <1>1, PoolInvariant, PTL

=============================================================================
