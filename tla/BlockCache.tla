------------------------------ MODULE BlockCache ------------------------------
(***************************************************************************)
(* The LRU cache of SSTable blocks, used by several threads.  Get looks a   *)
(* block up under a shared lock, releases it, and takes the exclusive lock  *)
(* to promote the block and copy it: other calls fall in between.  misses_ *)
(* is incremented under the shared lock only, so two increments can read   *)
(* the same value.  hash_map_ always points at the entries of lru_list_    *)
(* and is not a variable of its own; a block's data is its size and the    *)
(* number of the Put that offered it.                                      *)
(***************************************************************************)
EXTENDS Integers, Sequences, SequencesExt

CONSTANTS
  Thread,
  Key,             \* cache keys
  Size,            \* possible sizes of an item, its key and its data
  capacity_bytes,
  MaxCalls         \* bound of the runs

ASSUME CacheConstants ==
  Size \subseteq Nat \ {0} /\ capacity_bytes \in Nat \ {0} /\ MaxCalls \in Nat

VARIABLES
  lru_list,            \* items, the most recently used first
  current_size_bytes,
  hits, misses,
  call,                \* what each thread is doing
  calls,               \* history: calls made so far
  gets,                \* history: Gets that have returned
  overlapped,          \* history: two misses were being counted at the same time
  newest,              \* history: the last Put that fits of each key, 0 for none
  recency              \* history: the keys put or hit, the last used first

cacheVars ==
  <<lru_list, current_size_bytes, hits, misses, call, calls, gets, overlapped, newest,
    recency>>

Idle == [at |-> "idle"]

IsCached(key) == \E i \in 1 .. Len(lru_list) : lru_list[i].key = key
Without(list, key) == RemoveFirstMatch(list, LAMBDA item : item.key = key)
Item(key) == lru_list[CHOOSE i \in 1 .. Len(lru_list) : lru_list[i].key = key]
Bytes(list) ==
  LET upTo[n \in 0 .. Len(list)] == IF n = 0 THEN 0 ELSE upTo[n - 1] + list[n].size
  IN  upTo[Len(list)]
NoReaders == \A t \in Thread : call[t].at # "missed"
Used(key) == <<key>> \o RemoveFirst(recency, key)

CacheInit ==
  /\ lru_list = <<>> /\ current_size_bytes = 0
  /\ hits = 0 /\ misses = 0
  /\ call = [t \in Thread |-> Idle]
  /\ calls = 0 /\ gets = 0 /\ overlapped = FALSE
  /\ newest = [k \in Key |-> 0] /\ recency = <<>>
----------------------------------------------------------------------------
(* Get.                                                                    *)

\* The lookup under the shared lock.  On a miss the counter is read here and
\* written in CountMiss, and nothing orders this with another reader's increment.
LookUp(t, key) ==
  /\ call[t].at = "idle" /\ calls < MaxCalls
  /\ calls' = calls + 1
  /\ call' = [call EXCEPT ![t] = IF IsCached(key) THEN [at |-> "found", key |-> key]
                                 ELSE [at |-> "missed", read |-> misses]]
  /\ overlapped' = (overlapped \/ (~ IsCached(key) /\ ~ NoReaders))
  /\ UNCHANGED <<lru_list, current_size_bytes, hits, misses, gets, newest, recency>>

CountMiss(t) ==
  /\ call[t].at = "missed"
  /\ misses' = call[t].read + 1
  /\ call' = [call EXCEPT ![t] = Idle]
  /\ gets' = gets + 1
  /\ UNCHANGED <<lru_list, current_size_bytes, hits, calls, overlapped, newest, recency>>

\* A hit leaves the order of the list alone.
PromoteInPlace(t) ==
  /\ call[t].at = "found" /\ NoReaders
  /\ IF IsCached(call[t].key)
     THEN hits' = hits + 1 /\ recency' = Used(call[t].key) /\ UNCHANGED misses
     ELSE misses' = misses + 1 /\ UNCHANGED <<hits, recency>>
  /\ call' = [call EXCEPT ![t] = Idle]
  /\ gets' = gets + 1
  /\ UNCHANGED <<lru_list, current_size_bytes, calls, overlapped, newest>>

\* The second lock is a shared one too and does not wait for the readers.
PromoteAmongReaders(t) ==
  /\ call[t].at = "found"
  /\ LET key == call[t].key
     IN  IF IsCached(key)
         THEN /\ lru_list' = <<Item(key)>> \o Without(lru_list, key)
              /\ hits' = hits + 1
              /\ recency' = Used(key)
              /\ UNCHANGED misses
         ELSE /\ misses' = misses + 1
              /\ UNCHANGED <<lru_list, hits, recency>>
  /\ call' = [call EXCEPT ![t] = Idle]
  /\ gets' = gets + 1
  /\ UNCHANGED <<current_size_bytes, calls, overlapped, newest>>

\* Under the exclusive lock, which waits for the readers, the key is looked up again.
Promote(t) ==
  /\ call[t].at = "found" /\ NoReaders
  /\ LET key == call[t].key
     IN  IF IsCached(key)
         THEN /\ lru_list' = <<Item(key)>> \o Without(lru_list, key)
              /\ hits' = hits + 1
              /\ recency' = Used(key)
              /\ UNCHANGED misses
         ELSE /\ misses' = misses + 1
              /\ UNCHANGED <<lru_list, hits, recency>>
  /\ call' = [call EXCEPT ![t] = Idle]
  /\ gets' = gets + 1
  /\ UNCHANGED <<current_size_bytes, calls, overlapped, newest>>
----------------------------------------------------------------------------
(* Put.                                                                    *)

\* A key that is in the cache keeps its data.
WithOldItem(item) ==
  <<IF IsCached(item.key) THEN Item(item.key) ELSE item>> \o Without(lru_list, item.key)

WithItem(item) == <<item>> \o Without(lru_list, item.key)

\* The bytes of a replaced block are not taken off.
SizeWithoutReplaced(item) == current_size_bytes + item.size

SizeWith(item) ==
  current_size_bytes - (IF IsCached(item.key) THEN Item(item.key).size ELSE 0) + item.size

Back(list, n) == SubSeq(list, Len(list) - n + 1, Len(list))

\* The loop drops items from the back until the count of bytes fits.
Evictions(list, size) ==
  Min({Len(list)} \cup
      {n \in 0 .. Len(list) : size - Bytes(Back(list, n)) <= capacity_bytes})

\* An item larger than the whole cache is ignored, before the lock is taken.
Put(t, key, size) ==
  /\ call[t].at = "idle" /\ calls < MaxCalls
  /\ calls' = calls + 1
  /\ IF size > capacity_bytes
     THEN UNCHANGED <<lru_list, current_size_bytes, newest, recency>>
     ELSE LET item == [key |-> key, size |-> size, put |-> calls + 1]
              list == WithItem(item)
              n == Evictions(list, SizeWith(item))
          IN  /\ NoReaders
              /\ lru_list' = SubSeq(list, 1, Len(list) - n)
              /\ current_size_bytes' = SizeWith(item) - Bytes(Back(list, n))
              /\ newest' = [newest EXCEPT ![key] = calls + 1]
              /\ recency' = Used(key)
  /\ UNCHANGED <<hits, misses, call, gets, overlapped>>
----------------------------------------------------------------------------
CacheNext ==
  \E t \in Thread :
    \/ CountMiss(t) \/ Promote(t)
    \/ \E key \in Key : LookUp(t, key) \/ \E size \in Size : Put(t, key, size)

CacheSpec == CacheInit /\ [][CacheNext]_cacheVars
----------------------------------------------------------------------------
(* Properties.                                                             *)

\* current_size_bytes_ counts what the list holds, and that never exceeds the
\* capacity: a count that drifts would in the end evict everything or nothing.
SizeIsAccounted ==
  current_size_bytes = Bytes(lru_list) /\ current_size_bytes <= capacity_bytes

\* cache/README.md: "the items at the tail of the list (LRU) are evicted".  The
\* cached blocks are always the most recently used ones, in the order of use,
\* although another call can come between the two locks of a hit.
CachedAreMostRecent ==
  \A i \in 1 .. Len(lru_list) : lru_list[i].key = recency[i]

\* A block in the cache has the data of the last Put of its key that fits.
CachedIsNewest ==
  \A i \in 1 .. Len(lru_list) : lru_list[i].put = newest[lru_list[i].key]

\* Although misses_ is incremented under the shared lock, no Get is counted
\* twice, and one goes uncounted only when two misses overlap.
LostOnlyWhenMissesOverlap ==
  hits + misses <= gets /\ (~ overlapped => hits + misses = gets)

(* What the header says and the code does not do.                          *)

\* block_cache.h: "Thread-safety is achieved using a shared_mutex".  Every Get
\* that has returned is counted as a hit or as a miss.
EveryGetIsCounted == hits + misses = gets
=============================================================================
