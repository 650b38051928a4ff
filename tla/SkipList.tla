------------------------------ MODULE SkipList ------------------------------
(***************************************************************************)
(* The skip list behind the memtable, with its forward pointers.  Writers   *)
(* hold the exclusive lock for a whole Put or Delete, so each is one step;  *)
(* the height of a new node is any that RandomHeight can return.  A node is *)
(* known by its key, its data by its size, and the fixed bytes of a node    *)
(* and of a pointer count as one.                                          *)
(***************************************************************************)
EXTENDS Integers, Sequences, SequencesExt

CONSTANTS
  Key,         \* numbers, in the order of the keys
  DataSize,    \* sizes of the values that are put
  kMaxHeight

ASSUME SkipListConstants ==
  Key \subseteq Nat /\ DataSize \subseteq Nat /\ kMaxHeight \in Nat \ {0}

VARIABLES
  forward,       \* the forward pointers of every node, level 0 at index 1
  value,         \* the value of every node but the head
  max_height,
  memory_usage,  \* beyond that of the empty list
  contents       \* history: what a map would hold after the same calls

listVars == <<forward, value, max_height, memory_usage, contents>>

head == -1        \* head_, whose key is never compared
Nil == -2          \* nullptr
Tombstone == [is_tombstone |-> TRUE, data |-> 0]
Data(size) == [is_tombstone |-> FALSE, data |-> size]
Nothing == [is_tombstone |-> FALSE, data |-> Nil]

SkipListInit ==
  /\ forward = [n \in {head} |-> [i \in 1 .. kMaxHeight |-> Nil]]
  /\ value = <<>>
  /\ max_height = 1
  /\ memory_usage = 0
  /\ contents = [k \in Key |-> Nothing]
----------------------------------------------------------------------------
(* The descent that Put, Delete and Get share.                             *)

\* The walk along one level stops one node too far.
StopAfter(from, i, key) ==
  LET walk[n \in DOMAIN forward] ==
        IF forward[n][i] # Nil /\ forward[n][i] <= key THEN walk[forward[n][i]] ELSE n
  IN  walk[from]

\* The last node of level i, from the given one on, whose key is smaller.
StopBefore(from, i, key) ==
  LET walk[n \in DOMAIN forward] ==
        IF forward[n][i] # Nil /\ forward[n][i] < key THEN walk[forward[n][i]] ELSE n
  IN  walk[from]

\* update[i] for the levels in use.
Update(key) ==
  LET update[i \in 1 .. max_height + 1] ==
        IF i > max_height THEN head ELSE StopBefore(update[i + 1], i, key)
  IN  update

\* The node of the key, when forward[0] of the last update is it.
Finds(key) == forward[Update(key)[1]][1] = key
----------------------------------------------------------------------------
\* The levels above the old height are not linked to the head.
InsertBelowTop(key, height, v) ==
  LET before == [i \in 1 .. height |-> IF i > max_height THEN Nil ELSE Update(key)[i]]
  IN  /\ forward' = [n \in DOMAIN forward \cup {key} |->
           IF n = key
           THEN [i \in 1 .. height |-> IF before[i] = Nil THEN Nil ELSE forward[before[i]][i]]
           ELSE [i \in DOMAIN forward[n] |->
                   IF i <= height /\ before[i] = n THEN key ELSE forward[n][i]]]
      /\ value' = [n \in DOMAIN value \cup {key} |-> IF n = key THEN v ELSE value[n]]
      /\ max_height' = IF height > max_height THEN height ELSE max_height
      /\ memory_usage' = memory_usage + 1 + v.data + height

\* A new node of the given height, linked in after update[i] on each of its levels.
Insert(key, height, v) ==
  LET before == [i \in 1 .. height |-> IF i > max_height THEN head ELSE Update(key)[i]]
  IN  /\ forward' = [n \in DOMAIN forward \cup {key} |->
           IF n = key THEN [i \in 1 .. height |-> forward[before[i]][i]]
           ELSE [i \in DOMAIN forward[n] |->
                   IF i <= height /\ before[i] = n THEN key ELSE forward[n][i]]]
      /\ value' = [n \in DOMAIN value \cup {key} |-> IF n = key THEN v ELSE value[n]]
      /\ max_height' = IF height > max_height THEN height ELSE max_height
      /\ memory_usage' = memory_usage + 1 + v.data + height

\* The bytes of the value that is replaced are not taken off.
OverwriteKeepingBytes(key, v) ==
  /\ value' = [value EXCEPT ![key] = v]
  /\ memory_usage' = memory_usage + v.data
  /\ UNCHANGED <<forward, max_height>>

\* The value of an existing node is replaced in place.
Overwrite(key, v) ==
  /\ value' = [value EXCEPT ![key] = v]
  /\ memory_usage' = memory_usage - value[key].data + v.data
  /\ UNCHANGED <<forward, max_height>>

Put(key, size) ==
  /\ \/ Finds(key) /\ Overwrite(key, Data(size))
     \/ ~ Finds(key) /\ \E height \in 1 .. kMaxHeight : Insert(key, height, Data(size))
  /\ contents' = [contents EXCEPT ![key] = Data(size)]

\* A key that is not there gets a tombstone too; a tombstone stays one.
Delete(key) ==
  /\ \/ Finds(key) /\ Overwrite(key, Tombstone)
     \/ ~ Finds(key) /\ \E height \in 1 .. kMaxHeight : Insert(key, height, Tombstone)
  /\ contents' = [contents EXCEPT ![key] = Tombstone]

SkipListNext == \E key \in Key : Delete(key) \/ \E size \in DataSize : Put(key, size)

SkipListSpec == SkipListInit /\ [][SkipListNext]_listVars
----------------------------------------------------------------------------
(* Readers.                                                                *)

Get(key) == IF Finds(key) THEN value[key] ELSE Nothing

\* The keys of one level from head to end; on level 1 what Iterator delivers.
Level(i) ==
  LET from[n \in DOMAIN forward] ==
        IF i > Len(forward[n]) \/ forward[n][i] = Nil THEN <<>>
        ELSE <<forward[n][i]>> \o from[forward[n][i]]
  IN  from[head]
----------------------------------------------------------------------------
(* Properties.                                                             *)

\* Every search ends where a map would look, tombstones included: a key that
\* the descent misses would be inserted twice and its older value be found.
GetMatchesMap == \A key \in Key : Get(key) = contents[key]

\* Each level lists, in strictly increasing order, exactly the nodes that are
\* high enough for it; a flush therefore sees every key once and sorted.
LevelsAreSorted ==
  \A i \in 1 .. kMaxHeight :
    /\ \A j \in 1 .. Len(Level(i)) - 1 : Level(i)[j] < Level(i)[j + 1]
    /\ ToSet(Level(i)) = {n \in DOMAIN value : Len(forward[n]) >= i}

\* memory_usage_ is the size of what is stored, after any mix of overwriting
\* and deleting: the engine flushes when it reaches the configured size.
MemoryIsAccounted ==
  memory_usage =
    FoldLeft(LAMBDA sum, n : sum + 1 + value[n].data + Len(forward[n]), 0, Level(1))
=============================================================================
