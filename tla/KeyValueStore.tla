---------------------------- MODULE KeyValueStore ----------------------------
(***************************************************************************)
(* What the storage engine promises its clients, storage_engine.h: a map   *)
(* from keys to versions that outlives crashes.  A write takes effect in   *)
(* one step during its call and is there for good when the call returns; a *)
(* Get answers with the version that is in effect, and with nothing when   *)
(* that is a tombstone; a crash ends the calls under way and leaves the    *)
(* map alone.  Nothing is said of memtables, files, checkpoints and logs.  *)
(***************************************************************************)
EXTENDS Integers

CONSTANTS Thread, Key, Version, NoVersion

VARIABLES
  store,   \* for each key the version that is in effect, NoVersion before the first
  client,  \* what each client is doing
  acked    \* for each key the newest version whose write returned Ok

kvVars == <<store, client, acked>>

Idle == [at |-> "idle"]
Goes(t, from, to) == client[t] = from /\ client' = [client EXCEPT ![t] = to]

Init ==
  /\ store = [k \in Key |-> NoVersion]
  /\ client = [t \in Thread |-> Idle]
  /\ acked = [k \in Key |-> NoVersion]

\* Put or Delete takes effect.
Write(t, k, v) ==
  /\ Goes(t, Idle, [at |-> "written", key |-> k, version |-> v])
  /\ store' = [store EXCEPT ![k] = v]
  /\ UNCHANGED acked

WriteReturns(t) ==
  /\ client[t].at = "written"
  /\ Goes(t, client[t], Idle)
  /\ acked' = [acked EXCEPT ![client[t].key] = client[t].version]
  /\ UNCHANGED store

\* Flush and the destructor change nothing a client can see.
Maintain(t) ==
  /\ \/ Goes(t, Idle, [at |-> "maintaining"])
     \/ Goes(t, [at |-> "maintaining"], Idle)
  /\ UNCHANGED <<store, acked>>

GetBegins(t, k) ==
  /\ Goes(t, Idle, [at |-> "reading", key |-> k])
  /\ UNCHANGED <<store, acked>>

\* What a Get of k answers: a deleted key is not found.
Answer(k) == IF store[k].kind = "put" THEN store[k] ELSE NoVersion

GetAnswers(t, k) ==
  /\ \E from \in {Idle, [at |-> "reading", key |-> k]} :
       Goes(t, from, [at |-> "answered", key |-> k, answer |-> Answer(k)])
  /\ UNCHANGED <<store, acked>>

GetReturns(t) ==
  /\ client[t].at = "answered"
  /\ Goes(t, client[t], Idle)
  /\ UNCHANGED <<store, acked>>

\* The process ends; what was written stays, returned or not.
Crash ==
  /\ client' = [t \in Thread |-> Idle]
  /\ UNCHANGED <<store, acked>>

\* The process ends with a write under way that has taken effect.
CrashInWrite(k, v) ==
  /\ client' = [t \in Thread |-> Idle]
  /\ store' = [store EXCEPT ![k] = v]
  /\ UNCHANGED acked

Next ==
  \/ Crash
  \/ \E k \in Key, v \in Version : CrashInWrite(k, v)
  \/ \E t \in Thread :
       \/ WriteReturns(t) \/ Maintain(t) \/ GetReturns(t)
       \/ \E k \in Key :
            \/ \E v \in Version : Write(t, k, v)
            \/ GetBegins(t, k) \/ GetAnswers(t, k)

Spec == Init /\ [][Next]_kvVars
=============================================================================
