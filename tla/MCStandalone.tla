---------------------------- MODULE MCStandalone ----------------------------
(***************************************************************************)
(* The components that can be looked at on their own, for TLC: the log and *)
(* the checkpoint's files, which the engine uses, and those that no other  *)
(* part of the system calls yet, the state of a Raft node, the hybrid      *)
(* logical clocks, the block cache and the registry of metrics.  They      *)
(* share nothing, so their interleavings say nothing new: a behaviour is   *)
(* one of `part', with the others at rest.                                 *)
(***************************************************************************)
EXTENDS WAL, MCCheckpoint, RaftState, HLC, BlockCache, MetricsRegistry

VARIABLE part

standaloneVars ==
  <<part, walVars, checkpointVars, raftVars, hlcVars, cacheVars, metricsVars>>

Init ==
  /\ part \in {"log", "checkpoint", "raft", "clock", "cache", "metrics"}
  /\ WALInit /\ CheckpointInit /\ RaftInit /\ HLCInit /\ CacheInit /\ MetricsInit
  /\ part # "clock" => micros = [n \in Node |-> MinTime]

Next ==
  /\ UNCHANGED part
  /\ \/ /\ part = "log" /\ WALNext
        /\ UNCHANGED <<checkpointVars, raftVars, hlcVars, cacheVars, metricsVars>>
     \/ /\ part = "checkpoint" /\ CheckpointNext
        /\ UNCHANGED <<walVars, raftVars, hlcVars, cacheVars, metricsVars>>
     \/ /\ part = "raft" /\ RaftNext
        /\ UNCHANGED <<walVars, checkpointVars, hlcVars, cacheVars, metricsVars>>
     \/ /\ part = "clock" /\ HLCNext
        /\ UNCHANGED <<walVars, checkpointVars, raftVars, cacheVars, metricsVars>>
     \/ /\ part = "cache" /\ CacheNext
        /\ UNCHANGED <<walVars, checkpointVars, raftVars, hlcVars, metricsVars>>
     \/ /\ part = "metrics" /\ MetricsNext
        /\ UNCHANGED <<walVars, checkpointVars, raftVars, hlcVars, cacheVars>>

Spec == Init /\ [][Next]_standaloneVars
=============================================================================
