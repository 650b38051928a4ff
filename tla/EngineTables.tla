---------------------------- MODULE EngineTables ----------------------------
(***************************************************************************)
(* The storage engine as a user of the SSTables: the files that its        *)
(* flushes have written and not yet registered are the pending ones of     *)
(* CompactionSpec.  A call that has begun to flush draws a sequence number *)
(* even when the bound of the runs is reached meanwhile.                   *)
(***************************************************************************)
EXTENDS StorageEngine

SSTables == INSTANCE CompactionSpec
  WITH pending <- {call[t].meta : t \in {u \in Thread : At(u, "add")}},
       MaxPending <- Cardinality(Thread),
       MaxFlushes <- MaxFlushes + Cardinality(Thread)

\* In its first session the engine uses the SSTables as CompactionSpec says:
\* whatever its threads do, they write, register, merge and delete files only
\* in the ways CompactionSpec allows.
RefinesCompactionSpec == SSTables!Spec
=============================================================================
