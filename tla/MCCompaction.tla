----------------------------- MODULE MCCompaction -----------------------------
(* The compaction manager, its flusher and the ages of versions for TLC.   *)
(* Key 0 is the empty string.                                              *)
EXTENDS CompactionAges

CONSTANTS MinKey, MaxKey, MaxId, Kinds

MCKey == MinKey .. MaxKey

MCVersion == [id : 1 .. MaxId, kind : Kinds]
=============================================================================
