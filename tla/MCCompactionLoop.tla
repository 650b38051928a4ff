--------------------------- MODULE MCCompactionLoop ---------------------------
(* The wake-ups of the compaction thread for TLC.                          *)
EXTENDS CompactionLoop
=============================================================================
