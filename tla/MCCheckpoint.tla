---------------------------- MODULE MCCheckpoint ----------------------------
(***************************************************************************)
(* Two threads that save checkpoints with no, one and two files; one file  *)
(* has the empty key range that FlushMemTable leaves when it cannot read   *)
(* the range back.                                                         *)
(***************************************************************************)
EXTENDS Checkpoint

MCFlushed ==
  [level |-> 0, file_size_bytes |-> 2, sequence_number |-> 1,
   smallest_key |-> <<1>>, largest_key |-> <<1, 2>>, filepath |-> <<1, 0>>]

MCUnranged ==
  [level |-> 1, file_size_bytes |-> 1, sequence_number |-> 2,
   smallest_key |-> <<>>, largest_key |-> <<>>, filepath |-> <<2>>]

MCCheckpoints ==
  {[last_flushed_lsn |-> 3, sstables |-> <<>>],
   [last_flushed_lsn |-> 1, sstables |-> <<MCFlushed>>],
   [last_flushed_lsn |-> 2, sstables |-> <<MCUnranged, MCFlushed>>]}

ASSUME LosslessHere == Lossless
=============================================================================
