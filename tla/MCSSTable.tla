------------------------------ MODULE MCSSTable ------------------------------
(* A memtable and the SSTable it is flushed to, for TLC.  Key 0 is the     *)
(* empty string.                                                           *)
EXTENDS SSTable

CONSTANTS MaxKey

MCKey == 0 .. MaxKey
=============================================================================
