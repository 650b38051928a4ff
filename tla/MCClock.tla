------------------------------ MODULE MCClock ------------------------------
(* Clocks whose readings do not fit the word, as PhysicalClock's, for TLC. *)
EXTENDS HLC
=============================================================================
