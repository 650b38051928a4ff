--------------------------- MODULE MCStorageEngine ---------------------------
(* The storage engine for TLC.                                             *)
EXTENDS EngineTables, TLC

CONSTANTS MaxKey

MCKey == 1 .. MaxKey

MCVersion == [id : 1 .. MaxWrites, kind : {"put", "delete"}]

MCPayload == [key : MCKey, version : MCVersion]

\* The second write, when it puts the last key, makes an entry over 64 MB.
MCOversized == {[key |-> MaxKey, version |-> [id |-> 2, kind |-> "put"]]}

ThreadSymmetry == Permutations(Thread)
=============================================================================
