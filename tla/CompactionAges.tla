---------------------------- MODULE CompactionAges ----------------------------
(***************************************************************************)
(* Which version of a key the SSTables yield.  CompactionSpec with a       *)
(* single flusher, whose every memtable holds newer versions than the one  *)
(* before, and with the history that says which version is the newest.     *)
(***************************************************************************)
EXTENDS CompactionSpec

VARIABLES
  newest,    \* history: the newest version of each key in a registered file
  deleted,   \* history: the keys with a tombstone in a registered file
  contested  \* history: the keys that two source files of one merge had

ageVars == <<specVars, newest, deleted, contested>>

NoVersion == [id |-> 0, kind |-> "none"]

\* The memtables of the flush numbered n: n is the age of all their versions.
FreshTables(n) ==
  {table \in Table : DOMAIN table # {} /\ \A k \in DOMAIN table : table[k].id = n}

\* The keys of more than one source file of the merge at hand.
ContestedNow ==
  {k \in Key : \E f, g \in all_inputs :
                f # g /\ {f.level, g.level} = {target_level - 1} /\ Has(f, k) /\ Has(g, k)}

AgeInit ==
  /\ Init
  /\ newest = [k \in Key |-> NoVersion]
  /\ deleted = {}
  /\ contested = {}

AgeNext ==
  \/ /\ Compact
     /\ contested' = IF step = "merge" /\ step' # "idle"
                     THEN contested \cup ContestedNow ELSE contested
     /\ UNCHANGED <<newest, deleted>>
  \/ /\ MayFlush
     /\ \E table \in FreshTables(next_sst_sequence) : FlushWrite(table)
     /\ UNCHANGED <<newest, deleted, contested>>
  \/ /\ MayFlush
     /\ FlushWriteFails
     /\ UNCHANGED <<newest, deleted, contested>>
  \/ /\ \E meta \in pending :
          LET table == disk[meta.filepath]
          IN  /\ FlushAdd(meta)
              /\ newest' = [k \in Key |-> IF k \in DOMAIN table THEN table[k] ELSE newest[k]]
              /\ deleted' = deleted \cup {k \in DOMAIN table : table[k].kind = "delete"}
     /\ UNCHANGED contested

AgeSpec == AgeInit /\ [][AgeNext]_ageVars
----------------------------------------------------------------------------
(* Properties.                                                             *)

\* f is the file a lookup of k stops at.
FoundIn(f, k) ==
  Has(f, k) /\ \A g \in files \ {f} : Has(g, k) => SearchedBefore(f, g)

\* A key that was flushed and never deleted is in some file of the catalogue at
\* every moment of a compaction, so that only damage to that very file loses it.
\* The empty key is the exception.
KeyNeverVanishes ==
  \A k \in Key \ ({EmptyKey} \cup deleted) :
    newest[k] # NoVersion => \E f \in files : Has(f, k)

\* Whenever no compaction is at work on the catalogue, the file a lookup finds
\* a key in first holds the newest version that is left of it.
LookupFindsNewestLeft ==
  (unranged = 0 /\ step \in {"idle", "merge"})
    => \A k \in Key : \A f, g \in files :
         (Has(f, k) /\ Has(g, k) /\ SearchedBefore(f, g))
           => disk[f.filepath][k].id >= disk[g.filepath][k].id

\* ... and that is the newest version ever registered, or nothing when that
\* was a tombstone, unless two source files of one merge both had the key.  (Where
\* the file is damaged the lookup fails: it never goes on to an older version.)
NewestUnlessContested ==
  (unranged = 0 /\ step = "idle")
    => \A k \in Key \ ({EmptyKey} \cup contested) :
         /\ newest[k].kind = "put" => \E f \in files : Has(f, k)
         /\ \A f \in files : FoundIn(f, k) => disk[f.filepath][k] = newest[k]

(* What the documents and tests say and the code does not do.              *)

\* compaction/README.md, test_compaction.cpp: a merge keeps the newest version.
NewestWins ==
  (unranged = 0 /\ step = "idle")
    => \A k \in Key \ deleted :
         \A f \in files : FoundIn(f, k) => disk[f.filepath][k] = newest[k]

\* compaction/README.md: compaction "runs safely alongside concurrent read
\* queries".  A lookup would then find the newest version first as long as some
\* file of the catalogue holds it.
NewestPresentIsFound ==
  unranged = 0
    => \A k \in Key : \A f, g \in files :
         (Has(f, k) /\ disk[f.filepath][k] = newest[k] /\ FoundIn(g, k))
           => disk[g.filepath][k] = newest[k]

\* compaction_manager.cpp: only a key with an "older version already emitted
\* or about to be" is skipped, the empty key included.
MergeKeepsEveryKey ==
  step = "idle"
    => \A k \in Key \ deleted :
         newest[k] # NoVersion => \E f \in files : Has(f, k)
=============================================================================
