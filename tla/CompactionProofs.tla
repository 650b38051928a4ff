--------------------------- MODULE CompactionProofs ---------------------------
(***************************************************************************)
(* The catalogue never lists a file that is not on disk, nor a file twice, *)
(* at any point of a compaction and of any number of flushes beside it,    *)
(* failures included.  The property is not inductive: that a               *)
(* new file overwrites no catalogued one rests on where the numbers of     *)
(* file names come from, and that deleting an input leaves nothing behind  *)
(* in the catalogue rests on what the steps before it have done.           *)
(*                                                                         *)
(* On that rest, as long as every new file could be read back, that the    *)
(* recorded key ranges have all the keys of their files and that the files *)
(* of a level below 0 are disjoint.  Between two steps of a job the        *)
(* catalogue may hold both the inputs of a merge and its outputs, so the   *)
(* invariant speaks of the files that count: the inputs until the merge is *)
(* done, the outputs from then on.                                         *)
(*                                                                         *)
(* What a lookup in the SSTables finds comes last, with merges that drop   *)
(* tombstones and older versions: newer versions of a key lie in the files *)
(* that are searched first, with one flush under way at a time; a key that *)
(* was flushed and never deleted is there; and the version found is the    *)
(* newest there ever was unless a merge had two source files with the key. *)
(***************************************************************************)
EXTENDS CompactionAges, FiniteSetTheorems, WellFoundedInduction, TLAPS

\* The fields of a catalogue entry the argument is about.
IsMeta(f) ==
  {"filepath", "level", "smallest_key", "largest_key", "sequence_number", "copy"}
    \subseteq DOMAIN f

\* A file is named by its level and a number already drawn: flushes number level
\* 0, compactions the levels below it.
Named(f, nextFlushed, nextMerged) ==
  /\ IsMeta(f)
  /\ f.level \in Nat
  /\ f.sequence_number \in Int
  /\ \E n \in Nat : /\ f.filepath = <<f.level, n>>
                    /\ n < IF f.level = 0 THEN nextFlushed ELSE nextMerged

\* The paths of the entries of S.
Paths(S) == {f.filepath : f \in S}

\* Entries of one file, perhaps numbered differently.
SameFile(f, g) ==
  /\ f.filepath = g.filepath
  /\ f.level = g.level
  /\ f.smallest_key = g.smallest_key
  /\ f.largest_key = g.largest_key

\* No two entries of S are of one path.
OnePathEach(S) == \A f, g \in S : f.filepath = g.filepath => f = g

\* The counters, and where the job is.
JobInv ==
  /\ next_sst_sequence \in Nat
  /\ next_file_number \in Nat
  /\ target_level \in Nat
  /\ step # "idle" => target_level # 0
  /\ step # "add" => new_files = {}
  /\ IsFiniteSet(files)

\* Every file anyone holds has a name that was drawn, and level is what tells
\* the flushed from the merged.
NamesInv ==
  /\ \A f \in files \cup pending \cup new_files \cup all_inputs :
       Named(f, next_sst_sequence, next_file_number)
  /\ \A f \in pending : f.level = 0
  /\ \A f \in new_files : f.level # 0

\* Catalogued files and the ones about to be are on disk, each under a path of
\* its own, and the inputs of the job are none of the latter.
FilesInv ==
  /\ Paths(files \cup pending \cup new_files) \subseteq DOMAIN disk
  /\ OnePathEach(files) /\ OnePathEach(pending) /\ OnePathEach(new_files)
  /\ Paths(pending) \cap (Paths(files) \cup Paths(all_inputs)) = {}
  /\ Paths(new_files) \cap (Paths(files) \cup Paths(all_inputs)) = {}

\* The input that is about to be deleted has left the catalogue.
UnlinkInv ==
  step = "unlink" => \A f \in all_inputs : FirstInput(f) => f.filepath \notin Paths(files)

\* The inductive invariant behind CatalogueOnDisk.
CatalogueInv == JobInv /\ NamesInv /\ FilesInv /\ UnlinkInv
----------------------------------------------------------------------------
(* Facts about numbers and entries.                                        *)

\* A nonempty set of naturals has a least element, and Min is it.
LEMMA MinIsMember ==
  ASSUME NEW S \in SUBSET Nat, S # {}
  PROVE  Min(S) \in S /\ \A y \in S : Min(S) <= y
<1>1. IsWellFoundedOn(OpToRel(<, Nat), Nat)
  BY NatLessThanWellFounded, Zenon
<1>2. PICK x \in S : \A y \in S : ~ (<<y, x>> \in OpToRel(<, Nat))
  BY <1>1, WFMin, Zenon
<1>3. \A y \in S : ~ (y < x)
  BY <1>2, Zenon DEF OpToRel
<1>4. \A y \in S : x <= y
  BY <1>3
<1> QED
  BY <1>4, Zenon DEF Min

\* The level to compact is a level, and not the last one.
LEMMA LevelPicked ==
  NeedsCompaction => PickCompactionLevel \in Nat /\ PickCompactionLevel + 1 < max_level
<1> DEFINE tooBig == {level \in 1 .. max_level - 2 :
                        TotalBytesAtLevel(level) > MaxBytesForLevel(level)}
<1>1. ASSUME tooBig # {} PROVE Min(tooBig) \in Nat /\ Min(tooBig) + 1 < max_level
  <2>1. tooBig \in SUBSET Nat /\ \A level \in tooBig : level + 1 < max_level
    BY CompactionConstants
  <2> HIDE DEF tooBig
  <2> QED
    BY <1>1, <2>1, MinIsMember, Zenon
<1> QED
  BY <1>1, CompactionConstants DEF NeedsCompaction, PickCompactionLevel

\* A name that was drawn stays drawn.
LEMMA NamedLater ==
  ASSUME NEW f, NEW a \in Nat, NEW b \in Nat, NEW c \in Nat, NEW d \in Nat,
         a <= c, b <= d, Named(f, a, b)
  PROVE  Named(f, c, d)
  BY DEF Named

\* SelectCompactionFiles renumbers an entry and AddFile tells copies apart;
\* neither renames a file.
LEMMA RenumberedIsNamed ==
  ASSUME NEW f, NEW a \in Nat, NEW b \in Nat, Named(f, a, b), NEW n \in Int
  PROVE  /\ Named([f EXCEPT !.sequence_number = n], a, b)
         /\ SameFile([f EXCEPT !.sequence_number = n], f)
         /\ [f EXCEPT !.sequence_number = n].sequence_number = n
  BY DEF Named, IsMeta, SameFile

\* Marking an entry as another copy leaves it an entry of the same file.
LEMMA CopyIsNamed ==
  ASSUME NEW f, NEW a \in Nat, NEW b \in Nat, Named(f, a, b), NEW n
  PROVE  /\ Named([f EXCEPT !.copy = n], a, b)
         /\ SameFile([f EXCEPT !.copy = n], f)
         /\ [f EXCEPT !.copy = n].sequence_number = f.sequence_number
  BY DEF Named, IsMeta, SameFile

\* AddFile adds an entry for the file it is given.
LEMMA AddedIs ==
  ASSUME NEW meta, NEW a \in Nat, NEW b \in Nat, Named(meta, a, b), AddFile(meta)
  PROVE  \E added : /\ files' = files \cup {added}
                    /\ Named(added, a, b) /\ SameFile(added, meta)
                    /\ added.sequence_number = meta.sequence_number
<1> DEFINE c == Cardinality({f \in files : f.filepath = meta.filepath})
           added == [meta EXCEPT !.copy = c]
<1>1. files' = files \cup {added}
  BY DEF AddFile
<1>2. /\ Named(added, a, b) /\ SameFile(added, meta)
      /\ added.sequence_number = meta.sequence_number
  BY CopyIsNamed
<1> QED
  BY <1>1, <1>2, Zenon

\* There is one first input.
LEMMA OneFirstInput ==
  ASSUME NamesInv, NEW f \in all_inputs, NEW g \in all_inputs, FirstInput(f), FirstInput(g),
         target_level \in Nat
  PROVE  f = g
<1>1. /\ f.level \in Nat /\ g.level \in Nat
      /\ f.sequence_number \in Int /\ g.sequence_number \in Int
  BY DEF NamesInv, Named
<1> QED
  BY <1>1 DEF FirstInput, ListedBefore
----------------------------------------------------------------------------
(* The inductive step, one lemma for each kind of action.                  *)

\* The constructor starts with an empty catalogue.
LEMMA CatalogueInvInit == Init => CatalogueInv
<1> SUFFICES ASSUME Init PROVE CatalogueInv
  OBVIOUS
<1>1. JobInv
  BY FS_EmptySet DEF Init, CompactionInit, JobInv
<1>2. NamesInv /\ FilesInv /\ UnlinkInv
  BY DEF Init, CompactionInit, NamesInv, FilesInv, UnlinkInv, Paths, OnePathEach
<1> QED
  BY <1>1, <1>2 DEF CatalogueInv

\* AddFile takes a file from the ones that wait, by the flusher or by the job.
LEMMA AddedIsKept ==
  ASSUME CatalogueInv, NEW meta, AddFile(meta),
         UNCHANGED <<disk, next_file_number, target_level, all_inputs, next_sst_sequence>>,
         \/ /\ meta \in pending /\ pending' = pending \ {meta}
            /\ UNCHANGED <<new_files, step>>
         \/ /\ meta \in new_files /\ new_files' = new_files \ {meta}
            /\ UNCHANGED pending
            /\ step = "add" /\ step' = IF new_files' = {} THEN "remove" ELSE "add"
  PROVE  CatalogueInv'
<1> USE DEF CatalogueInv
<1>1. PICK added : /\ files' = files \cup {added}
                   /\ Named(added, next_sst_sequence, next_file_number)
                   /\ SameFile(added, meta)
  BY AddedIs DEF NamesInv, JobInv
<1>2. /\ Named(added, next_sst_sequence, next_file_number)
      /\ added.filepath = meta.filepath
  BY <1>1 DEF SameFile
<1>3. JobInv'
  BY <1>1, FS_AddElement DEF JobInv
<1>4. NamesInv'
  BY <1>1, <1>2 DEF NamesInv
<1>5. meta.filepath \in DOMAIN disk /\ meta.filepath \notin Paths(files) \cup Paths(all_inputs)
  BY Zenon DEF FilesInv, Paths
<1>6. \A f \in pending' \cup new_files' : f.filepath # meta.filepath
  <2>1. ASSUME NEW f \in pending, NEW g \in new_files PROVE f.filepath # g.filepath
    BY DEF NamesInv, Named
  <2> QED
    BY <2>1 DEF FilesInv, OnePathEach
<1>7. FilesInv'
  BY <1>1, <1>2, <1>5, <1>6 DEF FilesInv, Paths, OnePathEach
<1>8. UnlinkInv'
  BY <1>1, <1>2, <1>5 DEF UnlinkInv, Paths, FirstInput, ListedBefore
<1> QED
  BY <1>3, <1>4, <1>7, <1>8

\* A flush writes, or fails to write, under a number no file has.
LEMMA FlushWriteKept ==
  ASSUME CatalogueInv, (\E table \in Table : FlushWrite(table)) \/ FlushWriteFails
  PROVE  CatalogueInv'
<1> USE DEF CatalogueInv
<1> DEFINE path == Level0Path(next_sst_sequence)
<1>1. /\ UNCHANGED <<files, next_file_number, jobVars>>
      /\ next_sst_sequence' = next_sst_sequence + 1
  BY DEF FlushWrite, FlushWriteFails
<1>2. \A f \in files \cup pending \cup new_files \cup all_inputs : f.filepath # path
  BY DEF NamesInv, Named, Level0Path, JobInv
<1>3. JobInv'
  BY <1>1 DEF JobInv, jobVars
<1>4. UnlinkInv'
  BY <1>1 DEF UnlinkInv, jobVars, FirstInput, ListedBefore
<1>5. \A f \in files \cup pending \cup new_files \cup all_inputs :
        Named(f, next_sst_sequence', next_file_number')
  BY <1>1, NamedLater DEF NamesInv, JobInv
<1>6. ASSUME NEW table \in Table, FlushWrite(table) PROVE NamesInv' /\ FilesInv'
  <2>1. PICK lo, hi : pending' = pending \cup {Level0Meta(next_sst_sequence, table, lo, hi)}
    BY <1>6 DEF FlushWrite
  <2> DEFINE meta == Level0Meta(next_sst_sequence, table, lo, hi)
  <2>2. /\ pending' = pending \cup {meta}
        /\ meta.level = 0
        /\ meta.filepath = path
        /\ Named(meta, next_sst_sequence', next_file_number')
    BY <1>1, <2>1 DEF Level0Meta, Level0Path, Named, IsMeta, JobInv
  <2> HIDE DEF meta
  <2>3. NamesInv'
    BY <1>1, <1>5, <2>2 DEF NamesInv, jobVars
  <2>4. DOMAIN disk' = DOMAIN disk \cup {path}
    BY <1>6 DEF FlushWrite, WithTable
  <2> HIDE DEF path
  <2>5. FilesInv'
    BY <1>1, <1>2, <2>2, <2>4 DEF FilesInv, Paths, OnePathEach, jobVars
  <2> QED
    BY <2>3, <2>5
<1>7. ASSUME FlushWriteFails PROVE NamesInv' /\ FilesInv'
  <2>1. pending' = pending /\ DOMAIN disk' = DOMAIN disk \ {path}
    BY <1>7 DEF FlushWriteFails, Unreadable
  <2>2. NamesInv'
    BY <1>1, <1>5, <2>1, Zenon DEF NamesInv, jobVars
  <2> HIDE DEF path
  <2>3. FilesInv'
    BY <1>1, <1>2, <2>1, Zenon DEF FilesInv, Paths, OnePathEach, jobVars
  <2> QED
    BY <2>2, <2>3
<1> QED
  BY <1>3, <1>4, <1>6, <1>7

\* Choosing the input takes entries of the catalogue and renumbers them.
LEMMA SelectKept ==
  ASSUME CatalogueInv, SelectCompactionFiles, UNCHANGED <<next_sst_sequence, pending>>
  PROVE  CatalogueInv'
<1> USE DEF CatalogueInv
<1>1. /\ step = "idle" /\ step' = "merge" /\ NeedsCompaction
      /\ target_level' = PickCompactionLevel + 1
      /\ UNCHANGED <<files, disk, next_file_number, new_files>>
  BY DEF SelectCompactionFiles
<1>2. target_level' \in Nat \ {0}
  BY <1>1, LevelPicked
<1>3. PICK source \in SourceChoices(PickCompactionLevel) :
        \E rankS \in SortOrders(source),
           rankT \in SortOrders(Overlapping(source, PickCompactionLevel)) :
          all_inputs' = Numbered(source, Overlapping(source, PickCompactionLevel), rankS, rankT)
  BY DEF SelectCompactionFiles
<1> DEFINE target == Overlapping(source, PickCompactionLevel)
<1>4. source \subseteq files /\ target \subseteq files
  BY DEF SourceChoices, Overlapping, GetFilesAtLevel
<1> HIDE DEF target
<1>5. PICK rankS \in SortOrders(source), rankT \in SortOrders(target) :
        all_inputs' = Numbered(source, target, rankS, rankT)
  BY <1>3 DEF target
<1>6. Cardinality(source) \in Nat /\ Cardinality(target) \in Nat
  BY <1>4, FS_Subset, FS_CardinalityType DEF JobInv
<1>7. /\ \A f \in source : rankS[f] \in Int
      /\ \A f \in target : rankT[f] \in Int
  BY <1>6 DEF SortOrders, Bijection, Injection
<1>8. ASSUME NEW g \in all_inputs'
      PROVE  /\ Named(g, next_sst_sequence, next_file_number)
             /\ g.filepath \in Paths(files)
  <2>1. PICK f \in files, n \in Int : g = [f EXCEPT !.sequence_number = n]
    <3> DEFINE total == Cardinality(source) + Cardinality(target)
               A == {[f EXCEPT !.sequence_number = total - (rankS[f] - 1)] : f \in source}
               B == {[f EXCEPT !.sequence_number = rankT[f] - 1] : f \in target}
    <3>1. g \in A \/ g \in B
      BY <1>5, Zenon DEF Numbered
    <3>2. CASE g \in A
      <4>1. PICK f \in source : g = [f EXCEPT !.sequence_number = total - (rankS[f] - 1)]
        BY <3>2, Zenon
      <4>2. f \in files /\ total - (rankS[f] - 1) \in Int
        BY <1>4, <1>6, <1>7
      <4> QED
        BY <4>1, <4>2, Zenon
    <3>3. CASE g \in B
      <4>1. PICK f \in target : g = [f EXCEPT !.sequence_number = rankT[f] - 1]
        BY <3>3, Zenon
      <4>2. f \in files /\ rankT[f] - 1 \in Int
        BY <1>4, <1>7
      <4> QED
        BY <4>1, <4>2, Zenon
    <3> QED
      BY <3>1, <3>2, <3>3
  <2>2. Named(f, next_sst_sequence, next_file_number)
    BY DEF NamesInv
  <2> QED
    BY <2>1, <2>2, RenumberedIsNamed DEF Paths, JobInv, SameFile
<1>9. JobInv'
  BY <1>1, <1>2 DEF JobInv
<1>10. NamesInv'
  BY <1>1, <1>8 DEF NamesInv
<1>11. FilesInv'
  <2>1. Paths(all_inputs') \subseteq Paths(files)
    BY <1>8 DEF Paths
  <2> QED
    BY <1>1, <2>1, Zenon DEF FilesInv, Paths, OnePathEach
<1>12. UnlinkInv'
  BY <1>1 DEF UnlinkInv
<1> QED
  BY <1>9, <1>10, <1>11, <1>12

\* What the outputs of a merge are called.
LEMMA OutputPathIsNew ==
  ASSUME JobInv, NamesInv, target_level # 0, NEW j \in Nat \ {0},
         NEW f \in files \cup pending \cup new_files \cup all_inputs
  PROVE  f.filepath # OutputPath(j)
  BY DEF NamesInv, Named, OutputPath, JobInv

\* Writing outputs deletes nothing.
LEMMA OutputsOnDisk ==
  ASSUME NEW part, NEW m
  PROVE  DOMAIN WithOutputs(part, m) = DOMAIN disk \cup {OutputPath(j) : j \in 1 .. m}
  BY DEF WithOutputs

\* What a merge that is through has written and reports, whatever the size of a
\* file whose last bytes did not reach the disk.
LEMMA MergeWrites ==
  ASSUME MergeFiles
  PROVE  \E m \in 0 .. MaxOutputs : \E part \in Splits(m) : \E size :
           /\ disk' = WithOutputs(part, m)
           /\ new_files' = {OutputMeta(part, j, size[j]) : j \in 1 .. m}
           /\ next_file_number' = next_file_number + m + 1
  BY Zenon DEF MergeFiles

\* What a merge has written that fails at an output.
LEMMA MergeStopsAt ==
  ASSUME MergeWriteFails
  PROVE  \E m \in 1 .. MaxOutputs : \E part \in Splits(m), j \in 1 .. m :
           /\ disk' = Unreadable(WithOutputs(part, j - 1), OutputPath(j))
           /\ next_file_number' = next_file_number + j
  BY Zenon DEF MergeWriteFails, WriteUpTo

\* A merge writes new files only, and reports the ones it wrote.
LEMMA MergeKept ==
  ASSUME CatalogueInv, MergeFiles, UNCHANGED <<next_sst_sequence, pending>>
  PROVE  CatalogueInv'
<1> USE DEF CatalogueInv
<1>1. /\ step = "merge" /\ UNCHANGED <<files, target_level, all_inputs>>
      /\ step' = IF new_files' = {} THEN "remove" ELSE "add"
  BY DEF MergeFiles
<1>2. PICK m \in 0 .. MaxOutputs : \E part \in Splits(m) : \E size :
        /\ disk' = WithOutputs(part, m)
        /\ new_files' = {OutputMeta(part, j, size[j]) : j \in 1 .. m}
        /\ next_file_number' = next_file_number + m + 1
  BY MergeWrites, Zenon
<1>3. PICK part, size : /\ disk' = WithOutputs(part, m)
                        /\ new_files' = {OutputMeta(part, j, size[j]) : j \in 1 .. m}
                        /\ next_file_number' = next_file_number + m + 1
  BY <1>2, Zenon
<1>4. target_level \in Nat \ {0} /\ next_file_number' \in Nat /\ new_files = {}
  BY <1>1, <1>3 DEF JobInv
<1>5. DOMAIN disk' = DOMAIN disk \cup {OutputPath(j) : j \in 1 .. m}
  BY <1>3, OutputsOnDisk, Zenon
<1>6. ASSUME NEW j \in 1 .. m
      PROVE  /\ OutputMeta(part, j, size[j]).filepath = OutputPath(j)
             /\ OutputMeta(part, j, size[j]).level # 0
             /\ Named(OutputMeta(part, j, size[j]), next_sst_sequence', next_file_number')
  <2>1. /\ IsMeta(OutputMeta(part, j, size[j]))
        /\ OutputMeta(part, j, size[j]).filepath = <<target_level, next_file_number + j - 1>>
        /\ OutputMeta(part, j, size[j]).level = target_level
        /\ OutputMeta(part, j, size[j]).sequence_number = next_file_number + j
    BY DEF OutputMeta, OutputPath, IsMeta
  <2>2. /\ next_file_number + j - 1 \in Nat /\ next_file_number + j - 1 < next_file_number'
        /\ next_file_number + j \in Int
    BY <1>3 DEF JobInv
  <2> QED
    BY <1>4, <2>1, <2>2, ZenonT(30) DEF Named, OutputPath
<1>7. \A i, j \in 1 .. m : OutputPath(i) = OutputPath(j) => i = j
  BY DEF OutputPath, JobInv
<1>8. \A j \in 1 .. m, f \in files \cup pending \cup all_inputs : f.filepath # OutputPath(j)
  BY <1>4, OutputPathIsNew
<1>9. JobInv'
  BY <1>1, <1>4 DEF JobInv
<1>10. NamesInv'
  <2>1. \A f \in files \cup pending \cup all_inputs :
          Named(f, next_sst_sequence', next_file_number')
    BY <1>3, <1>4, NamedLater DEF NamesInv, JobInv
  <2> QED
    BY <1>1, <1>3, <1>6, <2>1, Zenon DEF NamesInv
<1>11. FilesInv'
  <2>1. Paths(new_files') = {OutputPath(j) : j \in 1 .. m} /\ OnePathEach(new_files')
    BY <1>3, <1>6, <1>7 DEF Paths, OnePathEach
  <2>2. Paths(files' \cup pending' \cup new_files') \subseteq DOMAIN disk'
    BY <1>1, <1>5, <2>1, Zenon DEF FilesInv, Paths
  <2>3. Paths(new_files') \cap (Paths(files) \cup Paths(all_inputs)) = {}
    BY <1>8, <2>1 DEF Paths
  <2> QED
    BY <1>1, <2>1, <2>2, <2>3, Zenon DEF FilesInv, OnePathEach, Paths
<1>12. UnlinkInv'
  BY <1>1 DEF UnlinkInv
<1> QED
  BY <1>9, <1>10, <1>11, <1>12

\* A merge that gives up leaves whole outputs in no catalogue, and makes
\* unreadable only a path that no file had.
LEMMA MergeFailsKept ==
  ASSUME CatalogueInv, MergeReadFails \/ MergeWriteFails, UNCHANGED <<next_sst_sequence, pending>>
  PROVE  CatalogueInv'
<1> USE DEF CatalogueInv
<1>1. /\ step = "merge" /\ step' = "idle" /\ all_inputs' = {}
      /\ UNCHANGED <<files, target_level, new_files>>
  BY DEF MergeReadFails, MergeWriteFails, JobGivenUp
<1>2. target_level \in Nat \ {0} /\ new_files = {}
  BY <1>1 DEF JobInv
<1>3. /\ next_file_number' \in Nat /\ next_file_number <= next_file_number'
      /\ Paths(files \cup pending) \subseteq DOMAIN disk'
  <2>1. CASE MergeReadFails
    BY <2>1 DEF MergeReadFails, JobInv, FilesInv, Paths
  <2>2. CASE MergeWriteFails
    <3>1. PICK m \in 1 .. MaxOutputs : \E part \in Splits(m), j \in 1 .. m :
            /\ disk' = Unreadable(WithOutputs(part, j - 1), OutputPath(j))
            /\ next_file_number' = next_file_number + j
      BY <2>2, MergeStopsAt, Zenon
    <3>2. PICK part \in Splits(m), j \in 1 .. m :
            /\ disk' = Unreadable(WithOutputs(part, j - 1), OutputPath(j))
            /\ next_file_number' = next_file_number + j
      BY <3>1
    <3>3. j \in Nat \ {0} /\ next_file_number' \in Nat /\ next_file_number <= next_file_number'
      BY <3>2 DEF JobInv
    <3>4. DOMAIN disk \ {OutputPath(j)} \subseteq DOMAIN disk'
      BY <3>2, OutputsOnDisk, Zenon DEF Unreadable
    <3>5. \A f \in files \cup pending : f.filepath # OutputPath(j)
      BY <1>2, <3>3, OutputPathIsNew, Zenon
    <3> QED
      BY <3>3, <3>4, <3>5, Zenon DEF FilesInv, Paths
  <2> QED
    BY <2>1, <2>2, ZenonT(30)
<1>4. JobInv'
  BY <1>1, <1>2, <1>3, ZenonT(30) DEF JobInv
<1>5. NamesInv'
  <2>1. \A f \in files \cup pending : Named(f, next_sst_sequence', next_file_number')
    BY <1>3, NamedLater DEF NamesInv, JobInv
  <2> QED
    BY <1>1, <1>2, <2>1, Zenon DEF NamesInv
<1>6. FilesInv'
  BY <1>1, <1>2, <1>3, ZenonT(30) DEF FilesInv, Paths, OnePathEach
<1>7. UnlinkInv'
  BY <1>1 DEF UnlinkInv
<1> QED
  BY <1>4, <1>5, <1>6, <1>7, ZenonT(30)

\* An input leaves the catalogue before its file is deleted.
LEMMA RemoveKept ==
  ASSUME CatalogueInv, RemoveInput, UNCHANGED <<next_sst_sequence, pending>>
  PROVE  CatalogueInv'
<1> USE DEF CatalogueInv
<1>1. PICK f \in all_inputs : FirstInput(f) /\ RemoveFile(f.filepath)
  BY DEF RemoveInput
<1>2. /\ step = "remove" /\ step' = "unlink"
      /\ UNCHANGED <<disk, next_file_number, target_level, all_inputs, new_files>>
  BY DEF RemoveInput
<1>3. files' \subseteq files /\ f.filepath \notin Paths(files')
  BY <1>1 DEF RemoveFile, Paths
<1>4. JobInv'
  BY <1>2, <1>3, FS_Subset, Zenon DEF JobInv
<1>5. NamesInv'
  BY <1>2, <1>3, Zenon DEF NamesInv
<1>6. FilesInv'
  BY <1>2, <1>3, SMTT(30) DEF FilesInv, Paths, OnePathEach
<1>7. UnlinkInv'
  <2>1. ASSUME NEW g \in all_inputs', FirstInput(g)' PROVE g = f
    <3>1. FirstInput(g)
      BY <1>2, <2>1, Zenon DEF FirstInput, ListedBefore
    <3> QED
      BY <1>1, <1>2, <3>1, OneFirstInput, ZenonT(30) DEF JobInv
  <2> QED
    BY <1>3, <2>1 DEF UnlinkInv
<1> QED
  BY <1>4, <1>5, <1>6, <1>7

\* The file that is deleted is in no catalogue and not on its way there.
LEMMA UnlinkKept ==
  ASSUME CatalogueInv, UnlinkInput, UNCHANGED <<next_sst_sequence, pending>>
  PROVE  CatalogueInv'
<1> USE DEF CatalogueInv
<1>1. PICK f \in all_inputs : /\ FirstInput(f)
                              /\ disk' = Unreadable(disk, f.filepath)
                              /\ all_inputs' = all_inputs \ {f}
  BY DEF UnlinkInput
<1>2. /\ step = "unlink" /\ step' \in {"idle", "remove"}
      /\ UNCHANGED <<files, next_file_number, target_level, new_files>>
  BY ZenonT(30) DEF UnlinkInput
<1>3. f.filepath \notin Paths(files) \cup Paths(pending) \cup Paths(new_files)
  BY <1>1, <1>2, Zenon DEF UnlinkInv, FilesInv, Paths
<1>4. DOMAIN disk' = DOMAIN disk \ {f.filepath}
  BY <1>1 DEF Unreadable
<1>5. JobInv'
  BY <1>2 DEF JobInv
<1>6. NamesInv'
  BY <1>1, <1>2, Zenon DEF NamesInv
<1>7. FilesInv'
  <2>1. Paths(files \cup pending \cup new_files)' \subseteq DOMAIN disk'
    BY <1>2, <1>3, <1>4, Zenon DEF FilesInv, Paths
  <2>2. Paths(all_inputs') \subseteq Paths(all_inputs)
    BY <1>1, Zenon DEF Paths
  <2>3. /\ Paths(pending)' \cap (Paths(files)' \cup Paths(all_inputs)') = {}
        /\ Paths(new_files)' \cap (Paths(files)' \cup Paths(all_inputs)') = {}
    BY <1>2, <2>2, Zenon DEF FilesInv, Paths
  <2>4. OnePathEach(files)' /\ OnePathEach(pending)' /\ OnePathEach(new_files)'
    BY <1>2, Zenon DEF FilesInv, OnePathEach
  <2> QED
    BY <2>1, <2>3, <2>4, Zenon DEF FilesInv
<1>8. UnlinkInv'
  BY <1>2 DEF UnlinkInv
<1> QED
  BY <1>5, <1>6, <1>7, <1>8

\* Every step of a flush or of RunCompaction.
LEMMA CatalogueInvNext == CatalogueInv /\ [Next]_specVars => CatalogueInv'
<1> SUFFICES ASSUME CatalogueInv, [Next]_specVars PROVE CatalogueInv'
  OBVIOUS
<1>1. CASE UNCHANGED specVars
  BY <1>1, Zenon DEF specVars, compactionVars, jobVars, CatalogueInv, JobInv, NamesInv, FilesInv,
              UnlinkInv, Paths, OnePathEach, FirstInput, ListedBefore
<1>2. CASE Compact
  <2>1. UNCHANGED <<next_sst_sequence, pending>>
    BY <1>2 DEF Compact
  <2>2. CASE AddOutput
    <3>1. PICK meta \in new_files : AddFile(meta) /\ new_files' = new_files \ {meta}
      BY <2>2 DEF AddOutput
    <3> QED
      BY <2>1, <2>2, <3>1, AddedIsKept DEF AddOutput
  <2> QED
    BY <1>2, <2>1, <2>2, SelectKept, MergeKept, MergeFailsKept, RemoveKept, UnlinkKept
       DEF Compact, RunCompaction
<1>3. ASSUME NEW meta \in pending, FlushAdd(meta) PROVE CatalogueInv'
  <2>1. /\ AddFile(meta) /\ pending' = pending \ {meta}
        /\ UNCHANGED <<disk, next_file_number, target_level, all_inputs, next_sst_sequence>>
        /\ UNCHANGED <<new_files, step>>
    BY <1>3 DEF FlushAdd, jobVars
  <2> QED
    BY <1>3, <2>1, AddedIsKept, Zenon
<1> QED
  BY <1>1, <1>2, <1>3, FlushWriteKept DEF Next

\* A file is damaged by a failed flush of the stream that wrote it, and by
\* nothing else.
DamageInv == io_errors \in Nat /\ (io_errors = 0 => damaged = {})

\* Every step that damages a file counts a failure.
LEMMA DamageInvNext == DamageInv /\ [Next]_specVars => DamageInv'
<1> SUFFICES ASSUME DamageInv, [Next]_specVars PROVE DamageInv'
  BY Zenon
<1> USE DEF DamageInv
<1>1. CASE UNCHANGED <<io_errors, damaged>>
  BY <1>1, Zenon
<1>2. ASSUME io_errors' = io_errors + 1 PROVE DamageInv'
  BY <1>2
<1>3. ASSUME UNCHANGED io_errors, damaged' \subseteq damaged PROVE DamageInv'
  BY <1>3, Zenon
<1>4. CASE \E table \in Table : FlushWrite(table)
  BY <1>2, <1>3, <1>4, Zenon DEF FlushWrite
<1>5. CASE FlushWriteFails \/ MergeWriteFails
  BY <1>2, <1>5, Zenon DEF FlushWriteFails, MergeWriteFails
<1>6. CASE UnlinkInput
  BY <1>3, <1>6, Zenon DEF UnlinkInput
<1>7. CASE MergeFiles
  <2>1. PICK m \in 0 .. MaxOutputs : \E lost \in SUBSET (1 .. m) :
          /\ damaged' = DamagedBy(m, lost)
          /\ io_errors' = IF lost = {} THEN io_errors ELSE io_errors + 1
    BY <1>7, Zenon DEF MergeFiles
  <2>2. PICK lost \in SUBSET (1 .. m) :
          /\ damaged' = DamagedBy(m, lost)
          /\ io_errors' = IF lost = {} THEN io_errors ELSE io_errors + 1
    BY <2>1, Zenon
  <2>3. CASE lost = {}
    BY <1>3, <2>2, <2>3, Zenon DEF DamagedBy
  <2> QED
    BY <1>2, <2>2, <2>3, Zenon
<1>8. CASE MergeReadFails
  BY <1>1, <1>2, <1>8, Zenon DEF MergeReadFails
<1>9. \/ UNCHANGED <<io_errors, damaged>> \/ FlushWriteFails \/ MergeWriteFails
      \/ (\E table \in Table : FlushWrite(table)) \/ UnlinkInput \/ MergeFiles
      \/ MergeReadFails
  BY Zenon DEF Next, specVars, compactionVars, Compact, RunCompaction, SelectCompactionFiles,
         AddOutput, RemoveInput, FlushAdd
<1> QED
  BY <1>1, <1>4, <1>5, <1>6, <1>7, <1>8, <1>9, Zenon

\* Whatever flushes and compactions do and in whatever order, every file the
\* catalogue lists is on disk and is listed once, and it can be read unless a
\* write that was reported as a success had failed (AddFile, RemoveFile,
\* RunCompaction, FlushMemTable).
THEOREM CatalogueAlwaysOnDisk == Spec => []CatalogueOnDisk
<1>1. CatalogueInv /\ DamageInv => CatalogueOnDisk
  <2> SUFFICES ASSUME CatalogueInv, DamageInv PROVE CatalogueOnDisk
    BY Zenon
  <2>1. \A f \in files : f.filepath \in DOMAIN disk
    BY Zenon DEF CatalogueInv, FilesInv, Paths
  <2>2. damaged # {} => io_errors > 0
    BY DEF DamageInv
  <2>3. \A f \in files : ~ CanRead(f) => io_errors > 0
    BY <2>1, <2>2, Zenon DEF CanRead
  <2>4. \A f, g \in files : f.filepath = g.filepath => f = g
    BY Zenon DEF CatalogueInv, FilesInv, OnePathEach
  <2> QED
    BY <2>1, <2>3, <2>4, Zenon DEF CatalogueOnDisk
<1>2. Init => DamageInv
  BY DEF Init, CompactionInit, DamageInv
<1> QED
  BY <1>1, <1>2, CatalogueInvInit, CatalogueInvNext, DamageInvNext, PTL DEF Spec
----------------------------------------------------------------------------
(* Key ranges and levels.  The files that count are the catalogued ones,   *)
(* except that once a merge is done its inputs no longer do and its        *)
(* outputs already do.                                                     *)

\* Every entry that the catalogue, a flush or the job holds.
Held == files \cup pending \cup new_files \cup all_inputs

\* The catalogue without the inputs of the job.
Kept == {f \in files : f.filepath \notin Paths(all_inputs)}

\* The files that count.
Live == IF step \in {"idle", "merge"} THEN files ELSE Kept \cup new_files

\* The recorded range of f has all the keys of its file.
Covers(f) ==
  /\ f.smallest_key \in Nat /\ f.largest_key \in Nat
  /\ f.smallest_key <= f.largest_key
  /\ \A k \in DOMAIN disk[f.filepath] : f.smallest_key <= k /\ k <= f.largest_key

\* The ranges of f and g have no key in common.
Apart(f, g) == f.largest_key < g.smallest_key \/ g.largest_key < f.smallest_key

\* Below level 0, the files of S that share a level have disjoint ranges.
DeepDisjoint(S) ==
  \A f, g \in S : (f.level = g.level /\ f.level > 0 /\ f # g) => Apart(f, g)

\* What is on disk are finite tables, and the merge has finitely many inputs,
\* which are the catalogue's until it is done.
ContentInv ==
  /\ \A p \in DOMAIN disk : disk[p] \in Table
  /\ target_level < max_level /\ \A f \in Held : f.level < max_level
  /\ IsFiniteSet(all_inputs)
  /\ \A f \in all_inputs : f.sequence_number \in Nat
  /\ step = "merge" => \A f \in all_inputs : \E g \in files : SameFile(f, g)

\* The recorded range of every file has all its keys.
RangeInv ==
  unranged = 0 => \A f \in Held : f.filepath \in DOMAIN disk => Covers(f)

\* The files of the target level that the merge leaves alone lie to one side of
\* all its inputs.
SeparatedInv ==
  (unranged = 0 /\ step = "merge") =>
    \A g \in Kept : g.level = target_level =>
      \/ \A f \in all_inputs : g.largest_key < f.smallest_key
      \/ \A f \in all_inputs : f.largest_key < g.smallest_key

\* The files that count are disjoint, as long as every new file could be read back.
DisjointInv == unranged = 0 => DeepDisjoint(Live)

\* The inductive invariant behind RangesCoverKeys and LevelsDisjoint; it needs
\* CatalogueInv beside it.
LevelsInv ==
  /\ unranged \in Nat
  /\ ContentInv /\ RangeInv /\ SeparatedInv /\ DisjointInv
----------------------------------------------------------------------------
(* Finite sets of numbers.                                                 *)

\* A finite set of naturals has a bound: of the unbounded subsets one would be
\* the smallest.
LEMMA FiniteIsBounded ==
  ASSUME NEW S \in SUBSET Nat, IsFiniteSet(S)
  PROVE  \E b \in Nat : \A x \in S : x <= b
<1> DEFINE Bounded(T) == \E b \in Nat : \A x \in T : x <= b
           N == {n \in Nat : \E T \in SUBSET S : Cardinality(T) = n /\ ~ Bounded(T)}
<1> SUFFICES ASSUME ~ Bounded(S) PROVE FALSE
  OBVIOUS
<1>1. \A T \in SUBSET S : IsFiniteSet(T) /\ Cardinality(T) \in Nat
  BY FS_Subset, FS_CardinalityType, Zenon
<1>2. Cardinality(S) \in N
  BY <1>1
<1> DEFINE n == Min(N)
<1>3. n \in N /\ \A m \in N : n <= m
  <2>1. N \in SUBSET Nat /\ N # {}
    BY <1>2
  <2> HIDE DEF N
  <2> QED
    BY <2>1, MinIsMember, Zenon
<1> HIDE DEF n
<1>4. PICK T \in SUBSET S : Cardinality(T) = n /\ ~ Bounded(T)
  BY <1>3
<1>5. PICK x \in T : TRUE
  BY <1>4, Zenon
<1>6. Cardinality(T \ {x}) = n - 1 /\ n - 1 \in Nat
  BY <1>1, <1>4, FS_RemoveElement
<1>7. ~ (n - 1 \in N)
  BY <1>3, <1>6
<1>8. Bounded(T \ {x})
  BY <1>6, <1>7
<1>9. PICK b \in Nat : \A y \in T \ {x} : y <= b
  BY <1>8, Zenon
<1>10. \A y \in T : y <= (IF b < x THEN x ELSE b)
  BY <1>9
<1> QED
  BY <1>4, <1>10, Zenon

\* Max of a finite set of keys is its greatest.
LEMMA MaxIsMember ==
  ASSUME NEW S \in SUBSET Nat, S # {}, IsFiniteSet(S)
  PROVE  Max(S) \in S /\ \A y \in S : y <= Max(S)
<1>1. PICK b \in Nat : \A x \in S : x <= b
  BY FiniteIsBounded
<1> DEFINE T == {b - x : x \in S}
<1>2. \A x \in S : b - x \in Nat
  BY <1>1
<1>3. T \in SUBSET Nat /\ T # {}
  BY <1>2, Zenon
<1> DEFINE m == Min(T)
<1>4. m \in T /\ \A y \in T : m <= y
  BY <1>3, MinIsMember, Zenon
<1> HIDE DEF m
<1>5. PICK x \in S : m = b - x
  BY <1>4
<1>6. \A y \in S : x >= y
  <2> TAKE y \in S
  <2>1. m <= b - y
    BY <1>4, Zenon
  <2> QED
    BY <1>5, <2>1
<1> QED
  BY <1>6, Zenon DEF Max

\* The range of finitely many ranges.
LEMMA RangeOfFiles ==
  ASSUME NEW S, S # {}, IsFiniteSet(S),
         \A f \in S : f.smallest_key \in Nat /\ f.largest_key \in Nat
  PROVE  /\ Min({f.smallest_key : f \in S}) \in Nat
         /\ Max({f.largest_key : f \in S}) \in Nat
         /\ \A f \in S : /\ Min({g.smallest_key : g \in S}) <= f.smallest_key
                         /\ f.largest_key <= Max({g.largest_key : g \in S})
<1> DEFINE A == {f.smallest_key : f \in S}
           B == {f.largest_key : f \in S}
           last == [f \in S |-> f.largest_key]
<1>1. A \in SUBSET Nat /\ A # {} /\ B \in SUBSET Nat /\ B # {}
  OBVIOUS
<1>2. last \in Surjection(S, B)
  BY Zenon DEF Surjection
<1>3. IsFiniteSet(B)
  BY <1>2, FS_Surjection
<1>4. Min(A) \in A /\ \A y \in A : Min(A) <= y
  BY <1>1, MinIsMember, Zenon
<1>5. Max(B) \in B /\ \A y \in B : y <= Max(B)
  BY <1>1, <1>3, MaxIsMember, Zenon
<1> QED
  BY <1>1, <1>4, <1>5, Zenon
----------------------------------------------------------------------------
(* What a merge yields.                                                    *)

\* Tables are finite and map keys to versions.
LEMMA TableIs ==
  ASSUME NEW table \in Table
  PROVE  /\ DOMAIN table \subseteq Key
         /\ DOMAIN table \in SUBSET Nat
         /\ IsFiniteSet(DOMAIN table)
         /\ \A k \in DOMAIN table : table[k] \in Version
<1>1. PICK K \in SUBSET Key : IsFiniteSet(K) /\ table \in [K -> Version]
  BY DEF Table
<1> QED
  BY <1>1, CompactionConstants, Zenon

\* The merge emits finitely many keys.
LEMMA MergedKeysFinite ==
  ASSUME ContentInv, InputsReadable
  PROVE  MergedKeys \in SUBSET Nat /\ IsFiniteSet(MergedKeys)
<1> DEFINE D == {DOMAIN disk[f.filepath] : f \in all_inputs}
           keysOf == [f \in all_inputs |-> DOMAIN disk[f.filepath]]
<1>1. \A T \in D : T \in SUBSET Nat /\ IsFiniteSet(T)
  BY TableIs DEF ContentInv, InputsReadable, CanRead
<1>2. keysOf \in Surjection(all_inputs, D)
  BY Zenon DEF Surjection
<1>3. IsFiniteSet(D)
  BY <1>2, FS_Surjection, Zenon DEF ContentInv
<1>4. IsFiniteSet(UNION D)
  BY <1>1, <1>3, FS_UNION, Zenon
<1>5. MergedKeys \subseteq UNION D
  BY DEF MergedKeys
<1>6. UNION D \in SUBSET Nat
  BY <1>1
<1> HIDE DEF D
<1> QED
  BY <1>4, <1>5, <1>6, FS_Subset, Zenon

\* Of the inputs with a key one has the highest precedence.
LEMMA WinnerIs ==
  ASSUME ContentInv, NEW k, NEW f \in all_inputs, Has(f, k)
  PROVE  /\ Winner(k) \in all_inputs
         /\ Has(Winner(k), k)
         /\ \A g \in all_inputs : Has(g, k) => g.sequence_number <= Winner(k).sequence_number
<1> DEFINE H == {g \in all_inputs : Has(g, k)}
           N == {g.sequence_number : g \in H}
           number == [g \in H |-> g.sequence_number]
<1>1. IsFiniteSet(H)
  BY FS_Subset DEF ContentInv
<1>2. number \in Surjection(H, N)
  BY DEF Surjection
<1>3. IsFiniteSet(N)
  BY <1>1, <1>2, FS_Surjection, ZenonT(30)
<1>4. N \in SUBSET Nat /\ N # {}
  BY DEF ContentInv
<1>5. Max(N) \in N /\ \A y \in N : y <= Max(N)
  <2> HIDE DEF N
  <2> QED
    BY <1>3, <1>4, MaxIsMember
<1>6. PICK w \in all_inputs : Has(w, k) /\ w.sequence_number = Max(N)
  BY <1>5, Zenon
<1>7. \A g \in all_inputs : Has(g, k) => g.sequence_number <= w.sequence_number
  BY <1>5, <1>6, Zenon
<1> QED
  BY <1>6, <1>7 DEF Winner

\* Every key emitted is of some input, and its version is the winner's.
LEMMA MergedIs ==
  ASSUME ContentInv, NEW k \in MergedKeys
  PROVE  /\ k # EmptyKey
         /\ Winner(k) \in all_inputs
         /\ Has(Winner(k), k)
         /\ Merged[k] = disk[Winner(k).filepath][k]
<1>1. PICK f \in all_inputs : Has(f, k)
  BY Zenon DEF MergedKeys, Has
<1>2. k # EmptyKey
  BY Zenon DEF MergedKeys
<1>3. Merged[k] = disk[Winner(k).filepath][k]
  BY Zenon DEF Merged
<1> QED
  BY <1>1, <1>2, <1>3, WinnerIs, Zenon

\* An output file has the keys that the split gives it, with a range that covers
\* them and ends in keys of its own.
LEMMA OutputIs ==
  ASSUME ContentInv, JobInv, InputsReadable, NEW m \in Nat, NEW part \in Splits(m),
         NEW j \in 1 .. m, NEW size
  PROVE  LET meta == OutputMeta(part, j, size)
         IN  /\ meta.filepath = OutputPath(j) /\ meta.level = target_level
             /\ meta.sequence_number = next_file_number + j
             /\ PartKeys(part, j) \in SUBSET MergedKeys
             /\ meta.smallest_key \in PartKeys(part, j)
             /\ meta.largest_key \in PartKeys(part, j)
             /\ \A k \in PartKeys(part, j) :
                  meta.smallest_key <= k /\ k <= meta.largest_key
<1> DEFINE P == PartKeys(part, j)
<1>1. part \in Surjection(MergedKeys, 1 .. m)
  BY DEF Splits
<1>2. P \subseteq MergedKeys /\ P # {}
  BY <1>1 DEF Surjection, PartKeys
<1>3. P \in SUBSET Nat /\ IsFiniteSet(P)
  BY <1>2, MergedKeysFinite, FS_Subset
<1>4. Min(P) \in P /\ \A k \in P : Min(P) <= k
  <2> HIDE DEF P
  <2> QED
    BY <1>2, <1>3, MinIsMember, Zenon
<1>5. Max(P) \in P /\ \A k \in P : k <= Max(P)
  <2> HIDE DEF P
  <2> QED
    BY <1>2, <1>3, MaxIsMember, Zenon
<1>6. /\ OutputMeta(part, j, size).filepath = OutputPath(j)
      /\ OutputMeta(part, j, size).level = target_level
      /\ OutputMeta(part, j, size).sequence_number = next_file_number + j
      /\ OutputMeta(part, j, size).smallest_key = Min(P)
      /\ OutputMeta(part, j, size).largest_key = Max(P)
  BY Zenon DEF OutputMeta
<1> HIDE DEF P
<1> QED
  BY <1>2, <1>4, <1>5, <1>6, Zenon DEF P

\* What the merge writes: the outputs, and nothing over another file.
LEMMA OutputsWritten ==
  ASSUME JobInv, NEW part, NEW n \in Nat
  PROVE  /\ DOMAIN WithOutputs(part, n) = DOMAIN disk \cup {OutputPath(j) : j \in 1 .. n}
         /\ \A j \in 1 .. n :
              WithOutputs(part, n)[OutputPath(j)] = [k \in PartKeys(part, j) |-> Merged[k]]
         /\ \A p \in DOMAIN disk \ {OutputPath(j) : j \in 1 .. n} :
              WithOutputs(part, n)[p] = disk[p]
<1>1. \A j \in 1 .. n : OutputPath(j)[2] - next_file_number + 1 = j
  BY DEF OutputPath, JobInv
<1> HIDE DEF OutputPath, JobInv
<1> QED
  BY <1>1 DEF WithOutputs

\* An output is a table.
LEMMA OutputIsTable ==
  ASSUME ContentInv, InputsReadable, NEW part, NEW j
  PROVE  [k \in PartKeys(part, j) |-> Merged[k]] \in Table
<1>1. PartKeys(part, j) \subseteq MergedKeys
  BY DEF PartKeys
<1>2. IsFiniteSet(PartKeys(part, j))
  BY <1>1, MergedKeysFinite, FS_Subset, ZenonT(30)
<1>3. ASSUME NEW k \in MergedKeys PROVE k \in Key /\ Merged[k] \in Version
  <2>1. /\ Winner(k) \in all_inputs /\ k \in DOMAIN disk[Winner(k).filepath]
        /\ Merged[k] = disk[Winner(k).filepath][k]
    BY MergedIs, ZenonT(30) DEF Has
  <2>2. disk[Winner(k).filepath] \in Table
    BY <2>1, ZenonT(30) DEF ContentInv, InputsReadable, CanRead
  <2> QED
    BY <2>1, <2>2, TableIs, ZenonT(30)
<1> HIDE DEF Merged, MergedKeys
<1> QED
  BY <1>1, <1>2, <1>3 DEF Table

\* Splitting keeps the order, so that output files do not overlap.
LEMMA OutputsApart ==
  ASSUME ContentInv, JobInv, InputsReadable, NEW m \in Nat, NEW part \in Splits(m),
         NEW i \in 1 .. m, NEW j \in 1 .. m, i # j, NEW s, NEW t
  PROVE  Apart(OutputMeta(part, i, s), OutputMeta(part, j, t))
<1>1. /\ part \in [MergedKeys -> 1 .. m]
      /\ \A a, b \in MergedKeys : a < b => part[a] <= part[b]
  BY DEF Splits, Surjection
<1>2. MergedKeys \in SUBSET Nat
  BY MergedKeysFinite
<1>3. \A a \in PartKeys(part, i), b \in PartKeys(part, j) :
        a \in MergedKeys /\ b \in MergedKeys /\ part[a] = i /\ part[b] = j
  BY Zenon DEF PartKeys
<1>4. /\ OutputMeta(part, i, s).smallest_key \in PartKeys(part, i)
      /\ OutputMeta(part, i, s).largest_key \in PartKeys(part, i)
      /\ OutputMeta(part, j, t).smallest_key \in PartKeys(part, j)
      /\ OutputMeta(part, j, t).largest_key \in PartKeys(part, j)
  BY OutputIs, Zenon
<1>5. CASE i < j
  <2>1. \A a \in PartKeys(part, i), b \in PartKeys(part, j) : a < b
    <3> TAKE a \in PartKeys(part, i), b \in PartKeys(part, j)
    <3>1. a \in MergedKeys /\ b \in MergedKeys /\ part[a] = i /\ part[b] = j
      BY <1>3
    <3>2. a \in Nat /\ b \in Nat /\ a # b
      BY <1>2, <3>1, ZenonT(30)
    <3>3. ~ (b < a)
      BY <1>1, <1>5, <3>1
    <3> QED
      BY <3>2, <3>3
  <2> QED
    BY <1>2, <1>3, <1>4, <2>1, Zenon DEF Apart
<1>6. CASE j < i
  <2>1. \A a \in PartKeys(part, i), b \in PartKeys(part, j) : b < a
    <3> TAKE a \in PartKeys(part, i), b \in PartKeys(part, j)
    <3>1. a \in MergedKeys /\ b \in MergedKeys /\ part[a] = i /\ part[b] = j
      BY <1>3
    <3>2. a \in Nat /\ b \in Nat /\ a # b
      BY <1>2, <3>1
    <3>3. ~ (a < b)
      BY <1>1, <1>6, <3>1
    <3> QED
      BY <3>2, <3>3
  <2> QED
    BY <1>2, <1>3, <1>4, <2>1, ZenonT(30) DEF Apart
<1> QED
  BY <1>5, <1>6
----------------------------------------------------------------------------
(* Ranges and levels, step by step.                                        *)

\* No step rewrites a file that someone holds.
LEMMA DiskKept ==
  ASSUME CatalogueInv, [Next]_specVars, NEW f \in Held, f.filepath \in DOMAIN disk'
  PROVE  f.filepath \in DOMAIN disk /\ disk'[f.filepath] = disk[f.filepath]
<1> USE DEF CatalogueInv
<1>1. CASE UNCHANGED disk
  BY <1>1, ZenonT(30)
<1>2. ASSUME NEW table \in Table, FlushWrite(table)
      PROVE  f.filepath \in DOMAIN disk /\ disk'[f.filepath] = disk[f.filepath]
  <2>1. f.filepath # Level0Path(next_sst_sequence)
    BY DEF NamesInv, Named, Level0Path, JobInv, Held
  <2> QED
    BY <1>2, <2>1, ZenonT(30) DEF FlushWrite, WithTable
<1>3. CASE FlushWriteFails
  BY <1>3, ZenonT(30) DEF FlushWriteFails, Unreadable
<1>4. CASE UnlinkInput
  BY <1>4 DEF UnlinkInput, Unreadable
<1>5. ASSUME step = "merge", NEW part, NEW n \in Nat, f.filepath \in DOMAIN WithOutputs(part, n)
      PROVE  f.filepath \in DOMAIN disk /\ WithOutputs(part, n)[f.filepath] = disk[f.filepath]
  <2>1. \A j \in 1 .. n : f.filepath # OutputPath(j)
    <3>1. target_level # 0
      BY <1>5 DEF JobInv
    <3> QED
      BY <3>1, OutputPathIsNew DEF Held
  <2>2. f.filepath \notin {OutputPath(j) : j \in 1 .. n}
    BY <2>1, Zenon
  <2>3. f.filepath \in DOMAIN disk \cup {OutputPath(j) : j \in 1 .. n}
    BY <1>5, OutputsWritten, Zenon
  <2>4. f.filepath \in DOMAIN disk \ {OutputPath(j) : j \in 1 .. n}
    BY <2>2, <2>3, Zenon
  <2>5. \A p \in DOMAIN disk \ {OutputPath(j) : j \in 1 .. n} :
          WithOutputs(part, n)[p] = disk[p]
    BY OutputsWritten, Zenon
  <2>6. WithOutputs(part, n)[f.filepath] = disk[f.filepath]
    BY <2>4, <2>5, Zenon
  <2> QED
    BY <2>4, <2>6, Zenon
<1>6. CASE MergeFiles
  <2>1. PICK m \in 0 .. MaxOutputs : \E part \in Splits(m) : disk' = WithOutputs(part, m)
    BY <1>6, MergeWrites, Zenon
  <2>2. PICK part \in Splits(m) : disk' = WithOutputs(part, m)
    BY <2>1, Zenon
  <2>3. step = "merge" /\ m \in Nat
    BY <1>6 DEF MergeFiles
  <2> QED
    BY <1>5, <2>2, <2>3
<1>7. CASE MergeWriteFails
  <2>1. PICK m \in 1 .. MaxOutputs : \E part \in Splits(m), j \in 1 .. m :
          disk' = Unreadable(WithOutputs(part, j - 1), OutputPath(j))
    BY <1>7, MergeStopsAt, Zenon
  <2>2. PICK part \in Splits(m), j \in 1 .. m :
          disk' = Unreadable(WithOutputs(part, j - 1), OutputPath(j))
    BY <2>1, Zenon
  <2>3. step = "merge" /\ j - 1 \in Nat
    BY <1>7 DEF MergeWriteFails
  <2>4. /\ f.filepath \in DOMAIN WithOutputs(part, j - 1)
        /\ disk'[f.filepath] = WithOutputs(part, j - 1)[f.filepath]
    BY <2>2, Zenon DEF Unreadable
  <2> QED
    BY <1>5, <2>3, <2>4
<1>8. UNCHANGED disk \/ (\E table \in Table : FlushWrite(table)) \/ FlushWriteFails
      \/ UnlinkInput \/ MergeFiles \/ MergeWriteFails
  BY Zenon DEF Next, specVars, compactionVars, Compact, RunCompaction, SelectCompactionFiles,
         MergeReadFails, AddOutput, RemoveInput, FlushAdd
<1> QED
  BY <1>1, <1>2, <1>3, <1>4, <1>6, <1>7, <1>8, ZenonT(30)

\* How SelectCompactionFiles makes the inputs: entries of the source level and the
\* overlapping ones of the next, each once, the sources numbered above the others.
SelectedFrom(source, target) ==
  LET level == PickCompactionLevel
  IN  /\ source # {} /\ source \subseteq files /\ target \subseteq files
      /\ \A f \in source : f.level = level
      /\ level = 0 => \A f \in files : f.level = 0 => f \in source
      /\ target = Overlapping(source, level)
      /\ IsFiniteSet(source) /\ IsFiniteSet(target) /\ IsFiniteSet(all_inputs')
      /\ \A f \in source : \E g \in all_inputs' :
           SameFile(g, f) /\ g.sequence_number > Cardinality(target)
      /\ \A f \in target : \E g \in all_inputs' :
           SameFile(g, f) /\ g.sequence_number < Cardinality(target)
      /\ \A g \in all_inputs' :
           /\ g.sequence_number \in Nat
           /\ \/ \E f \in source : SameFile(g, f) /\ g.sequence_number > Cardinality(target)
              \/ \E f \in target : SameFile(g, f) /\ g.sequence_number < Cardinality(target)

\* The files picked to be merged are catalogued files of the picked level, at least
\* one, and all of them when the level is 0.
LEMMA SourcesAre ==
  ASSUME CatalogueInv, NeedsCompaction, NEW source \in SourceChoices(PickCompactionLevel)
  PROVE  /\ source # {} /\ source \subseteq files
         /\ \A f \in source : f.level = PickCompactionLevel
         /\ PickCompactionLevel = 0 => \A f \in files : f.level = 0 => f \in source
<1>1. CASE PickCompactionLevel = 0
  <2>1. source = GetFilesAtLevel(0)
    BY <1>1, Zenon DEF SourceChoices
  <2>2. source # {}
    <3> SUFFICES ASSUME GetFilesAtLevel(0) = {} PROVE FALSE
      BY <2>1, Zenon
    <3> DEFINE tooBig == {level \in 1 .. max_level - 2 :
                            TotalBytesAtLevel(level) > MaxBytesForLevel(level)}
    <3>1. ~ (Cardinality(GetFilesAtLevel(0)) >= kLevel0CompactionTrigger)
      BY FS_EmptySet, CompactionConstants
    <3>2. tooBig # {} => Min(tooBig) # 0
      <4>1. tooBig \in SUBSET Nat /\ 0 \notin tooBig
        BY CompactionConstants
      <4> HIDE DEF tooBig
      <4> QED
        BY <4>1, MinIsMember, Zenon
    <3> HIDE DEF NeedsCompaction, GetFilesAtLevel
    <3> QED
      BY <1>1, <3>1, <3>2 DEF PickCompactionLevel
  <2> QED
    BY <1>1, <2>1, <2>2, Zenon DEF GetFilesAtLevel
<1>2. CASE PickCompactionLevel # 0
  BY <1>2, Zenon DEF SourceChoices, GetFilesAtLevel
<1> QED
  BY <1>1, <1>2, Zenon

\* SelectCompactionFiles leaves the job with the inputs SelectedFrom describes.
LEMMA Selected ==
  ASSUME CatalogueInv, SelectCompactionFiles
  PROVE  \E source, target : SelectedFrom(source, target)
<1> USE DEF CatalogueInv
<1>1. NeedsCompaction
  BY Zenon DEF SelectCompactionFiles
<1>2. PICK source \in SourceChoices(PickCompactionLevel) :
        \E rankS \in SortOrders(source),
           rankT \in SortOrders(Overlapping(source, PickCompactionLevel)) :
          all_inputs' = Numbered(source, Overlapping(source, PickCompactionLevel), rankS, rankT)
  BY DEF SelectCompactionFiles
<1> DEFINE target == Overlapping(source, PickCompactionLevel)
<1>3. /\ source # {} /\ source \subseteq files
      /\ \A f \in source : f.level = PickCompactionLevel
      /\ PickCompactionLevel = 0 => \A f \in files : f.level = 0 => f \in source
  BY <1>1, SourcesAre, Zenon
<1>4. target \subseteq files
  BY Zenon DEF Overlapping, GetFilesAtLevel
<1> HIDE DEF target
<1>5. PICK rankS \in SortOrders(source), rankT \in SortOrders(target) :
        all_inputs' = Numbered(source, target, rankS, rankT)
  BY <1>2, Zenon DEF target
<1> DEFINE s == Cardinality(source)
           t == Cardinality(target)
           top(f) == [f EXCEPT !.sequence_number = (s + t) - (rankS[f] - 1)]
           low(f) == [f EXCEPT !.sequence_number = rankT[f] - 1]
<1>6. IsFiniteSet(source) /\ IsFiniteSet(target) /\ s \in Nat /\ t \in Nat
  BY <1>3, <1>4, FS_Subset, FS_CardinalityType, Zenon DEF JobInv
<1> HIDE DEF s, t
<1>7. /\ \A f \in source : rankS[f] \in 1 .. s
      /\ \A f \in target : rankT[f] \in 1 .. t
  BY DEF SortOrders, Bijection, Injection, s, t
<1>8. ASSUME NEW f \in source
      PROVE  /\ SameFile(top(f), f)
             /\ top(f).sequence_number \in Nat /\ top(f).sequence_number > t
  <2>1. (s + t) - (rankS[f] - 1) \in Nat /\ (s + t) - (rankS[f] - 1) > t
    BY <1>6, <1>7
  <2>2. Named(f, next_sst_sequence, next_file_number)
    BY <1>3 DEF NamesInv
  <2> QED
    BY <2>1, <2>2, RenumberedIsNamed DEF JobInv
<1>9. ASSUME NEW f \in target
      PROVE  /\ SameFile(low(f), f)
             /\ low(f).sequence_number \in Nat /\ low(f).sequence_number < t
  <2>1. rankT[f] - 1 \in Nat /\ rankT[f] - 1 < t
    BY <1>6, <1>7
  <2>2. Named(f, next_sst_sequence, next_file_number)
    BY <1>4 DEF NamesInv
  <2> QED
    BY <2>1, <2>2, RenumberedIsNamed DEF JobInv
<1> DEFINE A == {top(f) : f \in source}
           B == {low(f) : f \in target}
<1>10. all_inputs' = A \cup B
  BY <1>5, Zenon DEF Numbered, s, t
<1> HIDE DEF top, low
<1>11. IsFiniteSet(all_inputs')
  <2>1. [f \in source |-> top(f)] \in Surjection(source, A)
    BY DEF Surjection
  <2>2. [f \in target |-> low(f)] \in Surjection(target, B)
    BY Zenon DEF Surjection
  <2>3. IsFiniteSet(A) /\ IsFiniteSet(B)
    BY <1>6, <2>1, <2>2, FS_Surjection, Zenon
  <2> HIDE DEF A, B
  <2> QED
    BY <1>10, <2>3, FS_Union, Zenon
<1>12. /\ \A f \in source : \E g \in all_inputs' : SameFile(g, f) /\ g.sequence_number > t
       /\ \A f \in target : \E g \in all_inputs' : SameFile(g, f) /\ g.sequence_number < t
  BY <1>8, <1>9, <1>10, Zenon
<1>13. \A g \in all_inputs' :
         /\ g.sequence_number \in Nat
         /\ \/ \E f \in source : SameFile(g, f) /\ g.sequence_number > t
            \/ \E f \in target : SameFile(g, f) /\ g.sequence_number < t
  BY <1>8, <1>9, <1>10, Zenon
<1>14. SelectedFrom(source, target)
  BY <1>3, <1>4, <1>6, <1>11, <1>12, <1>13, Zenon DEF SelectedFrom, target, t
<1> QED
  BY <1>14, ZenonT(30)

\* Every step leaves tables on disk.
LEMMA TablesKept ==
  ASSUME CatalogueInv, ContentInv, [Next]_specVars, NEW p \in DOMAIN disk'
  PROVE  disk'[p] \in Table
<1> USE DEF CatalogueInv
<1>1. \A q \in DOMAIN disk : disk[q] \in Table
  BY Zenon DEF ContentInv
<1>2. ASSUME InputsReadable, NEW part, NEW n \in Nat, p \in DOMAIN WithOutputs(part, n)
      PROVE  WithOutputs(part, n)[p] \in Table
  <2>1. CASE p \in {OutputPath(j) : j \in 1 .. n}
    <3>1. PICK j \in 1 .. n : p = OutputPath(j)
      BY <2>1, Zenon
    <3>2. WithOutputs(part, n)[p] = [k \in PartKeys(part, j) |-> Merged[k]]
      BY <3>1, OutputsWritten, Zenon
    <3>3. [k \in PartKeys(part, j) |-> Merged[k]] \in Table
      BY <1>2, OutputIsTable, Zenon
    <3> QED
      BY <3>2, <3>3, Zenon
  <2>2. CASE p \notin {OutputPath(j) : j \in 1 .. n}
    <3>1. p \in DOMAIN disk \cup {OutputPath(j) : j \in 1 .. n}
      BY <1>2, OutputsWritten, Zenon
    <3>2. p \in DOMAIN disk \ {OutputPath(j) : j \in 1 .. n}
      BY <2>2, <3>1, Zenon
    <3>3. \A q \in DOMAIN disk \ {OutputPath(j) : j \in 1 .. n} :
            WithOutputs(part, n)[q] = disk[q]
      BY OutputsWritten, Zenon
    <3>4. WithOutputs(part, n)[p] = disk[p]
      BY <3>2, <3>3, Zenon
    <3> QED
      BY <1>1, <3>2, <3>4, Zenon
  <2> QED
    BY <2>1, <2>2, Zenon
<1>3. CASE UNCHANGED disk
  BY <1>1, <1>3
<1>4. ASSUME NEW table \in Table, FlushWrite(table) PROVE disk'[p] \in Table
  BY <1>1, <1>4 DEF FlushWrite, WithTable
<1>5. CASE FlushWriteFails
  BY <1>1, <1>5, Zenon DEF FlushWriteFails, Unreadable
<1>6. CASE UnlinkInput
  BY <1>1, <1>6, Zenon DEF UnlinkInput, Unreadable
<1>7. CASE MergeFiles
  <2>1. PICK m \in 0 .. MaxOutputs : \E part \in Splits(m) : disk' = WithOutputs(part, m)
    BY <1>7, MergeWrites, Zenon
  <2>2. PICK part \in Splits(m) : disk' = WithOutputs(part, m)
    BY <2>1, Zenon
  <2>3. InputsReadable /\ m \in Nat
    BY <1>7 DEF MergeFiles
  <2> QED
    BY <1>2, <2>2, <2>3, Zenon
<1>8. CASE MergeWriteFails
  <2>1. PICK m \in 1 .. MaxOutputs : \E part \in Splits(m), j \in 1 .. m :
          disk' = Unreadable(WithOutputs(part, j - 1), OutputPath(j))
    BY <1>8, MergeStopsAt, Zenon
  <2>2. PICK part \in Splits(m), j \in 1 .. m :
          disk' = Unreadable(WithOutputs(part, j - 1), OutputPath(j))
    BY <2>1, Zenon
  <2>3. InputsReadable /\ j - 1 \in Nat
    BY <1>8 DEF MergeWriteFails
  <2>4. p \in DOMAIN WithOutputs(part, j - 1) /\ disk'[p] = WithOutputs(part, j - 1)[p]
    BY <2>2, Zenon DEF Unreadable
  <2> QED
    BY <1>2, <2>3, <2>4, Zenon
<1>9. UNCHANGED disk \/ (\E table \in Table : FlushWrite(table)) \/ FlushWriteFails
      \/ UnlinkInput \/ MergeFiles \/ MergeWriteFails
  BY Zenon DEF Next, specVars, compactionVars, Compact, RunCompaction, SelectCompactionFiles,
         MergeReadFails, AddOutput, RemoveInput, FlushAdd
<1> QED
  BY <1>3, <1>4, <1>5, <1>6, <1>7, <1>8, <1>9, Zenon

\* A held file's range goes on to cover its keys.
LEMMA RangeStays ==
  ASSUME CatalogueInv, RangeInv, [Next]_specVars, unranged = 0,
         NEW f \in Held, f.filepath \in DOMAIN disk'
  PROVE  Covers(f)'
<1>1. f.filepath \in DOMAIN disk /\ disk'[f.filepath] = disk[f.filepath]
  BY DiskKept, Zenon
<1>2. Covers(f)
  BY <1>1, Zenon DEF RangeInv
<1> QED
  BY <1>1, <1>2, Zenon DEF Covers

\* What the range of an entry covers does not depend on its number.
LEMMA SameRange ==
  ASSUME NEW f, NEW g, SameFile(f, g), Covers(g)'
  PROVE  Covers(f)'
  BY Zenon DEF SameFile, Covers

\* The count of unread ranges only grows.
LEMMA RangedBefore ==
  ASSUME unranged \in Nat, [Next]_specVars
  PROVE  unranged' \in Nat /\ (unranged' = 0 => unranged = 0)
  BY DEF Next, specVars, Compact, FlushWrite, FlushWriteFails, FlushAdd

\* LevelsInv holds at the start ...
LEMMA LevelsInvInit == Init => LevelsInv
  BY FS_EmptySet, CompactionConstants
     DEF Init, CompactionInit, LevelsInv, ContentInv, RangeInv, SeparatedInv, DisjointInv,
         DeepDisjoint, Live, Kept, Held, Paths

\* A file enters the catalogue, from a flush or from the merge.
LEMMA AddKeepsLevels ==
  ASSUME CatalogueInv, LevelsInv, [Next]_specVars, NEW meta, AddFile(meta),
         UNCHANGED <<disk, next_file_number, target_level, all_inputs, next_sst_sequence,
                     unranged>>,
         \/ /\ meta \in pending /\ pending' = pending \ {meta}
            /\ UNCHANGED <<new_files, step>>
         \/ /\ meta \in new_files /\ new_files' = new_files \ {meta}
            /\ UNCHANGED pending
            /\ step = "add" /\ step' = IF new_files' = {} THEN "remove" ELSE "add"
  PROVE  LevelsInv'
<1> USE DEF CatalogueInv
<1>1. PICK added : files' = files \cup {added} /\ SameFile(added, meta)
  BY AddedIs, Zenon DEF NamesInv, JobInv
<1>2. SameFile(added, meta)
  BY <1>1, Zenon
<1>3. ContentInv'
  <2>1. \A f \in Held' : f.level < max_level
    BY <1>1, <1>2, Zenon DEF LevelsInv, ContentInv, Held, SameFile
  <2> QED
    BY <1>1, <2>1, Zenon DEF LevelsInv, ContentInv
<1>4. RangeInv'
  <2> SUFFICES ASSUME unranged = 0, NEW f \in Held', f.filepath \in DOMAIN disk'
               PROVE  Covers(f)'
    BY Zenon DEF RangeInv, LevelsInv
  <2>1. CASE f \in Held
    BY <2>1, RangeStays, ZenonT(30) DEF LevelsInv
  <2>2. CASE f = added
    <3>1. meta \in Held /\ meta.filepath \in DOMAIN disk'
      BY <1>2, <2>2, ZenonT(30) DEF Held, SameFile
    <3> QED
      BY <1>2, <2>2, <3>1, RangeStays, SameRange, ZenonT(30) DEF LevelsInv
  <2> QED
    BY <1>1, <2>1, <2>2, Zenon DEF Held
<1>5. CASE meta \in pending /\ UNCHANGED <<new_files, step>>
  <2>1. added.level = 0 /\ (step # "idle" => target_level # 0)
    BY <1>2, <1>5, ZenonT(30) DEF NamesInv, SameFile, JobInv
  <2>2. Kept' \subseteq Kept \cup {added} /\ Live' \subseteq Live \cup {added}
    BY <1>1, <1>5, ZenonT(30) DEF Kept, Live, Paths
  <2>3. SeparatedInv'
    BY <1>5, <2>1, <2>2, Zenon DEF LevelsInv, SeparatedInv
  <2>4. DisjointInv'
    BY <2>1, <2>2 DEF LevelsInv, DisjointInv, DeepDisjoint
  <2> QED
    BY <1>3, <1>4, <2>3, <2>4, ZenonT(30) DEF LevelsInv
<1>6. CASE /\ meta \in new_files /\ new_files' = new_files \ {meta}
           /\ step = "add" /\ step' \in {"add", "remove"}
  <2>1. Live' \subseteq (Live \ {meta}) \cup {added} /\ meta \in Live
    <3>1. meta \notin files
      BY <1>6 DEF FilesInv, Paths
    <3> QED
      BY <1>1, <1>6, <3>1, Zenon DEF Kept, Live, Paths
  <2>2. DisjointInv'
    <3> SUFFICES ASSUME unranged = 0, NEW f \in Live', NEW g \in Live',
                        f.level = g.level, f.level > 0, f # g
                 PROVE  Apart(f, g)
      BY Zenon DEF DisjointInv, DeepDisjoint
    <3>1. \A h \in Live : (h.level = meta.level /\ h.level > 0 /\ h # meta) =>
            Apart(h, added) /\ Apart(added, h)
      BY <1>2, <2>1, Zenon DEF LevelsInv, DisjointInv, DeepDisjoint, Apart, SameFile
    <3>2. added.level = meta.level
      BY <1>2, ZenonT(30) DEF SameFile
    <3> QED
      BY <2>1, <3>1, <3>2, Zenon DEF LevelsInv, DisjointInv, DeepDisjoint
  <2> QED
    BY <1>3, <1>4, <1>6, <2>2, ZenonT(30) DEF LevelsInv, SeparatedInv
<1> QED
  BY <1>5, <1>6, ZenonT(30)

\* A flush adds a file of level 0 to the ones that wait.
LEMMA FlushKeepsLevels ==
  ASSUME CatalogueInv, LevelsInv, [Next]_specVars,
         (\E table \in Table : FlushWrite(table)) \/ FlushWriteFails
  PROVE  LevelsInv'
<1> USE DEF CatalogueInv
<1>1. UNCHANGED <<files, next_file_number, step, target_level, all_inputs, new_files>>
  BY Zenon DEF FlushWrite, FlushWriteFails, jobVars
<1>2. Kept' = Kept /\ Live' = Live
  BY <1>1, Zenon DEF Kept, Live, Paths
<1>3. unranged' \in Nat /\ (unranged' = 0 => unranged = 0)
  BY RangedBefore, Zenon DEF LevelsInv
<1>4. SeparatedInv' /\ DisjointInv'
  BY <1>1, <1>2, <1>3, Zenon DEF LevelsInv, SeparatedInv, DisjointInv
<1>5. ASSUME NEW f \in pending' \ pending
      PROVE  f.level = 0 /\ (unranged' = 0 => Covers(f)')
  <2>1. PICK table \in Table : FlushWrite(table)
    BY <1>5, Zenon DEF FlushWriteFails
  <2> DEFINE path == Level0Path(next_sst_sequence)
  <2>2. PICK lo, hi : f = Level0Meta(next_sst_sequence, table, lo, hi)
    BY <1>5, <2>1, Zenon DEF FlushWrite
  <2>3. /\ f.level = 0 /\ f.filepath = path
        /\ f.smallest_key = lo /\ f.largest_key = hi
    BY <2>2, Zenon DEF Level0Meta
  <2>4. disk'[path] = table
    BY <2>1, Zenon DEF FlushWrite, WithTable
  <2>5. ASSUME unranged' = 0 PROVE Covers(f)'
    <3> DEFINE ranged == Level0Meta(next_sst_sequence, table, Min(DOMAIN table), Max(DOMAIN table))
    <3>1. f = ranged
      <4>1. unranged' # unranged + 1
        BY <1>3, <2>5
      <4> QED
        BY <1>5, <2>1, <4>1, Zenon DEF FlushWrite
    <3>2. f.smallest_key = Min(DOMAIN table) /\ f.largest_key = Max(DOMAIN table)
      BY <3>1, Zenon DEF Level0Meta
    <3>3. DOMAIN table \in SUBSET Nat /\ IsFiniteSet(DOMAIN table) /\ DOMAIN table # {}
      BY <2>1, TableIs, Zenon DEF FlushWrite
    <3>4. /\ Min(DOMAIN table) \in DOMAIN table /\ \A k \in DOMAIN table : Min(DOMAIN table) <= k
          /\ Max(DOMAIN table) \in DOMAIN table /\ \A k \in DOMAIN table : k <= Max(DOMAIN table)
      BY <3>3, MinIsMember, MaxIsMember, Zenon
    <3> QED
      BY <2>3, <2>4, <3>2, <3>3, <3>4, Zenon DEF Covers
  <2> QED
    BY <2>3, <2>5, Zenon
<1>6. Held' \subseteq Held \cup (pending' \ pending)
  BY <1>1, Zenon DEF Held
<1>7. RangeInv'
  BY <1>3, <1>5, <1>6, RangeStays, Zenon DEF LevelsInv, RangeInv
<1>8. ContentInv'
  <2>1. \A p \in DOMAIN disk' : disk'[p] \in Table
    BY TablesKept, Zenon DEF LevelsInv
  <2>2. \A f \in Held' : f.level < max_level
    BY <1>5, <1>6, CompactionConstants DEF LevelsInv, ContentInv
  <2> QED
    BY <1>1, <2>1, <2>2, Zenon DEF LevelsInv, ContentInv
<1> QED
  BY <1>3, <1>4, <1>7, <1>8, ZenonT(30) DEF LevelsInv

\* The inputs chosen stand apart from what is left of the target level.
LEMMA SelectKeepsLevels ==
  ASSUME CatalogueInv, LevelsInv, [Next]_specVars, SelectCompactionFiles,
         UNCHANGED <<next_sst_sequence, pending, unranged>>
  PROVE  LevelsInv'
<1> USE DEF CatalogueInv
<1>1. /\ step = "idle" /\ step' = "merge" /\ NeedsCompaction
      /\ target_level' = PickCompactionLevel + 1
      /\ UNCHANGED <<files, disk, next_file_number, new_files>>
  BY DEF SelectCompactionFiles
<1>2. PICK source, target : SelectedFrom(source, target)
  BY Selected, ZenonT(30)
<1>3. PickCompactionLevel \in Nat /\ target_level' < max_level
  BY <1>1, LevelPicked, ZenonT(30)
<1>4. \A g \in all_inputs' : \E f \in source \cup target : SameFile(g, f)
  BY <1>2, ZenonT(30) DEF SelectedFrom
<1>5. source \cup target \subseteq files
  BY <1>2, ZenonT(30) DEF SelectedFrom
<1>6. ContentInv'
  <2>1. \A f \in Held' : f.level < max_level
    BY <1>1, <1>4, <1>5, Zenon DEF LevelsInv, ContentInv, Held, SameFile
  <2>2. IsFiniteSet(all_inputs') /\ \A f \in all_inputs' : f.sequence_number \in Nat
    BY <1>2, ZenonT(30) DEF SelectedFrom
  <2> QED
    BY <1>1, <1>3, <1>4, <1>5, <2>1, <2>2, ZenonT(30) DEF LevelsInv, ContentInv
<1>7. RangeInv'
  <2> SUFFICES ASSUME unranged = 0, NEW f \in Held', f.filepath \in DOMAIN disk'
               PROVE  Covers(f)'
    BY ZenonT(30) DEF RangeInv, LevelsInv
  <2>1. CASE f \in Held
    BY <2>1, RangeStays, ZenonT(30) DEF LevelsInv
  <2>2. CASE f \in all_inputs'
    <3>1. PICK g \in files : SameFile(f, g)
      BY <1>4, <1>5, <2>2, ZenonT(30)
    <3>2. g \in Held /\ g.filepath \in DOMAIN disk'
      BY <3>1, ZenonT(30) DEF Held, SameFile
    <3> QED
      BY <3>1, <3>2, RangeStays, SameRange, ZenonT(30) DEF LevelsInv
  <2> QED
    BY <1>1, <2>1, <2>2, ZenonT(30) DEF Held
<1>8. DisjointInv'
  BY <1>1, Zenon DEF LevelsInv, DisjointInv, Live
<1>9. SeparatedInv'
  <2> SUFFICES ASSUME unranged = 0, NEW g \in Kept', g.level = target_level'
               PROVE  \/ \A f \in all_inputs' : g.largest_key < f.smallest_key
                      \/ \A f \in all_inputs' : f.largest_key < g.smallest_key
    BY Zenon DEF SeparatedInv
  <2> DEFINE lo == Min({f.smallest_key : f \in source})
             hi == Max({f.largest_key : f \in source})
  <2>1. \A f \in files : Covers(f)
    BY DEF LevelsInv, RangeInv, Held, FilesInv, Paths
  <2>2. /\ lo \in Nat /\ hi \in Nat
        /\ \A f \in source : lo <= f.smallest_key /\ f.largest_key <= hi
    <3>1. /\ source # {} /\ IsFiniteSet(source)
          /\ \A f \in source : f.smallest_key \in Nat /\ f.largest_key \in Nat
      BY <1>2, <1>5, <2>1, Zenon DEF SelectedFrom, Covers
    <3> QED
      BY <3>1, RangeOfFiles, Zenon
  <2>3. target = {f \in files : f.level = target_level' /\ OverlapsWith(f, lo, hi)}
    <3>1. target = Overlapping(source, PickCompactionLevel)
      BY <1>2, Zenon DEF SelectedFrom
    <3> QED
      BY <1>1, <3>1, Zenon DEF Overlapping, GetFilesAtLevel
  <2> HIDE DEF lo, hi
  <2>4. g \in files /\ g \notin target
    <3>1. g \in files /\ g.filepath \notin Paths(all_inputs')
      BY <1>1, Zenon DEF Kept, Paths
    <3>2. \A f \in target : f.filepath \in Paths(all_inputs')
      BY <1>2, ZenonT(30) DEF SelectedFrom, Paths, SameFile
    <3> QED
      BY <3>1, <3>2, Zenon
  <2>5. ~ OverlapsWith(g, lo, hi)
    BY <2>3, <2>4, ZenonT(30)
  <2>6. /\ g.smallest_key \in Nat /\ g.largest_key \in Nat /\ g.smallest_key <= g.largest_key
        /\ \A f \in source \cup target : /\ f.smallest_key \in Nat /\ f.largest_key \in Nat
                                         /\ f.smallest_key <= f.largest_key
    BY <1>5, <2>1, <2>4, Zenon DEF Covers
  <2>7. \A f \in target : Apart(f, g)
    <3>1. DeepDisjoint(files)
      BY <1>1, ZenonT(30) DEF LevelsInv, DisjointInv, Live
    <3>2. g.level > 0
      BY <1>1, <1>3
    <3> QED
      BY <1>5, <2>3, <2>4, <3>1, <3>2, ZenonT(30) DEF DeepDisjoint
  <2>8. CASE g.largest_key < lo
    <3>1. \A f \in source : g.largest_key < f.smallest_key
      BY <2>2, <2>6, <2>8
    <3>2. \A f \in target : g.largest_key < f.smallest_key
      <4> TAKE f \in target
      <4>1. ~ (f.largest_key < lo) /\ Apart(f, g)
        BY <2>3, <2>7, Zenon DEF OverlapsWith
      <4> QED
        BY <2>2, <2>6, <2>8, <4>1 DEF Apart
    <3> QED
      BY <1>4, <3>1, <3>2, Zenon DEF SameFile
  <2>9. CASE g.smallest_key > hi
    <3>1. \A f \in source : f.largest_key < g.smallest_key
      BY <2>2, <2>6, <2>9
    <3>2. \A f \in target : f.largest_key < g.smallest_key
      <4> TAKE f \in target
      <4>1. ~ (f.smallest_key > hi) /\ Apart(f, g)
        BY <2>3, <2>7, Zenon DEF OverlapsWith
      <4> QED
        BY <2>2, <2>6, <2>9, <4>1 DEF Apart
    <3> QED
      BY <1>4, <3>1, <3>2, Zenon DEF SameFile
  <2> QED
    BY <2>5, <2>8, <2>9, Zenon DEF OverlapsWith
<1> QED
  BY <1>6, <1>7, <1>8, <1>9, ZenonT(30) DEF LevelsInv

\* Every key of an output lies within the range of an input.
LEMMA MergedWithinInputs ==
  ASSUME CatalogueInv, LevelsInv, InputsReadable, unranged = 0, NEW k \in MergedKeys
  PROVE  \E f \in all_inputs : /\ f.smallest_key \in Nat /\ f.largest_key \in Nat
                               /\ f.smallest_key <= k /\ k <= f.largest_key
<1>1. Winner(k) \in all_inputs /\ Has(Winner(k), k)
  BY MergedIs, Zenon DEF LevelsInv
<1>2. Covers(Winner(k))
  BY <1>1, Zenon DEF LevelsInv, RangeInv, Held, InputsReadable, CanRead
<1> HIDE DEF Winner
<1> QED
  BY <1>1, <1>2, Zenon DEF Covers, Has

\* The outputs take the place of the inputs in the target level.
LEMMA MergeKeepsLevels ==
  ASSUME CatalogueInv, LevelsInv, [Next]_specVars, MergeFiles,
         UNCHANGED <<next_sst_sequence, pending, unranged>>
  PROVE  LevelsInv'
<1> USE DEF CatalogueInv
<1>1. /\ step = "merge" /\ UNCHANGED <<files, target_level, all_inputs>> /\ InputsReadable
      /\ step' \in {"remove", "add"} /\ new_files = {}
  BY Zenon DEF MergeFiles, JobInv
<1>2. PICK m \in 0 .. MaxOutputs : \E part \in Splits(m) : \E size :
        /\ disk' = WithOutputs(part, m)
        /\ new_files' = {OutputMeta(part, j, size[j]) : j \in 1 .. m}
  BY MergeWrites, Zenon
<1>3. PICK part, size :
        /\ part \in Splits(m) /\ disk' = WithOutputs(part, m)
        /\ new_files' = {OutputMeta(part, j, size[j]) : j \in 1 .. m}
  BY <1>2
<1>4. m \in Nat /\ JobInv /\ ContentInv
  BY DEF LevelsInv
<1>5. ASSUME NEW f \in new_files'
      PROVE  /\ f.level = target_level
             /\ f.smallest_key \in MergedKeys /\ f.largest_key \in MergedKeys
             /\ Covers(f)'
  <2>1. PICK j \in 1 .. m : f = OutputMeta(part, j, size[j])
    BY <1>3
  <2>2. /\ f.filepath = OutputPath(j) /\ f.level = target_level
        /\ PartKeys(part, j) \in SUBSET MergedKeys
        /\ f.smallest_key \in PartKeys(part, j) /\ f.largest_key \in PartKeys(part, j)
        /\ \A k \in PartKeys(part, j) : f.smallest_key <= k /\ k <= f.largest_key
    BY <1>1, <1>3, <1>4, <2>1, OutputIs, Zenon
  <2>3. disk'[OutputPath(j)] = [k \in PartKeys(part, j) |-> Merged[k]]
    BY <1>3, <1>4, OutputsWritten, Zenon
  <2>4. MergedKeys \in SUBSET Nat
    BY <1>1, <1>4, MergedKeysFinite, Zenon
  <2>5. DOMAIN disk'[f.filepath] = PartKeys(part, j)
    BY <2>2, <2>3, Zenon
  <2> QED
    BY <2>2, <2>4, <2>5, Zenon DEF Covers
<1>6. ContentInv'
  <2>1. \A p \in DOMAIN disk' : disk'[p] \in Table
    BY TablesKept, Zenon DEF LevelsInv
  <2>2. \A f \in Held' : f.level < max_level
    BY <1>1, <1>5, Zenon DEF LevelsInv, ContentInv, Held
  <2> QED
    BY <1>1, <2>1, <2>2, Zenon DEF LevelsInv, ContentInv
<1>7. RangeInv'
  <2>1. Held' \subseteq Held \cup new_files'
    BY <1>1, Zenon DEF Held
  <2> QED
    BY <1>5, <2>1, RangeStays, Zenon DEF LevelsInv, RangeInv
<1>8. DisjointInv'
  <2> SUFFICES ASSUME unranged = 0, NEW f \in Live', NEW g \in Live',
                      f.level = g.level, f.level > 0, f # g
               PROVE  Apart(f, g)
    BY Zenon DEF DisjointInv, DeepDisjoint
  <2>1. Live' = Kept \cup new_files' /\ Kept \subseteq files
    BY <1>1, Zenon DEF Live, Kept, Paths
  <2>2. CASE f \in Kept /\ g \in Kept
    BY <1>1, <2>1, <2>2, Zenon DEF LevelsInv, DisjointInv, Live, DeepDisjoint
  <2>3. CASE f \in new_files' /\ g \in new_files'
    <3>1. PICK i \in 1 .. m, j \in 1 .. m :
            f = OutputMeta(part, i, size[i]) /\ g = OutputMeta(part, j, size[j])
      BY <1>3, <2>3, Zenon
    <3> QED
      BY <1>1, <1>3, <1>4, <3>1, OutputsApart, Zenon
  <2>4. ASSUME NEW a \in Kept, NEW b \in new_files', a.level = b.level
        PROVE  Apart(a, b) /\ Apart(b, a)
    <3>1. PICK lo \in all_inputs : /\ lo.smallest_key \in Nat /\ lo.largest_key \in Nat
                                   /\ lo.smallest_key <= b.smallest_key
      BY <1>1, <1>5, MergedWithinInputs, Zenon
    <3>2. PICK hi \in all_inputs : /\ hi.smallest_key \in Nat /\ hi.largest_key \in Nat
                                   /\ b.largest_key <= hi.largest_key
      BY <1>1, <1>5, MergedWithinInputs, Zenon
    <3>3. \/ a.largest_key < lo.smallest_key
          \/ hi.largest_key < a.smallest_key
      BY <1>1, <1>5, <2>4, Zenon DEF LevelsInv, SeparatedInv
    <3>4. /\ a.smallest_key \in Nat /\ a.largest_key \in Nat
          /\ b.smallest_key \in Nat /\ b.largest_key \in Nat
      <4>1. Covers(a)
        BY <2>1, <2>4, Zenon DEF LevelsInv, RangeInv, Held, FilesInv, Paths
      <4> QED
        BY <1>5, <4>1, Zenon DEF Covers
    <3> QED
      BY <3>1, <3>2, <3>3, <3>4 DEF Apart
  <2> QED
    BY <2>1, <2>2, <2>3, <2>4, Zenon
<1> QED
  BY <1>1, <1>6, <1>7, <1>8, Zenon DEF LevelsInv, SeparatedInv

\* The other steps of the job leave what counts as it was.
LEMMA JobKeepsLevels ==
  ASSUME CatalogueInv, LevelsInv, [Next]_specVars,
         MergeReadFails \/ MergeWriteFails \/ RemoveInput \/ UnlinkInput,
         UNCHANGED <<next_sst_sequence, pending, unranged>>
  PROVE  LevelsInv'
<1> USE DEF CatalogueInv
<1>1. /\ UNCHANGED <<target_level, new_files>> /\ step' # "merge"
      /\ files' \subseteq files /\ all_inputs' \subseteq all_inputs
  BY Zenon DEF MergeReadFails, MergeWriteFails, JobGivenUp, RemoveInput, RemoveFile, UnlinkInput
<1>2. Held' \subseteq Held
  BY <1>1, Zenon DEF Held
<1>3. ContentInv'
  <2>1. \A p \in DOMAIN disk' : disk'[p] \in Table
    BY TablesKept, Zenon DEF LevelsInv
  <2>2. IsFiniteSet(all_inputs')
    BY <1>1, FS_Subset, Zenon DEF LevelsInv, ContentInv
  <2> QED
    BY <1>1, <1>2, <2>1, <2>2, ZenonT(30) DEF LevelsInv, ContentInv
<1>4. RangeInv'
  BY <1>2, RangeStays, Zenon DEF LevelsInv, RangeInv
<1>5. Live' \subseteq Live
  <2>1. CASE MergeReadFails \/ MergeWriteFails
    BY <2>1, Zenon DEF MergeReadFails, MergeWriteFails, JobGivenUp, Live
  <2>2. CASE RemoveInput
    <3>1. Kept' \subseteq Kept
      BY <2>2, Zenon DEF RemoveInput, RemoveFile, Kept, Paths
    <3> QED
      BY <2>2, <3>1, Zenon DEF RemoveInput, Live
  <2>3. CASE UnlinkInput
    <3>1. PICK f \in all_inputs : FirstInput(f) /\ all_inputs' = all_inputs \ {f}
      BY <2>3, Zenon DEF UnlinkInput
    <3>2. /\ step = "unlink" /\ UNCHANGED <<files, new_files>>
          /\ step' = IF all_inputs' = {} THEN "idle" ELSE "remove"
      BY <2>3, Zenon DEF UnlinkInput
    <3>3. f.filepath \notin Paths(files)
      BY <3>1, <3>2, Zenon DEF UnlinkInv
    <3>4. Kept' = Kept
      BY <3>1, <3>2, <3>3 DEF Kept, Paths
    <3>5. all_inputs' = {} => files' = Kept'
      BY ZenonT(30) DEF Kept, Paths
    <3> QED
      BY <3>2, <3>4, <3>5, Zenon DEF Live
  <2> QED
    BY <2>1, <2>2, <2>3, Zenon
<1>6. DisjointInv'
  BY <1>5, ZenonT(30) DEF LevelsInv, DisjointInv, DeepDisjoint
<1> QED
  BY <1>1, <1>3, <1>4, <1>6, Zenon DEF LevelsInv, SeparatedInv

\* ... and every step keeps it.
LEMMA LevelsInvNext == CatalogueInv /\ LevelsInv /\ [Next]_specVars => LevelsInv'
<1> SUFFICES ASSUME CatalogueInv, LevelsInv, [Next]_specVars PROVE LevelsInv'
  BY ZenonT(30)
<1>1. CASE UNCHANGED specVars
  BY <1>1, ZenonT(30)
     DEF specVars, compactionVars, jobVars, LevelsInv, ContentInv, RangeInv, Covers,
              SeparatedInv, DisjointInv, DeepDisjoint, Live, Kept, Held, Paths
<1>2. CASE Compact
  <2>1. UNCHANGED <<next_sst_sequence, pending, unranged>>
    BY <1>2, ZenonT(30) DEF Compact
  <2>2. CASE AddOutput
    <3>1. PICK meta \in new_files : AddFile(meta) /\ new_files' = new_files \ {meta}
      BY <2>2, ZenonT(30) DEF AddOutput
    <3> QED
      BY <2>1, <2>2, <3>1, AddKeepsLevels, ZenonT(30) DEF AddOutput
  <2> QED
    BY <1>2, <2>1, <2>2, SelectKeepsLevels, MergeKeepsLevels, JobKeepsLevels, ZenonT(30)
       DEF Compact, RunCompaction
<1>3. ASSUME NEW meta \in pending, FlushAdd(meta) PROVE LevelsInv'
  <2>1. /\ AddFile(meta) /\ pending' = pending \ {meta}
        /\ UNCHANGED <<disk, next_file_number, target_level, all_inputs, next_sst_sequence,
                       unranged>>
        /\ UNCHANGED <<new_files, step>>
    BY <1>3 DEF FlushAdd, jobVars
  <2> QED
    BY <1>3, <2>1, AddKeepsLevels, ZenonT(30)
<1> QED
  BY <1>1, <1>2, <1>3, FlushKeepsLevels, ZenonT(30) DEF Next

\* As long as every new file could be read back, the range recorded for a
\* catalogued file has all its keys, so that GetFromSSTables never skips a file
\* that holds what it looks for.
THEOREM RangesAlwaysCoverKeys == Spec => []RangesCoverKeys
<1>1. CatalogueInv /\ LevelsInv => RangesCoverKeys
  BY ZenonT(30)
     DEF CatalogueInv, FilesInv, Paths, LevelsInv, RangeInv, Held, Covers, RangesCoverKeys
<1> QED
  BY <1>1, CatalogueInvInit, CatalogueInvNext, LevelsInvInit, LevelsInvNext, PTL DEF Spec

\* ... and whenever no compaction is replacing files, the files of a level below
\* level 0 do not overlap (SelectCompactionFiles, MergeFiles, RunCompaction).
THEOREM LevelsAlwaysDisjoint == Spec => []LevelsDisjoint
<1>1. CatalogueInv /\ LevelsInv => LevelsDisjoint
  <2> SUFFICES ASSUME CatalogueInv, LevelsInv, unranged = 0, step \in {"idle", "merge"},
                      NEW f \in files, NEW g \in files, f.level = g.level, f.level > 0, f # g
               PROVE  ~ OverlapsWith(f, g.smallest_key, g.largest_key)
    BY ZenonT(30) DEF LevelsDisjoint
  <2>1. Apart(f, g)
    BY ZenonT(30) DEF LevelsInv, DisjointInv, DeepDisjoint, Live
  <2>2. Covers(f) /\ Covers(g)
    BY DEF CatalogueInv, FilesInv, Paths, LevelsInv, RangeInv, Held
  <2> QED
    BY <2>1, <2>2, ZenonT(30) DEF Apart, Covers, OverlapsWith
<1> QED
  BY <1>1, CatalogueInvInit, CatalogueInvNext, LevelsInvInit, LevelsInvNext, PTL DEF Spec
----------------------------------------------------------------------------
(* The same, with the history of flushed versions that CompactionAges adds. *)

\* The flushes of CompactionAges are flushes.
LEMMA AgeStepIsStep == [AgeNext]_ageVars => [Next]_specVars
<1>1. ASSUME NEW n PROVE FreshTables(n) \subseteq Table
  BY DEF FreshTables
<1> QED
  BY <1>1, Zenon DEF AgeNext, Next, ageVars

\* So what CompactionSpec keeps, CompactionAges keeps.
LEMMA AgeSpecIsSpec == AgeSpec => Spec
<1>1. AgeInit => Init
  BY ZenonT(30) DEF AgeInit
<1> QED
  BY <1>1, AgeStepIsStep, PTL DEF AgeSpec, Spec

\* A held file that is still on disk has the versions it had.
LEMMA VersionsKept ==
  ASSUME CatalogueInv, [Next]_specVars, NEW f \in Held, f.filepath \in DOMAIN disk', NEW k
  PROVE  /\ f.filepath \in DOMAIN disk
         /\ Has(f, k)' <=> Has(f, k)
         /\ disk'[f.filepath][k] = disk[f.filepath][k]
  BY DiskKept DEF Has

\* The file of f has not been deleted.
OnDisk(f) == f.filepath \in DOMAIN disk
----------------------------------------------------------------------------
(* The order of the ages.                                                  *)

\* The flush that wrote the version of k in f.
Age(f, k) == disk[f.filepath][k].id

\* The entries that the catalogue or the job holds: all but the flush under way.
Catalogued == files \cup new_files \cup all_inputs

\* Flushed files are numbered by age; a version is older than the next flush, and
\* what is catalogued or merged is older than the flush under way.
AgesInv ==
  /\ IsFiniteSet(pending) /\ \A f, g \in pending : f = g
  /\ \A f \in Held : OnDisk(f) =>
       \A k \in DOMAIN disk[f.filepath] :
         /\ Age(f, k) < next_sst_sequence
         /\ f.level = 0 => Age(f, k) = f.filepath[2]
  /\ \A f \in files \cup pending : f.level = 0 => f.sequence_number = f.filepath[2]
  /\ \A p \in pending, f \in Catalogued : OnDisk(f) =>
       \A k \in DOMAIN disk[f.filepath] : Age(f, k) < p.filepath[2]

\* The inputs of a merge are of two levels, and those of the upper one win.
PrecedenceInv ==
  step = "merge" =>
    /\ \A f \in all_inputs : f.level \in {target_level - 1, target_level}
    /\ \A f, g \in all_inputs : f.level < g.level => f.sequence_number > g.sequence_number

\* Of two files of S with a key, the one of the upper level has no older version.
AgeOrdered(S) ==
  \A f, g \in S : f.level < g.level =>
    \A k : (Has(f, k) /\ Has(g, k)) => Age(g, k) <= Age(f, k)

\* Of the files that count, an upper level has the newer versions.  A file of level
\* 0 that came while a merge of level 0 is under way is newer than its inputs.
OrderInv ==
  unranged = 0 =>
    /\ AgeOrdered(Live)
    /\ (step = "merge" /\ target_level = 1) =>
         \A g \in Kept, f \in all_inputs : g.level = 0 =>
           \A k : (Has(f, k) /\ Has(g, k)) => Age(f, k) <= Age(g, k)

\* Where the files of the job and of the catalogue come from.
LEMMA JobFilesFrom ==
  ASSUME CatalogueInv, LevelsInv, [Next]_specVars, Compact, NEW f \in Catalogued'
  PROVE  \/ \E g \in Catalogued : SameFile(f, g)
         \/ /\ MergeFiles /\ f \in new_files' /\ f.level = target_level
            /\ \A k \in DOMAIN disk'[f.filepath] :
                 /\ k \in MergedKeys /\ Winner(k) \in all_inputs /\ Has(Winner(k), k)
                 /\ OnDisk(Winner(k))
                 /\ disk'[f.filepath][k] = disk[Winner(k).filepath][k]
<1> DEFINE Old == \E g \in Catalogued : SameFile(f, g)
<1>1. ASSUME f \in Catalogued PROVE Old
  BY <1>1, Zenon DEF SameFile
<1>2. CASE SelectCompactionFiles
  <2>1. PICK source, target : SelectedFrom(source, target)
    BY <1>2, Selected, Zenon
  <2>2. \A g \in all_inputs' : \E h \in files : SameFile(g, h)
    BY <2>1, Zenon DEF SelectedFrom
  <2> QED
    BY <1>1, <1>2, <2>2, Zenon DEF SelectCompactionFiles, Catalogued
<1>3. CASE AddOutput
  <2>1. PICK meta \in new_files : AddFile(meta)
    BY <1>3, Zenon DEF AddOutput
  <2>2. PICK added : files' = files \cup {added} /\ SameFile(added, meta)
    BY <2>1, AddedIs, Zenon DEF CatalogueInv, NamesInv, JobInv
  <2>3. new_files' \subseteq new_files /\ all_inputs' = all_inputs
    BY <1>3, Zenon DEF AddOutput
  <2> QED
    BY <1>1, <2>1, <2>2, <2>3, Zenon DEF Catalogued
<1>4. CASE MergeReadFails \/ MergeWriteFails \/ RemoveInput \/ UnlinkInput
  <2>1. files' \subseteq files /\ new_files' = new_files /\ all_inputs' \subseteq all_inputs
    BY <1>4, Zenon
       DEF MergeReadFails, MergeWriteFails, JobGivenUp, RemoveInput, RemoveFile, UnlinkInput
  <2> QED
    BY <1>1, <2>1, Zenon DEF Catalogued
<1>5. CASE MergeFiles /\ f \in new_files'
  <2>1. PICK m \in 0 .. MaxOutputs : \E part \in Splits(m) : \E size :
          /\ disk' = WithOutputs(part, m)
          /\ new_files' = {OutputMeta(part, j, size[j]) : j \in 1 .. m}
    BY <1>5, MergeWrites, Zenon
  <2>2. PICK part, size :
          /\ part \in Splits(m) /\ disk' = WithOutputs(part, m)
          /\ new_files' = {OutputMeta(part, j, size[j]) : j \in 1 .. m}
    BY <2>1
  <2>3. PICK j \in 1 .. m : f = OutputMeta(part, j, size[j])
    BY <1>5, <2>2, Zenon
  <2>4. m \in Nat /\ JobInv /\ ContentInv /\ InputsReadable
    BY <1>5 DEF CatalogueInv, LevelsInv, MergeFiles
  <2>5. f.filepath = OutputPath(j) /\ f.level = target_level
    BY <2>2, <2>3, <2>4, OutputIs, Zenon
  <2>6. disk'[f.filepath] = [x \in PartKeys(part, j) |-> Merged[x]]
    <3>1. disk'[OutputPath(j)] = [x \in PartKeys(part, j) |-> Merged[x]]
      BY <2>2, <2>4, OutputsWritten, Zenon
    <3> QED
      BY <2>5, <3>1, ZenonT(30)
  <2>7. ASSUME NEW k \in DOMAIN disk'[f.filepath]
        PROVE  /\ k \in MergedKeys /\ Winner(k) \in all_inputs /\ Has(Winner(k), k)
               /\ OnDisk(Winner(k))
               /\ disk'[f.filepath][k] = disk[Winner(k).filepath][k]
    <3>1. k \in PartKeys(part, j) /\ disk'[f.filepath][k] = Merged[k]
      BY <2>6, <2>7, Zenon
    <3>2. k \in MergedKeys
      BY <3>1, ZenonT(30) DEF PartKeys
    <3>3. Winner(k) \in all_inputs /\ Has(Winner(k), k) /\ Merged[k] = disk[Winner(k).filepath][k]
      BY <2>4, <3>2, MergedIs, ZenonT(30)
    <3> QED
      BY <2>4, <3>1, <3>2, <3>3, ZenonT(30) DEF OnDisk, InputsReadable, CanRead
  <2> QED
    BY <1>5, <2>5, <2>7, Zenon
<1>6. CASE MergeFiles /\ f \notin new_files'
  BY <1>1, <1>6, ZenonT(30) DEF MergeFiles, Catalogued
<1> QED
  BY <1>2, <1>3, <1>4, <1>5, <1>6, Zenon DEF Compact, RunCompaction

\* Versions are numbered with naturals.
LEMMA AgeIsNat ==
  ASSUME LevelsInv, NEW f, OnDisk(f), NEW k \in DOMAIN disk[f.filepath]
  PROVE  Age(f, k) \in Nat
<1>1. disk[f.filepath][k] \in [id : Nat, kind : {"put", "delete"}]
  BY TableIs, CompactionConstants, Zenon DEF LevelsInv, ContentInv, OnDisk
<1> QED
  BY <1>1, ZenonT(30) DEF Age

\* A file that was held before has the ages it had.
LEMMA AgesOfOld ==
  ASSUME CatalogueInv, AgesInv, [Next]_specVars, next_sst_sequence' >= next_sst_sequence,
         NEW f, NEW g \in Held, SameFile(f, g), OnDisk(f)',
         NEW k \in DOMAIN disk'[f.filepath]
  PROVE  /\ OnDisk(g) /\ k \in DOMAIN disk[g.filepath]
         /\ disk'[f.filepath][k] = disk[g.filepath][k]
         /\ disk'[f.filepath][k].id = Age(g, k)
         /\ f.level = 0 => Age(g, k) = f.filepath[2]
<1>1. f.filepath = g.filepath /\ f.level = g.level
  BY Zenon DEF SameFile
<1>2. OnDisk(g) /\ disk'[f.filepath] = disk[g.filepath]
  BY <1>1, DiskKept DEF OnDisk
<1> QED
  BY <1>1, <1>2, Zenon DEF AgesInv, Age

\* A compaction invents no versions.
LEMMA JobKeepsAges ==
  ASSUME CatalogueInv, LevelsInv, LevelsInv', AgesInv, [Next]_specVars, Compact
  PROVE  AgesInv'
<1>1. UNCHANGED <<pending, next_sst_sequence>> /\ next_sst_sequence \in Nat
  BY Zenon DEF Compact, CatalogueInv, JobInv
<1>2. ASSUME NEW f \in Catalogued', OnDisk(f)', NEW k \in DOMAIN disk'[f.filepath]
      PROVE  /\ \E g \in Catalogued : /\ OnDisk(g) /\ k \in DOMAIN disk[g.filepath]
                                      /\ disk'[f.filepath][k].id = Age(g, k)
             /\ f.level = 0 => disk'[f.filepath][k].id = f.filepath[2]
  <2>1. CASE \E g \in Catalogued : SameFile(f, g)
    <3>1. PICK g \in Catalogued : SameFile(f, g)
      BY <2>1, ZenonT(30)
    <3>2. g \in Held
      BY ZenonT(30) DEF Held, Catalogued
    <3> QED
      BY <1>1, <1>2, <3>1, <3>2, AgesOfOld
  <2>2. CASE /\ MergeFiles /\ f \in new_files' /\ f.level = target_level
             /\ \A x \in DOMAIN disk'[f.filepath] :
                  /\ x \in MergedKeys /\ Winner(x) \in all_inputs /\ Has(Winner(x), x)
                  /\ OnDisk(Winner(x))
                  /\ disk'[f.filepath][x] = disk[Winner(x).filepath][x]
    <3>1. f.level # 0
      BY <2>2, ZenonT(30) DEF CatalogueInv, JobInv, MergeFiles
    <3> QED
      BY <1>2, <2>2, <3>1, ZenonT(30) DEF Age, Has, Catalogued
  <2> QED
    BY <2>1, <2>2, JobFilesFrom, Zenon
<1>3. ASSUME NEW f \in Held', OnDisk(f)', NEW k \in DOMAIN disk'[f.filepath]
      PROVE  /\ disk'[f.filepath][k].id < next_sst_sequence
             /\ f.level = 0 => disk'[f.filepath][k].id = f.filepath[2]
  <2>1. CASE f \in pending
    <3>1. f \in Held /\ SameFile(f, f)
      BY <2>1, ZenonT(30) DEF Held, SameFile
    <3> QED
      BY <1>1, <1>3, <3>1, AgesOfOld DEF AgesInv
  <2>2. CASE f \in Catalogued'
    <3>1. PICK g \in Catalogued : /\ OnDisk(g) /\ k \in DOMAIN disk[g.filepath]
                                  /\ disk'[f.filepath][k].id = Age(g, k)
      BY <1>2, <1>3, <2>2, Zenon
    <3>2. g \in Held
      BY Zenon DEF Held, Catalogued
    <3> QED
      BY <1>2, <1>3, <2>2, <3>1, <3>2, Zenon DEF AgesInv
  <2> QED
    BY <1>1, <2>1, <2>2, ZenonT(30) DEF Held, Catalogued
<1>4. ASSUME NEW f \in files' \cup pending', f.level = 0 PROVE f.sequence_number = f.filepath[2]
  <2>1. CASE f \in files \cup pending
    BY <1>4, <2>1, Zenon DEF AgesInv
  <2>2. CASE AddOutput /\ f \notin files \cup pending
    <3>1. PICK meta \in new_files : AddFile(meta)
      BY <2>2, Zenon DEF AddOutput
    <3>2. PICK added : files' = files \cup {added} /\ SameFile(added, meta)
      BY <3>1, AddedIs, Zenon DEF CatalogueInv, NamesInv, JobInv
    <3>3. f = added
      BY <1>1, <2>2, <3>2, Zenon
    <3> QED
      BY <1>4, <3>2, <3>3, Zenon DEF SameFile, CatalogueInv, NamesInv
  <2>3. AddOutput \/ files' \subseteq files
    BY Zenon DEF Compact, RunCompaction, SelectCompactionFiles, MergeFiles, MergeReadFails,
           MergeWriteFails, JobGivenUp, RemoveInput, RemoveFile, UnlinkInput
  <2> QED
    BY <1>1, <2>1, <2>2, <2>3, Zenon
<1>5. ASSUME NEW p \in pending', NEW f \in Catalogued', OnDisk(f)',
             NEW k \in DOMAIN disk'[f.filepath]
      PROVE  disk'[f.filepath][k].id < p.filepath[2]
  <2>1. PICK g \in Catalogued : /\ OnDisk(g) /\ k \in DOMAIN disk[g.filepath]
                                /\ disk'[f.filepath][k].id = Age(g, k)
    BY <1>2, <1>5, Zenon
  <2> QED
    BY <1>1, <2>1, Zenon DEF AgesInv
<1> QED
  BY <1>1, <1>3, <1>4, <1>5, Zenon DEF AgesInv, Age

\* The memtable that is flushed is newer than everything on disk.
LEMMA FlushWriteKeepsAges ==
  ASSUME CatalogueInv, LevelsInv, AgesInv, [Next]_specVars, MaxPending <= 1, MayFlush,
         (\E table \in FreshTables(next_sst_sequence) : FlushWrite(table)) \/ FlushWriteFails
  PROVE  AgesInv'
<1>1. /\ UNCHANGED <<files, all_inputs, new_files>> /\ next_sst_sequence \in Nat
      /\ next_sst_sequence' = next_sst_sequence + 1
  BY Zenon DEF FlushWrite, FlushWriteFails, jobVars, CatalogueInv, JobInv
<1>2. Catalogued' = Catalogued
  BY <1>1, Zenon DEF Catalogued
<1>3. pending = {}
  <2>1. Cardinality(pending) \in Nat /\ (Cardinality(pending) = 0 <=> pending = {})
    BY FS_CardinalityType, FS_EmptySet, Zenon DEF AgesInv
  <2> QED
    BY <2>1, FlushBounds DEF MayFlush
<1>4. ASSUME NEW f \in Catalogued, OnDisk(f)', NEW k \in DOMAIN disk'[f.filepath]
      PROVE  /\ disk'[f.filepath][k].id < next_sst_sequence
             /\ f.level = 0 => disk'[f.filepath][k].id = f.filepath[2]
  <2>1. f \in Held /\ SameFile(f, f)
    BY ZenonT(30) DEF Held, Catalogued, SameFile
  <2> QED
    BY <1>1, <1>4, <2>1, AgesOfOld DEF AgesInv
<1>5. ASSUME NEW f \in Catalogued, OnDisk(f)', NEW k \in DOMAIN disk'[f.filepath]
      PROVE  disk'[f.filepath][k].id < next_sst_sequence'
  <2>1. disk'[f.filepath][k].id < next_sst_sequence
    BY <1>4, <1>5, ZenonT(30)
  <2>2. f \in Held /\ SameFile(f, f)
    BY ZenonT(30) DEF Held, Catalogued, SameFile
  <2>3. disk'[f.filepath][k].id \in Nat
    BY <1>1, <1>5, <2>2, AgesOfOld, AgeIsNat
  <2> QED
    BY <1>1, <2>1, <2>3
<1>6. CASE FlushWriteFails
  <2>1. pending' = {}
    BY <1>3, <1>6, Zenon DEF FlushWriteFails
  <2> QED
    BY <1>1, <1>2, <1>4, <1>5, <2>1, FS_EmptySet, Zenon DEF AgesInv, Age, Held, Catalogued
<1>7. ASSUME NEW table \in FreshTables(next_sst_sequence), FlushWrite(table) PROVE AgesInv'
  <2>1. PICK lo, hi : pending' = pending \cup {Level0Meta(next_sst_sequence, table, lo, hi)}
    BY <1>7, ZenonT(30) DEF FlushWrite
  <2>2. PICK meta : /\ pending' = {meta} /\ meta.filepath = <<0, next_sst_sequence>>
                    /\ meta.level = 0 /\ meta.sequence_number = next_sst_sequence
    <3> DEFINE M == Level0Meta(next_sst_sequence, table, lo, hi)
    <3>1. /\ M.filepath = <<0, next_sst_sequence>>
          /\ M.level = 0 /\ M.sequence_number = next_sst_sequence
      BY ZenonT(30) DEF Level0Meta, Level0Path
    <3>2. pending' = {M}
      BY <1>3, <2>1, ZenonT(30)
    <3> HIDE DEF M
    <3> QED
      BY <3>1, <3>2, ZenonT(30)
  <2>3. disk'[meta.filepath] = table
    BY <1>7, <2>2, ZenonT(30) DEF FlushWrite, WithTable, Level0Path
  <2>4. \A k \in DOMAIN disk'[meta.filepath] : disk'[meta.filepath][k].id = next_sst_sequence
    BY <2>3, ZenonT(30) DEF FreshTables
  <2>5. /\ IsFiniteSet(pending') /\ \A f, g \in pending' : f = g
        /\ \A f \in pending' : f.level = 0 /\ f.filepath[2] = next_sst_sequence
                               /\ f.sequence_number = f.filepath[2]
    <3>1. meta.filepath[2] = next_sst_sequence
      BY <2>2
    <3>2. IsFiniteSet({meta})
      BY FS_Singleton, Zenon
    <3> QED
      BY <2>2, <3>1, <3>2, ZenonT(30)
  <2>6. Held' = Catalogued \cup {meta}
    BY <1>1, <2>2, ZenonT(30) DEF Held, Catalogued
  <2>7. \A f \in Held' : OnDisk(f)' => \A k \in DOMAIN disk'[f.filepath] :
          /\ disk'[f.filepath][k].id < next_sst_sequence'
          /\ f.level = 0 => disk'[f.filepath][k].id = f.filepath[2]
    <3>1. \A k \in DOMAIN disk'[meta.filepath] :
            /\ disk'[meta.filepath][k].id < next_sst_sequence'
            /\ disk'[meta.filepath][k].id = meta.filepath[2]
      BY <1>1, <2>2, <2>4, <2>5
    <3> QED
      BY <1>4, <1>5, <2>6, <3>1, Zenon
  <2>8. \A f \in files' \cup pending' : f.level = 0 => f.sequence_number = f.filepath[2]
    BY <1>1, <2>5, Zenon DEF AgesInv
  <2> QED
    BY <1>2, <1>4, <2>5, <2>7, <2>8, ZenonT(30) DEF AgesInv, Age
<1> QED
  BY <1>6, <1>7, Zenon

\* The flush under way enters the catalogue, and no other is under way then.
LEMMA FlushAddKeepsAges ==
  ASSUME CatalogueInv, AgesInv, [Next]_specVars, NEW meta \in pending, FlushAdd(meta)
  PROVE  AgesInv'
<1>1. PICK added : /\ files' = files \cup {added} /\ SameFile(added, meta)
                   /\ added.sequence_number = meta.sequence_number
  BY AddedIs, Zenon DEF FlushAdd, CatalogueInv, NamesInv, JobInv
<1>2. UNCHANGED <<disk, next_sst_sequence, all_inputs, new_files>> /\ pending' = {}
  BY Zenon DEF FlushAdd, jobVars, AgesInv
<1>3. added.filepath = meta.filepath /\ added.level = meta.level
  BY <1>1, Zenon DEF SameFile
<1>4. Held' \subseteq Held \cup {added} /\ meta \in Held
  BY <1>1, <1>2, Zenon DEF Held
<1>5. \A f \in Held' : OnDisk(f)' =>
        \A k \in DOMAIN disk[f.filepath] :
          /\ Age(f, k) < next_sst_sequence
          /\ f.level = 0 => Age(f, k) = f.filepath[2]
  BY <1>2, <1>3, <1>4 DEF AgesInv, OnDisk, Age
<1>6. \A f \in files' \cup pending' : f.level = 0 => f.sequence_number = f.filepath[2]
  BY <1>1, <1>2, <1>3, ZenonT(30) DEF AgesInv
<1> QED
  BY <1>2, <1>5, <1>6, FS_EmptySet, Zenon DEF AgesInv, Age

\* What counts is not touched by giving a merge up, nor by removing and deleting
\* inputs.
LEMMA LiveKept ==
  ASSUME CatalogueInv, MergeReadFails \/ MergeWriteFails \/ RemoveInput \/ UnlinkInput
  PROVE  Live' = Live /\ step' # "merge"
<1>1. CASE MergeReadFails \/ MergeWriteFails
  BY <1>1, ZenonT(30) DEF MergeReadFails, MergeWriteFails, JobGivenUp, Live
<1>2. CASE RemoveInput
  <2>1. Kept' = Kept
    BY <1>2, Zenon DEF RemoveInput, RemoveFile, Kept, Paths
  <2> QED
    BY <1>2, <2>1, ZenonT(30) DEF RemoveInput, Live
<1>3. CASE UnlinkInput
  <2>1. PICK f \in all_inputs : FirstInput(f) /\ all_inputs' = all_inputs \ {f}
    BY <1>3, ZenonT(30) DEF UnlinkInput
  <2>2. /\ step = "unlink" /\ UNCHANGED <<files, new_files>> /\ new_files = {}
        /\ step' = IF all_inputs' = {} THEN "idle" ELSE "remove"
    BY <1>3, Zenon DEF UnlinkInput, CatalogueInv, JobInv
  <2>3. f.filepath \notin Paths(files)
    BY <2>1, <2>2, Zenon DEF CatalogueInv, UnlinkInv
  <2>4. Kept' = Kept
    BY <2>1, <2>2, <2>3 DEF Kept, Paths
  <2>5. all_inputs' = {} => files' = Kept'
    BY ZenonT(30) DEF Kept, Paths
  <2> QED
    BY <2>2, <2>4, <2>5, Zenon DEF Live
<1> QED
  BY <1>1, <1>2, <1>3, ZenonT(30)

\* The files that count are on disk.
LEMMA LiveOnDisk ==
  ASSUME CatalogueInv, NEW f \in Live
  PROVE  f \in Held /\ f \in Catalogued /\ OnDisk(f)
  BY Zenon DEF CatalogueInv, FilesInv, Paths, Live, Kept, Held, Catalogued, OnDisk

\* An input of the merge and a file it leaves alone have no key in common, if one
\* level below level 0 has both or the file is of the target level.
LEMMA KeptApart ==
  ASSUME CatalogueInv, LevelsInv, step = "merge", unranged = 0,
         NEW g \in Kept, NEW f \in all_inputs, OnDisk(f), NEW k, Has(f, k), Has(g, k),
         g.level > 0, g.level = f.level \/ g.level = target_level
  PROVE  FALSE
<1>1. Covers(f) /\ Covers(g)
  BY Zenon DEF CatalogueInv, FilesInv, Paths, Kept, LevelsInv, RangeInv, Held, OnDisk
<1>2. CASE g.level = target_level
  <2>1. g.largest_key < f.smallest_key \/ f.largest_key < g.smallest_key
    BY <1>2, ZenonT(30) DEF LevelsInv, SeparatedInv
  <2> QED
    <3>1. f.smallest_key <= k /\ k <= f.largest_key /\ g.smallest_key <= k /\ k <= g.largest_key
      BY <1>1, ZenonT(30) DEF Covers, Has
    <3>2. k \in Nat
      BY TableIs, Zenon DEF LevelsInv, ContentInv, OnDisk, Has
    <3> QED
      BY <1>1, <2>1, <3>1, <3>2 DEF Covers
<1>3. CASE g.level = f.level
  <2>1. PICK h \in files : SameFile(f, h)
    BY ZenonT(30) DEF LevelsInv, ContentInv
  <2>2. h # g /\ g \in files
    BY <2>1, Zenon DEF Kept, Paths, SameFile
  <2>3. Apart(g, f)
    BY <1>3, <2>1, <2>2, Zenon DEF LevelsInv, DisjointInv, DeepDisjoint, Live, SameFile, Apart
  <2>4. f.smallest_key <= k /\ k <= f.largest_key /\ g.smallest_key <= k /\ k <= g.largest_key
    BY <1>1, ZenonT(30) DEF Covers, Has
  <2>5. k \in Nat
    BY TableIs, Zenon DEF LevelsInv, ContentInv, OnDisk, Has
  <2> QED
    BY <1>1, <2>3, <2>4, <2>5 DEF Covers, Apart
<1> QED
  BY <1>2, <1>3, ZenonT(30)

\* SelectCompactionFiles numbers the sources above the others.
LEMMA PrecedenceKept ==
  ASSUME CatalogueInv, PrecedenceInv, [Next]_specVars
  PROVE  PrecedenceInv'
<1>1. CASE SelectCompactionFiles
  <2>1. PICK source, target : SelectedFrom(source, target)
    BY <1>1, Selected, ZenonT(30)
  <2>2. target_level' = PickCompactionLevel + 1 /\ PickCompactionLevel \in Nat
    BY <1>1, LevelPicked, ZenonT(30) DEF SelectCompactionFiles
  <2>3. \A f \in target : f.level = PickCompactionLevel + 1
    BY <2>1, ZenonT(30) DEF SelectedFrom, Overlapping, GetFilesAtLevel
  <2>4. Cardinality(target) \in Nat
    BY <2>1, FS_CardinalityType, ZenonT(30) DEF SelectedFrom
  <2>5. \A g \in all_inputs' :
          /\ g.sequence_number \in Nat
          /\ \/ g.level = PickCompactionLevel /\ g.sequence_number > Cardinality(target)
             \/ g.level = PickCompactionLevel + 1 /\ g.sequence_number < Cardinality(target)
    BY <2>1, <2>3, ZenonT(30) DEF SelectedFrom, SameFile
  <2> QED
    BY <2>2, <2>4, <2>5 DEF PrecedenceInv
<1>2. CASE step' # "merge" \/ UNCHANGED <<step, target_level, all_inputs>>
  BY <1>2, Zenon DEF PrecedenceInv
<1>3. SelectCompactionFiles \/ step' # "merge" \/ UNCHANGED <<step, target_level, all_inputs>>
  BY Zenon DEF Next, Compact, RunCompaction, MergeFiles, MergeReadFails, MergeWriteFails,
         JobGivenUp, AddOutput, RemoveInput, UnlinkInput, FlushWrite, FlushWriteFails, FlushAdd,
         jobVars, specVars, compactionVars
<1> QED
  BY <1>1, <1>2, <1>3, Zenon

\* A merge leaves the files alone that are not its inputs.
LEMMA MergeKeeps ==
  ASSUME CatalogueInv, CatalogueInv', LevelsInv, [Next]_specVars, MergeFiles, NEW f \in Kept, NEW k
  PROVE  /\ f \in Live /\ f \in Held /\ OnDisk(f) /\ f.level \in Nat
         /\ Has(f, k)' <=> Has(f, k)
         /\ disk'[f.filepath][k] = disk[f.filepath][k]
         /\ Has(f, k) => Age(f, k) \in Nat
<1>1. f \in files' /\ f \in Live
  BY Zenon DEF MergeFiles, Live, Kept
<1>2. f.filepath \in DOMAIN disk'
  BY <1>1, Zenon DEF CatalogueInv, FilesInv, Paths
<1>3. f \in Held /\ OnDisk(f)
  BY <1>1, LiveOnDisk, Zenon
<1>4. (Has(f, k)' <=> Has(f, k)) /\ disk'[f.filepath][k] = disk[f.filepath][k]
  BY <1>2, <1>3, VersionsKept, Zenon
<1>5. f.level \in Nat
  BY <1>3, Zenon DEF CatalogueInv, NamesInv, Named, Held
<1> QED
  BY <1>1, <1>3, <1>4, <1>5, AgeIsNat, Zenon DEF Has

\* What an output has, the winning input had.
LEMMA OutputFrom ==
  ASSUME CatalogueInv, CatalogueInv', LevelsInv, [Next]_specVars, Compact, MergeFiles,
         NEW b \in new_files', NEW k, Has(b, k)'
  PROVE  /\ b.level = target_level /\ k \in MergedKeys
         /\ Winner(k) \in all_inputs /\ Has(Winner(k), k) /\ OnDisk(Winner(k))
         /\ disk'[b.filepath][k] = disk[Winner(k).filepath][k]
<1>1. b \in Catalogued' /\ k \in DOMAIN disk'[b.filepath]
  BY Zenon DEF Catalogued, Has
<1>2. ~ \E g \in Catalogued : SameFile(b, g)
  <2>1. b.filepath \notin Paths(files) \cup Paths(all_inputs)
    BY Zenon DEF MergeFiles, CatalogueInv, FilesInv, Paths
  <2>2. new_files = {}
    BY Zenon DEF MergeFiles, CatalogueInv, JobInv
  <2> QED
    BY <2>1, <2>2, Zenon DEF SameFile, Catalogued, Paths
<1> QED
  BY <1>1, <1>2, JobFilesFrom, Zenon

\* What an input has, a catalogued file has.
LEMMA InputFrom ==
  ASSUME CatalogueInv, LevelsInv, PrecedenceInv, step = "merge",
         NEW w \in all_inputs, OnDisk(w), NEW k, Has(w, k)
  PROVE  /\ w.level \in Nat /\ w.level \in {target_level - 1, target_level}
         /\ Age(w, k) \in Nat
         /\ \E h \in files : SameFile(w, h) /\ Has(h, k) /\ Age(h, k) = Age(w, k)
<1>1. PICK h \in files : SameFile(w, h)
  BY Zenon DEF LevelsInv, ContentInv
<1>2. w.level \in Nat /\ w.level \in {target_level - 1, target_level}
  BY Zenon DEF PrecedenceInv, CatalogueInv, NamesInv, Named
<1> QED
  BY <1>1, <1>2, AgeIsNat, Zenon DEF Has, Age, SameFile

\* The versions a merge passes on are as new, against the files it leaves alone,
\* as the inputs they come from.
LEMMA MergeKeepsOrder ==
  ASSUME CatalogueInv, CatalogueInv', LevelsInv, LevelsInv', AgesInv, PrecedenceInv, OrderInv,
         [Next]_specVars, Compact, MergeFiles, unranged = 0
  PROVE  AgeOrdered(Live)'
<1>1. /\ step = "merge" /\ step' \in {"add", "remove"} /\ target_level \in Nat \ {0}
      /\ UNCHANGED <<files, all_inputs>>
  BY Zenon DEF MergeFiles, CatalogueInv, JobInv
<1>2. Live' = Kept \cup new_files' /\ Kept \subseteq files /\ Live = files
  BY <1>1, Zenon DEF Live, Kept, Paths
<1>3. ASSUME NEW f \in Kept, NEW k
      PROVE  /\ Has(f, k)' <=> Has(f, k)
             /\ f \in Live /\ OnDisk(f) /\ f.level \in Nat
             /\ Has(f, k) => disk'[f.filepath][k].id = Age(f, k) /\ Age(f, k) \in Nat
  BY MergeKeeps, Zenon DEF Age
<1>4. ASSUME NEW b \in new_files', NEW k, Has(b, k)'
      PROVE  /\ b.level = target_level
             /\ Winner(k) \in all_inputs /\ Has(Winner(k), k) /\ OnDisk(Winner(k))
             /\ disk'[b.filepath][k].id = Age(Winner(k), k)
  BY <1>4, OutputFrom, Zenon DEF Age
<1>5. ASSUME NEW w \in all_inputs, OnDisk(w), NEW k, Has(w, k)
      PROVE  /\ w.level \in Nat /\ w.level \in {target_level - 1, target_level}
             /\ Age(w, k) \in Nat
             /\ \E h \in files : SameFile(w, h) /\ Has(h, k) /\ Age(h, k) = Age(w, k)
  BY <1>1, <1>5, InputFrom, Zenon
<1> SUFFICES ASSUME NEW f \in Live', NEW g \in Live', f.level < g.level,
                    NEW k, Has(f, k)', Has(g, k)'
             PROVE  disk'[g.filepath][k].id <= disk'[f.filepath][k].id
  BY Zenon DEF AgeOrdered, Age
<1> DEFINE w == Winner(k)
<1>6. CASE f \in Kept /\ g \in Kept
  BY <1>1, <1>2, <1>3, <1>6, Zenon DEF OrderInv, AgeOrdered
<1>7. CASE f \in new_files' /\ g \in new_files'
  BY <1>1, <1>4, <1>7
<1>8. CASE f \in Kept /\ g \in new_files'
  <2>1. /\ g.level = target_level /\ w \in all_inputs /\ Has(w, k) /\ OnDisk(w)
        /\ disk'[g.filepath][k].id = Age(w, k)
    BY <1>4, <1>8, Zenon
  <2> HIDE DEF w
  <2>2. Has(f, k) /\ disk'[f.filepath][k].id = Age(f, k) /\ f.level \in Nat /\ f \in Live
    BY <1>3, <1>8, ZenonT(30)
  <2>3. w.level \in Nat /\ w.level \in {target_level - 1, target_level}
    BY <1>5, <2>1, ZenonT(30)
  <2>4. PICK h \in files : SameFile(w, h) /\ Has(h, k) /\ Age(h, k) = Age(w, k)
    BY <1>5, <2>1, ZenonT(30)
  <2>5. CASE f.level < w.level
    BY <1>2, <2>1, <2>2, <2>4, <2>5, Zenon DEF OrderInv, AgeOrdered, SameFile
  <2>6. CASE ~ (f.level < w.level)
    <3>1. f.level = target_level - 1 /\ w.level = target_level - 1
      BY <1>1, <2>1, <2>2, <2>3, <2>6
    <3>2. CASE f.level > 0
      BY <1>1, <1>8, <2>1, <2>2, <3>1, <3>2, KeptApart, Zenon
    <3>3. CASE f.level = 0
      <4>1. target_level = 1
        BY <1>1, <3>1, <3>3
      <4> QED
        BY <1>1, <1>8, <2>1, <2>2, <3>3, <4>1, Zenon DEF OrderInv
    <3> QED
      BY <2>2, <3>2, <3>3, SMTT(30)
  <2> QED
    BY <2>5, <2>6, ZenonT(30)
<1>9. CASE f \in new_files' /\ g \in Kept
  <2>1. /\ f.level = target_level /\ w \in all_inputs /\ Has(w, k) /\ OnDisk(w)
        /\ disk'[f.filepath][k].id = Age(w, k)
    BY <1>4, <1>9, Zenon
  <2> HIDE DEF w
  <2>2. Has(g, k) /\ disk'[g.filepath][k].id = Age(g, k) /\ g.level \in Nat /\ g \in Live
    BY <1>3, <1>9, Zenon
  <2>3. w.level \in Nat /\ w.level < g.level
    BY <1>1, <1>5, <2>1, <2>2
  <2>4. PICK h \in files : SameFile(w, h) /\ Has(h, k) /\ Age(h, k) = Age(w, k)
    BY <1>5, <2>1, ZenonT(30)
  <2> QED
    BY <1>2, <2>1, <2>2, <2>3, <2>4, Zenon DEF OrderInv, AgeOrdered, SameFile
<1> QED
  BY <1>2, <1>6, <1>7, <1>8, <1>9, Zenon

\* The order of what counts does not depend on how the entries are numbered.
LEMMA OrderCarried ==
  ASSUME CatalogueInv, CatalogueInv', [Next]_specVars, AgeOrdered(Live),
         \A f \in Live' : \E g \in Live : SameFile(f, g)
  PROVE  AgeOrdered(Live)'
<1> SUFFICES ASSUME NEW f \in Live', NEW g \in Live', f.level < g.level,
                    NEW k, Has(f, k)', Has(g, k)'
             PROVE  disk'[g.filepath][k].id <= disk'[f.filepath][k].id
  BY ZenonT(30) DEF AgeOrdered, Age
<1>1. ASSUME NEW a \in Live', Has(a, k)'
      PROVE  \E b \in Live : /\ SameFile(a, b) /\ Has(b, k)
                             /\ disk'[a.filepath][k].id = Age(b, k)
  <2>1. PICK b \in Live : SameFile(a, b)
    BY ZenonT(30)
  <2>2. a.filepath \in DOMAIN disk'
    BY Zenon DEF CatalogueInv, FilesInv, Paths, Live, Kept
  <2>3. b \in Held /\ b.filepath = a.filepath
    BY <2>1, LiveOnDisk, ZenonT(30) DEF SameFile
  <2> QED
    BY <1>1, <2>1, <2>2, <2>3, VersionsKept, Zenon DEF Has, Age
<1>2. PICK a \in Live : SameFile(f, a) /\ Has(a, k) /\ disk'[f.filepath][k].id = Age(a, k)
  BY <1>1, ZenonT(30)
<1>3. PICK b \in Live : SameFile(g, b) /\ Has(b, k) /\ disk'[g.filepath][k].id = Age(b, k)
  BY <1>1, ZenonT(30)
<1> QED
  BY <1>2, <1>3, Zenon DEF AgeOrdered, SameFile

\* Every step of CompactionAges.
LEMMA OrderInvNext ==
  ASSUME CatalogueInv, CatalogueInv', LevelsInv, LevelsInv', AgesInv, PrecedenceInv, OrderInv,
         [AgeNext]_ageVars
  PROVE  OrderInv'
<1>1. [Next]_specVars
  BY AgeStepIsStep, ZenonT(30)
<1> SUFFICES ASSUME unranged' = 0
             PROVE  /\ AgeOrdered(Live)'
                    /\ (step' = "merge" /\ target_level' = 1) =>
                         \A g \in Kept', f \in all_inputs' : g.level = 0 =>
                           \A k : (Has(f, k)' /\ Has(g, k)') => Age(f, k)' <= Age(g, k)'
  BY ZenonT(30) DEF OrderInv
<1>2. unranged = 0
  BY <1>1, RangedBefore, Zenon DEF LevelsInv
<1>3. \A f : SameFile(f, f)
  BY Zenon DEF SameFile
<1>4. ASSUME step = "merge", NEW f \in all_inputs, f.filepath \in DOMAIN disk',
             NEW g \in Kept, g.filepath \in DOMAIN disk', g.level = 0, target_level = 1,
             NEW k, Has(f, k)', Has(g, k)'
      PROVE  Age(f, k)' <= Age(g, k)'
  <2>1. f \in Held /\ g \in Held
    BY Zenon DEF Held, Kept
  <2>2. Has(f, k) /\ Has(g, k) /\ Age(f, k)' = Age(f, k) /\ Age(g, k)' = Age(g, k)
    BY <1>1, <1>4, <2>1, VersionsKept, Zenon DEF Age
  <2> QED
    BY <1>2, <1>4, <2>2, Zenon DEF OrderInv
<1>5. ASSUME NEW f \in all_inputs', step' = "merge" PROVE f.filepath \in DOMAIN disk'
  <2>1. PICK g \in files' : SameFile(f, g)
    BY <1>5, Zenon DEF LevelsInv, ContentInv
  <2> QED
    BY <2>1, Zenon DEF SameFile, CatalogueInv, FilesInv, Paths
<1>6. ASSUME NEW g \in Kept' PROVE g.filepath \in DOMAIN disk'
  BY Zenon DEF CatalogueInv, FilesInv, Paths, Kept
<1>7. CASE UNCHANGED <<files, step, target_level, all_inputs, new_files>>
  <2>1. Live' = Live /\ Kept' = Kept
    BY <1>7, Zenon DEF Live, Kept, Paths
  <2>2. AgeOrdered(Live)'
    BY <1>1, <1>2, <1>3, <2>1, OrderCarried, Zenon DEF OrderInv
  <2> QED
    BY <1>4, <1>5, <1>6, <1>7, <2>1, <2>2, Zenon
<1>8. CASE Compact
  <2>1. CASE SelectCompactionFiles
    <3>1. /\ Live' = Live /\ target_level' = PickCompactionLevel + 1
          /\ PickCompactionLevel \in Nat /\ files' = files
      BY <2>1, LevelPicked, Zenon DEF SelectCompactionFiles, Live
    <3>2. AgeOrdered(Live)'
      BY <1>1, <1>2, <1>3, <3>1, OrderCarried, Zenon DEF OrderInv
    <3>3. PICK source, target : SelectedFrom(source, target)
      BY <2>1, Selected, Zenon
    <3>4. ASSUME target_level' = 1, NEW g \in Kept', g.level = 0 PROVE FALSE
      <4>1. g \in files /\ g.filepath \notin Paths(all_inputs')
        BY <3>1, Zenon DEF Kept, Paths
      <4>2. g \in source
        BY <3>1, <3>3, <3>4, <4>1 DEF SelectedFrom
      <4> QED
        BY <3>3, <4>1, <4>2, Zenon DEF SelectedFrom, Paths, SameFile
    <3> QED
      BY <3>2, <3>4, Zenon
  <2>2. CASE MergeFiles
    <3>1. step' # "merge"
      BY <2>2, ZenonT(30) DEF MergeFiles
    <3> QED
      BY <1>1, <1>2, <1>8, <2>2, <3>1, MergeKeepsOrder, ZenonT(30)
  <2>3. CASE MergeReadFails \/ MergeWriteFails \/ RemoveInput \/ UnlinkInput
    <3>1. Live' = Live /\ step' # "merge"
      BY <2>3, LiveKept, ZenonT(30)
    <3> QED
      BY <1>1, <1>2, <1>3, <3>1, OrderCarried, ZenonT(30) DEF OrderInv
  <2>4. CASE AddOutput
    <3>1. PICK meta \in new_files : AddFile(meta) /\ new_files' = new_files \ {meta}
      BY <2>4, ZenonT(30) DEF AddOutput
    <3>2. PICK added : files' = files \cup {added} /\ SameFile(added, meta)
      BY <3>1, AddedIs, ZenonT(30) DEF CatalogueInv, NamesInv, JobInv
    <3>3. step = "add" /\ step' \in {"add", "remove"} /\ all_inputs' = all_inputs
      BY <2>4, ZenonT(30) DEF AddOutput
    <3>4. Live' \subseteq Live \cup {added} /\ meta \in Live
      BY <3>1, <3>2, <3>3, ZenonT(30) DEF Live, Kept, Paths
    <3> QED
      BY <1>1, <1>2, <1>3, <3>2, <3>3, <3>4, OrderCarried, ZenonT(30) DEF OrderInv
  <2> QED
    BY <1>8, <2>1, <2>2, <2>3, <2>4, Zenon DEF Compact, RunCompaction
<1>9. ASSUME NEW meta \in pending, FlushAdd(meta)
      PROVE  /\ AgeOrdered(Live)'
             /\ (step' = "merge" /\ target_level' = 1) =>
                  \A g \in Kept', f \in all_inputs' : g.level = 0 =>
                    \A k : (Has(f, k)' /\ Has(g, k)') => Age(f, k)' <= Age(g, k)'
  <2>1. PICK added : files' = files \cup {added} /\ SameFile(added, meta)
    BY <1>9, AddedIs, ZenonT(30) DEF FlushAdd, CatalogueInv, NamesInv, JobInv
  <2>2. UNCHANGED <<disk, step, target_level, all_inputs, new_files>>
    BY <1>9, ZenonT(30) DEF FlushAdd, jobVars
  <2>3. Live' \subseteq Live \cup {added} /\ Kept' \subseteq Kept \cup {added}
    BY <2>1, <2>2, ZenonT(30) DEF Live, Kept, Paths
  <2>4. added.level = 0 /\ added.filepath = meta.filepath /\ meta \in Held /\ OnDisk(meta)
    BY <2>1, Zenon DEF SameFile, CatalogueInv, NamesInv, FilesInv, Paths, Held, OnDisk
  <2>5. ASSUME NEW f \in Catalogued, OnDisk(f), NEW k, Has(f, k), Has(added, k)
        PROVE  Age(f, k) <= Age(added, k)
    <3>1. Age(f, k) < meta.filepath[2] /\ Age(f, k) \in Nat
      BY <2>5, AgeIsNat, Zenon DEF AgesInv, Has
    <3>2. Age(added, k) = meta.filepath[2] /\ Age(added, k) \in Nat
      <4>1. meta.level = 0 /\ k \in DOMAIN disk[meta.filepath]
        BY <2>4, <2>5, Zenon DEF Has, CatalogueInv, NamesInv
      <4>2. Age(meta, k) = meta.filepath[2] /\ Age(meta, k) \in Nat
        BY <2>4, <4>1, AgeIsNat, Zenon DEF AgesInv
      <4> QED
        BY <2>4, <4>2, Zenon DEF Age
    <3> QED
      BY <3>1, <3>2
  <2>6. AgeOrdered(Live)'
    <3> SUFFICES ASSUME NEW f \in Live', NEW g \in Live', f.level < g.level,
                        NEW k, Has(f, k), Has(g, k)
                 PROVE  Age(g, k) <= Age(f, k)
      BY <2>2, Zenon DEF AgeOrdered, Age, Has
    <3>1. CASE f \in Live /\ g \in Live
      BY <1>2, <3>1, Zenon DEF OrderInv, AgeOrdered
    <3>2. CASE f = added /\ g \in Live
      BY <2>5, <3>2, LiveOnDisk, Zenon
    <3>3. CASE g = added
      <4>1. f.level \in Nat
        <5>1. f \in files' \cup new_files'
          BY Zenon DEF Live, Kept
        <5> QED
          BY <5>1, Zenon DEF CatalogueInv, NamesInv, Named
      <4> QED
        BY <2>4, <3>3, <4>1
    <3> QED
      BY <2>3, <3>1, <3>2, <3>3, Zenon
  <2>7. ASSUME step' = "merge", target_level' = 1, NEW g \in Kept', NEW f \in all_inputs',
               g.level = 0, NEW k, Has(f, k)', Has(g, k)'
        PROVE  Age(f, k)' <= Age(g, k)'
    <3>1. CASE g \in Kept
      <4>1. step = "merge" /\ target_level = 1 /\ f \in all_inputs
        BY <2>2, <2>7, Zenon
      <4>2. f.filepath \in DOMAIN disk' /\ g.filepath \in DOMAIN disk'
        BY <1>5, <1>6, <2>7, Zenon
      <4> QED
        BY <1>4, <2>7, <3>1, <4>1, <4>2, Zenon
    <3>2. CASE g = added
      <4>1. f \in Catalogued /\ OnDisk(f)
        BY <1>5, <2>2, <2>7, Zenon DEF Catalogued, OnDisk
      <4> QED
        BY <2>2, <2>5, <2>7, <3>2, <4>1, Zenon DEF Age, Has
    <3> QED
      BY <2>3, <3>1, <3>2, Zenon
  <2> QED
    BY <2>6, <2>7, ZenonT(30)
<1>10. \/ UNCHANGED <<files, step, target_level, all_inputs, new_files>>
       \/ Compact \/ \E meta \in pending : FlushAdd(meta)
  BY Zenon DEF AgeNext, ageVars, specVars, compactionVars, jobVars, FlushWrite, FlushWriteFails
<1> QED
  BY <1>7, <1>8, <1>9, <1>10, ZenonT(30)

\* The ages, at every step.
LEMMA AgesInvNext ==
  ASSUME CatalogueInv, LevelsInv, LevelsInv', AgesInv, [AgeNext]_ageVars, MaxPending <= 1
  PROVE  AgesInv'
<1>1. [Next]_specVars
  BY AgeStepIsStep, Zenon
<1>2. CASE UNCHANGED ageVars
  BY <1>2, Zenon
  DEF ageVars, specVars, compactionVars, jobVars, AgesInv, Age, Held, Catalogued, OnDisk
<1> QED
  BY <1>1, <1>2, JobKeepsAges, FlushWriteKeepsAges, FlushAddKeepsAges, Zenon DEF AgeNext

\* The inductive invariant behind LookupFindsNewestLeft.
AgesAreOrdered ==
  /\ CatalogueInv /\ LevelsInv /\ AgesInv /\ PrecedenceInv /\ OrderInv

\* It holds at the start ...
LEMMA AgesAreOrderedInit == AgeInit => AgesAreOrdered
<1> SUFFICES ASSUME AgeInit PROVE AgesAreOrdered
  BY Zenon
<1>1. CatalogueInv /\ LevelsInv
  BY CatalogueInvInit, LevelsInvInit, Zenon DEF AgeInit
<1>2. AgesInv
  BY FS_EmptySet, Zenon DEF AgeInit, Init, CompactionInit, AgesInv, Held, Catalogued
<1>3. PrecedenceInv /\ OrderInv
  BY Zenon DEF AgeInit, Init, CompactionInit, PrecedenceInv, OrderInv, AgeOrdered, Live
<1> QED
  BY <1>1, <1>2, <1>3, ZenonT(30) DEF AgesAreOrdered

\* ... and every step keeps it, with one flush under way at a time.
LEMMA AgesAreOrderedNext ==
  ASSUME MaxPending <= 1
  PROVE  AgesAreOrdered /\ [AgeNext]_ageVars => AgesAreOrdered'
<1> SUFFICES ASSUME AgesAreOrdered, [AgeNext]_ageVars PROVE AgesAreOrdered'
  BY Zenon
<1>1. [Next]_specVars
  BY AgeStepIsStep, Zenon
<1>2. CatalogueInv' /\ LevelsInv'
  BY <1>1, CatalogueInvNext, LevelsInvNext, Zenon DEF AgesAreOrdered
<1>3. AgesInv' /\ PrecedenceInv' /\ OrderInv'
  BY <1>1, <1>2, AgesInvNext, PrecedenceKept, OrderInvNext, Zenon DEF AgesAreOrdered
<1> QED
  BY <1>2, <1>3, Zenon DEF AgesAreOrdered

\* With one flush under way at a time, and as long as every new file could be read
\* back, the file in which a lookup finds a key first has the newest of the versions
\* left, whenever no compaction is replacing files.
THEOREM LookupAlwaysFindsNewestLeft ==
  ASSUME MaxPending <= 1
  PROVE  AgeSpec => []LookupFindsNewestLeft
<1>1. AgesAreOrdered => LookupFindsNewestLeft
  <2> SUFFICES ASSUME AgesAreOrdered, unranged = 0, step \in {"idle", "merge"}, NEW k \in Key,
                      NEW f \in files, NEW g \in files, Has(f, k), Has(g, k), SearchedBefore(f, g)
               PROVE  disk[f.filepath][k].id >= disk[g.filepath][k].id
    BY Zenon DEF LookupFindsNewestLeft
  <2> USE DEF AgesAreOrdered
  <2>1. f \in Live /\ g \in Live /\ Live = files
    BY Zenon DEF Live
  <2>2. OnDisk(f) /\ OnDisk(g) /\ f \in Held /\ g \in Held
    BY <2>1, LiveOnDisk, Zenon
  <2>3. /\ Age(f, k) \in Nat /\ Age(g, k) \in Nat
        /\ f.level \in Nat /\ g.level \in Nat
        /\ f.sequence_number \in Int /\ g.sequence_number \in Int
    BY <2>2, AgeIsNat, Zenon DEF Has, Held, CatalogueInv, NamesInv, Named
  <2>4. CASE f.level < g.level
    BY <2>1, <2>3, <2>4, Zenon DEF OrderInv, AgeOrdered, Age
  <2>5. CASE f.level = g.level /\ f.sequence_number > g.sequence_number /\ f.level = 0
    <3>1. Age(f, k) = f.sequence_number /\ Age(g, k) = g.sequence_number
      BY <2>2, <2>5, Zenon DEF AgesInv, Has
    <3> QED
      BY <2>3, <2>5, <3>1 DEF Age
  <2>6. CASE f.level = g.level /\ f.sequence_number > g.sequence_number /\ f.level > 0
    <3>1. f # g
      BY <2>3, <2>6
    <3>2. Apart(f, g)
      BY <2>1, <2>6, <3>1, Zenon DEF LevelsInv, DisjointInv, DeepDisjoint
    <3>3. /\ Covers(f) /\ Covers(g) /\ k \in Nat
      BY <2>2, CompactionConstants, Zenon DEF LevelsInv, RangeInv, OnDisk
    <3> QED
      BY <3>2, <3>3 DEF Apart, Covers, Has
  <2> QED
    BY <2>3, <2>4, <2>5, <2>6 DEF SearchedBefore
<1> QED
  BY <1>1, AgesAreOrderedInit, AgesAreOrderedNext, PTL DEF AgeSpec
----------------------------------------------------------------------------
(* No key vanishes.                                                        *)

\* All the versions of k are puts ...
PutOnly(k) ==
  \A f \in files \cup new_files \cup all_inputs :
    (OnDisk(f) /\ Has(f, k)) => disk[f.filepath][k].kind = "put"

\* ... so that once the merge is done its outputs have k if an input has ...
Handed(k) ==
  step \in {"add", "remove", "unlink"} =>
    \A f \in all_inputs :
      (OnDisk(f) /\ Has(f, k)) => \E g \in Kept \cup new_files : Has(g, k)

\* ... and removing that input does not lose k.
Present(k) == newest[k] # NoVersion => \E f \in files : Has(f, k)

\* The inductive invariant behind KeyNeverVanishes, about the keys never deleted.
KeyInv ==
  \A k \in Key \ ({EmptyKey} \cup deleted) : PutOnly(k) /\ Handed(k) /\ Present(k)

\* The kept files and the outputs go on holding what they hold.
LEMMA StillHanded ==
  ASSUME CatalogueInv, CatalogueInv', [Next]_specVars, NEW k, Handed(k),
         step \in {"add", "remove", "unlink"},
         all_inputs' \subseteq all_inputs,
         \A g \in Kept \cup new_files : \E h \in Kept' \cup new_files' : SameFile(h, g)
  PROVE  Handed(k)'
<1> SUFFICES ASSUME NEW f \in all_inputs', OnDisk(f)', Has(f, k)'
             PROVE  \E h \in Kept' \cup new_files' : Has(h, k)'
  BY Zenon DEF Handed
<1>1. f \in Held /\ f \in all_inputs
  BY Zenon DEF Held
<1>2. OnDisk(f) /\ Has(f, k)
  BY <1>1, VersionsKept, Zenon DEF OnDisk
<1>3. PICK g \in Kept \cup new_files : Has(g, k)
  BY <1>1, <1>2, Zenon DEF Handed
<1>4. PICK h \in Kept' \cup new_files' : SameFile(h, g)
  BY <1>3, Zenon
<1>5. h.filepath \in DOMAIN disk' /\ h.filepath = g.filepath
  BY <1>4, Zenon DEF CatalogueInv, FilesInv, Paths, Kept, SameFile
<1>6. g \in Held
  BY Zenon DEF Held, Kept
<1>7. Has(g, k)'
  BY <1>3, <1>5, <1>6, VersionsKept, Zenon
<1> QED
  BY <1>5, <1>7, Zenon DEF Has

\* No file gains a version but by being written.
LEMMA StillPutOnly ==
  ASSUME CatalogueInv, [Next]_specVars, NEW k, PutOnly(k),
         NEW f, NEW g \in files \cup new_files \cup all_inputs, f.filepath = g.filepath,
         OnDisk(f)', Has(f, k)'
  PROVE  disk'[f.filepath][k].kind = "put"
<1>1. g \in Held
  BY Zenon DEF Held
<1>2. /\ g.filepath \in DOMAIN disk /\ Has(g, k)
      /\ disk'[g.filepath][k] = disk[g.filepath][k]
  BY <1>1, VersionsKept, Zenon DEF OnDisk, Has
<1> QED
  BY <1>2, Zenon DEF PutOnly, OnDisk

\* A catalogue that loses no file loses no key.
LEMMA StillPresent ==
  ASSUME CatalogueInv, CatalogueInv', [Next]_specVars, NEW k, Present(k),
         newest'[k] = newest[k], files \subseteq files'
  PROVE  Present(k)'
<1> SUFFICES ASSUME newest[k] # NoVersion PROVE \E f \in files' : Has(f, k)'
  BY Zenon DEF Present, NoVersion
<1>1. PICK f \in files : Has(f, k)
  BY Zenon DEF Present
<1>2. f \in Held /\ f.filepath \in DOMAIN disk'
  BY Zenon DEF Held, CatalogueInv, FilesInv, Paths
<1> QED
  BY <1>1, <1>2, VersionsKept, Zenon

\* The merge keeps every key all of whose versions are puts.
LEMMA MergeHandsOver ==
  ASSUME CatalogueInv, CatalogueInv', LevelsInv, [Next]_specVars, MergeFiles,
         NEW k \in Key \ {EmptyKey}, PutOnly(k)
  PROVE  PutOnly(k)' /\ Handed(k)'
<1>1. /\ step = "merge" /\ UNCHANGED <<files, target_level, all_inputs>> /\ InputsReadable
      /\ new_files = {}
  BY Zenon DEF MergeFiles, CatalogueInv, JobInv
<1>2. PICK m \in 0 .. MaxOutputs : \E part \in Splits(m) : \E size :
        /\ disk' = WithOutputs(part, m)
        /\ new_files' = {OutputMeta(part, j, size[j]) : j \in 1 .. m}
  BY MergeWrites, Zenon
<1>3. PICK part, size :
        /\ part \in Splits(m) /\ disk' = WithOutputs(part, m)
        /\ new_files' = {OutputMeta(part, j, size[j]) : j \in 1 .. m}
  BY <1>2
<1>4. m \in Nat /\ JobInv /\ ContentInv
  BY DEF CatalogueInv, LevelsInv
<1>5. \A j \in 1 .. m :
        /\ OutputMeta(part, j, size[j]) \in new_files'
        /\ OutputMeta(part, j, size[j]).filepath = OutputPath(j)
        /\ disk'[OutputPath(j)] = [x \in PartKeys(part, j) |-> Merged[x]]
  <2> TAKE j \in 1 .. m
  <2>1. OutputMeta(part, j, size[j]) \in new_files'
    BY <1>3, Zenon
  <2>2. OutputMeta(part, j, size[j]).filepath = OutputPath(j)
    BY Zenon DEF OutputMeta
  <2>3. disk'[OutputPath(j)] = [x \in PartKeys(part, j) |-> Merged[x]]
    BY <1>3, <1>4, OutputsWritten, Zenon
  <2> QED
    BY <2>1, <2>2, <2>3, Zenon
<1>6. ASSUME NEW f \in all_inputs, Has(f, k)
      PROVE  /\ Winner(k) \in all_inputs /\ Has(Winner(k), k)
             /\ disk[Winner(k).filepath][k].kind = "put"
  <2>1. Winner(k) \in all_inputs /\ Has(Winner(k), k)
    BY <1>4, <1>6, WinnerIs, ZenonT(30)
  <2>2. OnDisk(Winner(k))
    BY <1>1, <2>1, ZenonT(30) DEF InputsReadable, CanRead, OnDisk
  <2> QED
    BY <2>1, <2>2, ZenonT(30) DEF PutOnly
<1>7. ASSUME NEW f \in all_inputs, Has(f, k) PROVE k \in MergedKeys
  <2>1. disk[Winner(k).filepath][k].kind = "put"
    BY <1>6, <1>7, ZenonT(30)
  <2>2. k \in UNION {DOMAIN disk[g.filepath] : g \in all_inputs}
    BY <1>7, ZenonT(30) DEF Has
  <2> HIDE DEF Winner
  <2> QED
    BY <2>1, <2>2, ZenonT(30) DEF MergedKeys
<1>8. ASSUME k \in MergedKeys PROVE \E g \in new_files' : Has(g, k)'
  <2>1. part \in [MergedKeys -> 1 .. m]
    BY <1>3, Zenon DEF Splits, Surjection
  <2>2. part[k] \in 1 .. m /\ k \in PartKeys(part, part[k])
    BY <1>8, <2>1, Zenon DEF PartKeys
  <2>3. PICK j \in 1 .. m : k \in PartKeys(part, j)
    BY <2>2, Zenon
  <2>4. PICK g \in new_files' : g.filepath = OutputPath(j)
    BY <1>5, Zenon
  <2>5. k \in DOMAIN disk'[OutputPath(j)]
    BY <1>5, <2>3, Zenon
  <2> QED
    BY <2>4, <2>5, ZenonT(30) DEF Has
<1>9. Handed(k)'
  <2> SUFFICES ASSUME NEW f \in all_inputs', OnDisk(f)', Has(f, k)'
               PROVE  \E h \in Kept' \cup new_files' : Has(h, k)'
    BY Zenon DEF Handed
  <2>1. f \in all_inputs /\ f \in Held
    BY <1>1, Zenon DEF Held
  <2>2. Has(f, k)
    BY <2>1, VersionsKept, Zenon DEF OnDisk
  <2> QED
    BY <1>7, <1>8, <2>1, <2>2, Zenon
<1>10. PutOnly(k)'
  <2> SUFFICES ASSUME NEW f \in files' \cup new_files' \cup all_inputs', OnDisk(f)', Has(f, k)'
               PROVE  disk'[f.filepath][k].kind = "put"
    BY Zenon DEF PutOnly
  <2>1. CASE f \in files \cup all_inputs
    BY <2>1, StillPutOnly, Zenon
  <2>2. CASE f \in new_files'
    <3>1. PICK j \in 1 .. m : f.filepath = OutputPath(j)
      BY <1>3, <1>5, <2>2, ZenonT(30)
    <3>2. k \in PartKeys(part, j) /\ disk'[f.filepath][k] = Merged[k]
      <4>1. disk'[f.filepath] = [x \in PartKeys(part, j) |-> Merged[x]]
        BY <1>5, <3>1, Zenon
      <4>2. k \in DOMAIN disk'[f.filepath]
        BY ZenonT(30) DEF Has
      <4> QED
        BY <4>1, <4>2, ZenonT(30)
    <3>3. k \in MergedKeys
      BY <3>2, ZenonT(30) DEF PartKeys
    <3>4. Winner(k) \in all_inputs /\ Has(Winner(k), k) /\ Merged[k] = disk[Winner(k).filepath][k]
      BY <1>4, <3>3, MergedIs, ZenonT(30)
    <3> QED
      BY <1>6, <3>2, <3>4, Zenon
  <2> QED
    BY <1>1, <2>1, <2>2, Zenon
<1> QED
  BY <1>9, <1>10, Zenon

\* Every step of the job.
LEMMA JobKeepsKeys ==
  ASSUME CatalogueInv, CatalogueInv', LevelsInv, [Next]_specVars, Compact,
         UNCHANGED newest, NEW k \in Key \ {EmptyKey}, PutOnly(k), Handed(k), Present(k)
  PROVE  PutOnly(k)' /\ Handed(k)' /\ Present(k)'
<1>1. CASE SelectCompactionFiles
  <2>1. PICK source, target : SelectedFrom(source, target)
    BY <1>1, Selected, Zenon
  <2>2. \A g \in all_inputs' : \E f \in files : g.filepath = f.filepath
    BY <2>1, Zenon DEF SelectedFrom, SameFile
  <2>3. UNCHANGED <<files, disk, new_files>> /\ step' = "merge"
    BY <1>1, ZenonT(30) DEF SelectCompactionFiles
  <2>4. PutOnly(k)'
    BY <2>2, <2>3, StillPutOnly, Zenon DEF PutOnly
  <2> QED
    BY <2>3, <2>4, StillPresent, ZenonT(30) DEF Handed
<1>2. CASE MergeFiles
  <2>1. UNCHANGED files
    BY <1>2, Zenon DEF MergeFiles
  <2> QED
    BY <1>2, <2>1, MergeHandsOver, StillPresent, Zenon
<1>3. CASE MergeReadFails \/ MergeWriteFails
  <2>1. UNCHANGED <<files, new_files>> /\ step' = "idle" /\ all_inputs' = {}
    BY <1>3, Zenon DEF MergeReadFails, MergeWriteFails, JobGivenUp
  <2>2. PutOnly(k)'
    BY <2>1, StillPutOnly, Zenon DEF PutOnly
  <2> QED
    BY <2>1, <2>2, StillPresent, Zenon DEF Handed
<1>4. CASE AddOutput
  <2>1. PICK meta \in new_files : AddFile(meta) /\ new_files' = new_files \ {meta}
    BY <1>4, Zenon DEF AddOutput
  <2>2. UNCHANGED <<disk, all_inputs>> /\ step = "add"
    BY <1>4, Zenon DEF AddOutput
  <2>3. PICK added : files' = files \cup {added} /\ SameFile(added, meta)
    BY <2>1, AddedIs, Zenon DEF CatalogueInv, NamesInv, JobInv
  <2>4. SameFile(added, meta)
    BY <2>3, Zenon
  <2>5. PutOnly(k)'
    BY <2>1, <2>2, <2>3, <2>4, StillPutOnly, Zenon DEF PutOnly, SameFile
  <2>6. \A g \in Kept \cup new_files : \E h \in Kept' \cup new_files' : SameFile(h, g)
    <3>1. added.filepath \notin Paths(all_inputs)
      BY <2>4, Zenon DEF SameFile, CatalogueInv, FilesInv, Paths
    <3>2. added \in Kept' /\ Kept \subseteq Kept'
      BY <2>2, <2>3, <3>1, Zenon DEF Kept
    <3>3. \A g : SameFile(g, g)
      BY Zenon DEF SameFile
    <3> QED
      BY <2>1, <2>4, <3>2, <3>3, ZenonT(30)
  <2> QED
    BY <2>2, <2>3, <2>5, <2>6, StillHanded, StillPresent, Zenon
<1>5. CASE RemoveInput
  <2>1. PICK x \in all_inputs : files' = {f \in files : f.filepath # x.filepath}
    BY <1>5, Zenon DEF RemoveInput, RemoveFile
  <2>2. UNCHANGED <<disk, all_inputs, new_files>> /\ step = "remove"
    BY <1>5, Zenon DEF RemoveInput
  <2>3. new_files = {}
    BY <2>2, Zenon DEF CatalogueInv, JobInv
  <2>4. PutOnly(k)'
    BY <2>1, <2>2, StillPutOnly, Zenon DEF PutOnly
  <2>5. Kept \subseteq Kept' /\ Kept \subseteq files'
    BY <2>1, <2>2, Zenon DEF Kept, Paths
  <2>6. Handed(k)'
    <3>1. \A g : SameFile(g, g)
      BY ZenonT(30) DEF SameFile
    <3> QED
      BY <2>2, <2>3, <2>5, <3>1, StillHanded, Zenon
  <2>7. Present(k)'
    <3> SUFFICES ASSUME newest[k] # NoVersion PROVE \E f \in files' : Has(f, k)
      BY <2>2, Zenon DEF Present, NoVersion, Has
    <3>1. PICK f \in files : Has(f, k)
      BY Zenon DEF Present
    <3>2. CASE f \in files'
      BY <3>1, <3>2, Zenon
    <3>3. CASE f \notin files'
      <4>1. x.filepath = f.filepath
        BY <2>1, <3>3, Zenon
      <4>2. OnDisk(x) /\ Has(x, k)
        BY <3>1, <4>1, Zenon DEF OnDisk, Has, CatalogueInv, FilesInv, Paths
      <4>3. PICK g \in Kept : Has(g, k)
        BY <2>2, <2>3, <4>2, Zenon DEF Handed
      <4> QED
        BY <2>5, <4>3, Zenon
    <3> QED
      BY <3>2, <3>3, Zenon
  <2> QED
    BY <2>4, <2>6, <2>7, Zenon
<1>6. CASE UnlinkInput
  <2>1. PICK x \in all_inputs : all_inputs' = all_inputs \ {x}
    BY <1>6, Zenon DEF UnlinkInput
  <2>2. UNCHANGED <<files, new_files>> /\ step = "unlink"
    BY <1>6, Zenon DEF UnlinkInput
  <2>3. PutOnly(k)'
    BY <2>1, <2>2, StillPutOnly, Zenon DEF PutOnly
  <2>4. Kept \subseteq Kept'
    BY <2>1, <2>2, Zenon DEF Kept, Paths
  <2>5. Handed(k)'
    <3>1. \A g : SameFile(g, g)
      BY ZenonT(30) DEF SameFile
    <3> QED
      BY <2>1, <2>2, <2>4, <3>1, StillHanded, Zenon
  <2> QED
    BY <2>2, <2>3, <2>5, StillPresent, Zenon
<1> QED
  BY <1>1, <1>2, <1>3, <1>4, <1>5, <1>6, ZenonT(30) DEF Compact, RunCompaction

\* A flush that writes changes no file anyone looks at.
LEMMA FlushWriteKeepsKeys ==
  ASSUME CatalogueInv, CatalogueInv', [Next]_specVars,
         (\E table \in Table : FlushWrite(table)) \/ FlushWriteFails,
         UNCHANGED newest, NEW k, PutOnly(k), Handed(k), Present(k)
  PROVE  PutOnly(k)' /\ Handed(k)' /\ Present(k)'
<1>1. UNCHANGED <<files, step, all_inputs, new_files>>
  BY Zenon DEF FlushWrite, FlushWriteFails, jobVars
<1>2. Kept' = Kept
  BY <1>1, Zenon DEF Kept, Paths
<1>3. PutOnly(k)'
  BY <1>1, StillPutOnly, Zenon DEF PutOnly
<1>4. Handed(k)'
  <2>1. \A g : SameFile(g, g)
    BY Zenon DEF SameFile
  <2> QED
    BY <1>1, <1>2, <2>1, StillHanded, Zenon DEF Handed
<1> QED
  BY <1>1, <1>3, <1>4, StillPresent, Zenon

\* A new file brings versions of its keys, puts unless they enter `deleted'.
LEMMA FlushAddKeepsKeys ==
  ASSUME CatalogueInv, CatalogueInv', LevelsInv, [Next]_specVars,
         NEW meta \in pending, FlushAdd(meta),
         NEW k \in Key, PutOnly(k), Handed(k), Present(k),
         Has(meta, k) => disk[meta.filepath][k].kind # "delete",
         newest'[k] = IF Has(meta, k) THEN disk[meta.filepath][k] ELSE newest[k]
  PROVE  PutOnly(k)' /\ Handed(k)' /\ Present(k)'
<1>1. PICK added : files' = files \cup {added} /\ SameFile(added, meta)
  BY AddedIs, Zenon DEF FlushAdd, CatalogueInv, NamesInv, JobInv
<1>2. SameFile(added, meta)
  BY <1>1, Zenon
<1>3. UNCHANGED <<disk, step, all_inputs, new_files>>
  BY Zenon DEF FlushAdd, jobVars
<1>4. meta.filepath \in DOMAIN disk
  BY Zenon DEF CatalogueInv, FilesInv, Paths
<1>5. Has(meta, k) => disk[meta.filepath][k].kind = "put"
  <2>1. Has(meta, k) => disk[meta.filepath][k] \in [id : Nat, kind : {"put", "delete"}]
    BY <1>4, TableIs, CompactionConstants, Zenon DEF LevelsInv, ContentInv, Has
  <2> QED
    BY <2>1, Zenon
<1>6. PutOnly(k)'
  BY <1>1, <1>2, <1>3, <1>5, StillPutOnly, Zenon DEF PutOnly, SameFile, Has
<1>7. Handed(k)'
  <2>1. \A g : SameFile(g, g)
    BY Zenon DEF SameFile
  <2>2. Kept \subseteq Kept'
    BY <1>1, <1>3, Zenon DEF Kept
  <2> QED
    BY <1>3, <2>1, <2>2, StillHanded, Zenon DEF Handed
<1>8. Present(k)'
  <2>1. CASE Has(meta, k)
    <3>1. Has(added, k)'
      BY <1>2, <1>3, <2>1, Zenon DEF Has, SameFile
    <3> QED
      BY <1>1, <3>1, Zenon DEF Present
  <2>2. CASE ~ Has(meta, k)
    BY <1>1, <2>2, StillPresent, Zenon
  <2> QED
    BY <2>1, <2>2, Zenon
<1> QED
  BY <1>6, <1>7, <1>8, Zenon

\* Every step of CompactionAges.
LEMMA KeyInvNext ==
  CatalogueInv /\ CatalogueInv' /\ LevelsInv /\ KeyInv /\ [AgeNext]_ageVars => KeyInv'
<1> SUFFICES ASSUME CatalogueInv, CatalogueInv', LevelsInv, KeyInv, [AgeNext]_ageVars,
                    NEW k \in Key \ ({EmptyKey} \cup deleted')
             PROVE  PutOnly(k)' /\ Handed(k)' /\ Present(k)'
  BY Zenon DEF KeyInv, EmptyKey
<1>1. [Next]_specVars
  BY AgeStepIsStep, Zenon
<1>2. deleted \subseteq deleted'
  BY Zenon DEF AgeNext, ageVars
<1>3. k \in Key \ {EmptyKey} /\ PutOnly(k) /\ Handed(k) /\ Present(k)
  BY <1>2, Zenon DEF KeyInv
<1>4. CASE UNCHANGED ageVars
  BY <1>3, <1>4, Zenon DEF ageVars, specVars, compactionVars, jobVars, PutOnly, Handed, Present,
                    OnDisk, Has, Kept, Paths
<1>5. CASE Compact /\ UNCHANGED newest
  BY <1>1, <1>3, <1>5, JobKeepsKeys, Zenon
<1>6. CASE /\ (\E table \in FreshTables(next_sst_sequence) : FlushWrite(table)) \/ FlushWriteFails
           /\ UNCHANGED newest
  <2>1. (\E table \in Table : FlushWrite(table)) \/ FlushWriteFails
    BY <1>6, Zenon DEF FreshTables
  <2> QED
    BY <1>1, <1>3, <1>6, <2>1, FlushWriteKeepsKeys, Zenon
<1>7. ASSUME NEW meta \in pending, FlushAdd(meta),
             newest' = [x \in Key |-> IF x \in DOMAIN disk[meta.filepath]
                                      THEN disk[meta.filepath][x] ELSE newest[x]],
             deleted' = deleted \cup {x \in DOMAIN disk[meta.filepath] :
                                        disk[meta.filepath][x].kind = "delete"}
      PROVE  PutOnly(k)' /\ Handed(k)' /\ Present(k)'
  <2>1. Has(meta, k) => disk[meta.filepath][k].kind # "delete"
    BY <1>7, Zenon DEF Has
  <2>2. newest'[k] = IF Has(meta, k) THEN disk[meta.filepath][k] ELSE newest[k]
    BY <1>7, Zenon DEF Has
  <2> QED
    BY <1>1, <1>3, <1>7, <2>1, <2>2, FlushAddKeepsKeys, Zenon
<1> QED
  BY <1>4, <1>5, <1>6, <1>7, Zenon DEF AgeNext

\* A key that was flushed and never deleted is in a catalogued file at every
\* moment, whatever merges drop, remove and unlink, in whatever order flushes are
\* registered and whatever reads and writes fail (MergeFiles, RunCompaction).
THEOREM KeyAlwaysThere == AgeSpec => []KeyNeverVanishes
<1>1. AgeInit => KeyInv
  BY Zenon DEF AgeInit, Init, CompactionInit, KeyInv, PutOnly, Handed, Present, NoVersion
<1>2. KeyInv => KeyNeverVanishes
  BY Zenon DEF KeyInv, Present, KeyNeverVanishes
<1>3. AgeInit => CatalogueInv /\ LevelsInv
  BY CatalogueInvInit, LevelsInvInit, Zenon DEF AgeInit
<1> QED
  BY <1>1, <1>2, <1>3, AgeStepIsStep, CatalogueInvNext, LevelsInvNext, KeyInvNext, PTL
     DEF AgeSpec
----------------------------------------------------------------------------
(* The newest version is on top.                                           *)

\* f is where a lookup of k would stop if it looked at the files of S.
Top(S, f, k) ==
  /\ f \in S /\ Has(f, k)
  /\ \A g \in S \ {f} : Has(g, k) => SearchedBefore(f, g)

\* A lookup of k among the files that count finds the newest version, or finds none
\* and the newest is no put.
NewestOnTop(k) ==
  \/ newest[k].kind # "put" /\ \A f \in Live : ~ Has(f, k)
  \/ \E f \in Live : Top(Live, f, k) /\ disk[f.filepath][k] = newest[k]

\* The inductive invariant behind NewestUnlessContested.
NewestInv ==
  unranged = 0 => \A k \in Key \ ({EmptyKey} \cup contested) : NewestOnTop(k)

\* The order of a search is strict.
LEMMA SearchedOneWay ==
  ASSUME CatalogueInv, NEW f \in Held, NEW g \in Held, SearchedBefore(f, g), SearchedBefore(g, f)
  PROVE  FALSE
<1>1. /\ f.level \in Nat /\ g.level \in Nat
      /\ f.sequence_number \in Int /\ g.sequence_number \in Int
  BY Zenon DEF CatalogueInv, NamesInv, Named, Held
<1> QED
  BY <1>1 DEF SearchedBefore

\* Where nothing changes but entries being renumbered for the catalogue, the same
\* file is on top.
LEMMA TopCarried ==
  ASSUME CatalogueInv, CatalogueInv', [Next]_specVars, NEW k, NewestOnTop(k),
         newest'[k] = newest[k],
         NEW new, NEW old \in Live, SameFile(new, old),
         new.sequence_number = old.sequence_number,
         Live' = (Live \ {old}) \cup {new}
  PROVE  NewestOnTop(k)'
<1>1. ASSUME NEW f \in Live' PROVE f.filepath \in DOMAIN disk'
  BY Zenon DEF CatalogueInv, FilesInv, Paths, Live, Kept
<1>2. ASSUME NEW f \in Live \ {old}
      PROVE  /\ Has(f, k)' <=> Has(f, k)
             /\ disk'[f.filepath][k] = disk[f.filepath][k]
  BY <1>1, VersionsKept, LiveOnDisk, Zenon
<1>3. /\ Has(new, k)' <=> Has(old, k)
      /\ disk'[new.filepath][k] = disk[old.filepath][k]
      /\ new.level = old.level
  <2>1. new.filepath = old.filepath /\ new.level = old.level
    BY Zenon DEF SameFile
  <2>2. old \in Held /\ old.filepath \in DOMAIN disk'
    BY <1>1, <2>1, LiveOnDisk, Zenon
  <2>3. (Has(old, k)' <=> Has(old, k)) /\ disk'[old.filepath][k] = disk[old.filepath][k]
    BY <2>2, VersionsKept, Zenon
  <2> QED
    BY <2>1, <2>3, Zenon DEF Has
<1>4. CASE newest[k].kind # "put" /\ \A f \in Live : ~ Has(f, k)
  <2>1. \A f \in Live' : ~ Has(f, k)'
    BY <1>2, <1>3, <1>4, Zenon
  <2> QED
    BY <1>4, <2>1, Zenon DEF NewestOnTop
<1>5. ASSUME NEW f \in Live, Top(Live, f, k), disk[f.filepath][k] = newest[k]
      PROVE  NewestOnTop(k)'
  <2>1. CASE f = old
    <3>1. \A g \in Live' \ {new} : Has(g, k)' => SearchedBefore(new, g)
      BY <1>2, <1>3, <1>5, <2>1, Zenon DEF Top, SearchedBefore
    <3>2. Top(Live, new, k)'
      BY <1>3, <1>5, <2>1, <3>1, Zenon DEF Top, SearchedBefore
    <3> QED
      BY <1>3, <1>5, <2>1, <3>2, Zenon DEF NewestOnTop
  <2>2. CASE f # old
    <3>1. \A g \in Live' \ {f} : Has(g, k)' => SearchedBefore(f, g)
      BY <1>2, <1>3, <1>5, <2>2, Zenon DEF Top, SearchedBefore
    <3>2. Top(Live, f, k)'
      BY <1>2, <1>5, <2>2, <3>1, Zenon DEF Top, SearchedBefore
    <3> QED
      BY <1>2, <1>5, <2>2, <3>2, Zenon DEF NewestOnTop
  <2> QED
    BY <2>1, <2>2, Zenon
<1> QED
  BY <1>4, <1>5, Zenon DEF NewestOnTop

\* A step that neither flushes k nor changes the files that count keeps what is on top.
LEMMA TopKept ==
  ASSUME CatalogueInv, CatalogueInv', [Next]_specVars, NEW k, NewestOnTop(k),
         newest'[k] = newest[k], Live' = Live
  PROVE  NewestOnTop(k)'
<1>1. CASE Live = {}
  BY <1>1, Zenon DEF NewestOnTop
<1>2. CASE Live # {}
  <2>1. PICK old \in Live : TRUE
    BY <1>2, Zenon
  <2>2. SameFile(old, old) /\ Live' = (Live \ {old}) \cup {old}
    BY Zenon DEF SameFile
  <2> QED
    BY <2>1, <2>2, TopCarried, Zenon
<1> QED
  BY <1>1, <1>2, Zenon

\* The file that a flush registers is searched first.
LEMMA FlushedOnTop ==
  ASSUME CatalogueInv, CatalogueInv', AgesInv, LevelsInv, [Next]_specVars,
         NEW meta \in pending, FlushAdd(meta), NEW k \in Key, NewestOnTop(k),
         newest'[k] = IF Has(meta, k) THEN disk[meta.filepath][k] ELSE newest[k]
  PROVE  NewestOnTop(k)'
<1>1. PICK added : /\ files' = files \cup {added} /\ SameFile(added, meta)
                   /\ added.sequence_number = meta.sequence_number
  BY AddedIs, Zenon DEF FlushAdd, CatalogueInv, NamesInv, JobInv
<1>2. UNCHANGED <<disk, step, all_inputs, new_files>>
  BY Zenon DEF FlushAdd, jobVars
<1>3. Live' = Live \cup {added}
  <2>1. added.filepath \notin Paths(all_inputs)
    BY <1>1, Zenon DEF SameFile, CatalogueInv, FilesInv, Paths
  <2>2. Kept' = Kept \cup {added}
    BY <1>1, <1>2, <2>1, Zenon DEF Kept, Paths
  <2> QED
    BY <1>1, <1>2, <2>2, Zenon DEF Live
<1>4. added.level = 0 /\ added.filepath = meta.filepath /\ meta \in Held
      /\ added.sequence_number = meta.filepath[2]
  BY <1>1, Zenon DEF SameFile, CatalogueInv, NamesInv, Held, AgesInv
<1>5. \A f : (Has(f, k)' <=> Has(f, k)) /\ disk'[f.filepath][k] = disk[f.filepath][k]
  BY <1>2, Zenon DEF Has
<1>6. CASE Has(meta, k)
  <2>1. Has(added, k)
    BY <1>4, <1>6, Zenon DEF Has
  <2>2. ASSUME NEW g \in Live \ {added}, Has(g, k) PROVE SearchedBefore(added, g)
    <3>1. g \in Held /\ g \in Catalogued /\ OnDisk(g)
      BY LiveOnDisk, Zenon
    <3>2. g.level \in Nat
      BY <3>1, Zenon DEF CatalogueInv, NamesInv, Named, Held
    <3>3. CASE g.level = 0
      <4>1. g \in files
        <5>1. g \in files \cup new_files
          BY Zenon DEF Live, Kept
        <5> QED
          BY <3>3, <5>1, Zenon DEF CatalogueInv, NamesInv
      <4>2. /\ Age(g, k) < meta.filepath[2] /\ Age(g, k) = g.filepath[2]
            /\ g.sequence_number = g.filepath[2]
        BY <2>2, <3>1, <3>3, <4>1, Zenon DEF AgesInv, Has
      <4> QED
        BY <1>4, <3>3, <4>2, Zenon DEF SearchedBefore
    <3>4. CASE g.level # 0
      BY <1>4, <3>2, <3>4 DEF SearchedBefore
    <3> QED
      BY <3>3, <3>4, Zenon
  <2>3. Top(Live, added, k)'
    BY <1>3, <1>5, <2>1, <2>2, Zenon DEF Top, SearchedBefore
  <2>4. disk'[added.filepath][k] = newest'[k]
    BY <1>4, <1>5, <1>6, Zenon
  <2> QED
    BY <1>3, <2>3, <2>4, Zenon DEF NewestOnTop
<1>7. CASE ~ Has(meta, k)
  <2>1. ~ Has(added, k)
    BY <1>4, <1>7, Zenon DEF Has
  <2>2. CASE newest[k].kind # "put" /\ \A f \in Live : ~ Has(f, k)
    <3>1. \A f \in Live' : ~ Has(f, k)'
      BY <1>3, <1>5, <2>1, <2>2, Zenon
    <3> QED
      BY <1>7, <2>2, <3>1, Zenon DEF NewestOnTop
  <2>3. ASSUME NEW f \in Live, Top(Live, f, k), disk[f.filepath][k] = newest[k]
        PROVE  NewestOnTop(k)'
    <3>1. \A g \in Live' \ {f} : Has(g, k) => SearchedBefore(f, g)
      BY <1>3, <2>1, <2>3, Zenon DEF Top
    <3>2. Top(Live, f, k)'
      BY <1>3, <1>5, <2>3, <3>1, Zenon DEF Top, SearchedBefore
    <3> QED
      BY <1>3, <1>5, <1>7, <2>3, <3>2, Zenon DEF NewestOnTop
  <2> QED
    BY <2>2, <2>3, Zenon DEF NewestOnTop
<1> QED
  BY <1>6, <1>7, Zenon

\* Every key the merge emits is in an output.
LEMMA OutputHas ==
  ASSUME CatalogueInv, LevelsInv, MergeFiles, NEW k \in MergedKeys
  PROVE  \E b \in new_files' : Has(b, k)'
<1>1. PICK m \in 0 .. MaxOutputs : \E part \in Splits(m) : \E size :
        /\ disk' = WithOutputs(part, m)
        /\ new_files' = {OutputMeta(part, j, size[j]) : j \in 1 .. m}
  BY MergeWrites, Zenon
<1>2. PICK part, size :
        /\ part \in Splits(m) /\ disk' = WithOutputs(part, m)
        /\ new_files' = {OutputMeta(part, j, size[j]) : j \in 1 .. m}
  BY <1>1
<1>3. m \in Nat /\ JobInv /\ ContentInv /\ InputsReadable
  BY DEF CatalogueInv, LevelsInv, MergeFiles
<1>4. part \in [MergedKeys -> 1 .. m]
  BY <1>2, ZenonT(30) DEF Splits, Surjection
<1>5. PICK j \in 1 .. m : k \in PartKeys(part, j)
  BY <1>4, ZenonT(30) DEF PartKeys
<1>6. OutputMeta(part, j, size[j]).filepath = OutputPath(j)
  BY <1>2, <1>3, OutputIs, Zenon
<1>7. disk'[OutputPath(j)] = [x \in PartKeys(part, j) |-> Merged[x]]
  BY <1>2, <1>3, OutputsWritten, Zenon
<1>8. PICK b \in new_files' : b.filepath = OutputPath(j)
  BY <1>2, <1>6, ZenonT(30)
<1> QED
  BY <1>5, <1>7, <1>8, Zenon DEF Has

\* A merge that leaves no key to chance passes the version on top on.
LEMMA MergedOnTop ==
  ASSUME CatalogueInv, CatalogueInv', LevelsInv, LevelsInv', AgesInv, PrecedenceInv, OrderInv,
         [Next]_specVars, Compact, MergeFiles, unranged = 0,
         NEW k \in Key \ {EmptyKey}, k \notin ContestedNow, NewestOnTop(k),
         newest'[k] = newest[k]
  PROVE  NewestOnTop(k)'
<1>1. /\ step = "merge" /\ step' \in {"add", "remove"} /\ target_level \in Nat \ {0}
      /\ UNCHANGED <<files, all_inputs>> /\ InputsReadable /\ ContentInv
      /\ unranged' = 0
  BY ZenonT(30) DEF MergeFiles, CatalogueInv, JobInv, LevelsInv, Compact
<1>2. Live' = Kept \cup new_files' /\ Kept \subseteq files /\ Live = files
  BY <1>1, ZenonT(30) DEF Live, Kept, Paths
<1>3. \A f \in Kept : /\ Has(f, k)' <=> Has(f, k)
                      /\ f \in Held /\ OnDisk(f) /\ f.level \in Nat
                      /\ disk'[f.filepath][k] = disk[f.filepath][k]
  BY MergeKeeps, Zenon
<1> DEFINE w == Winner(k)
<1>4. ASSUME NEW b \in new_files', Has(b, k)'
      PROVE  /\ b.level = target_level /\ k \in MergedKeys
             /\ w \in all_inputs /\ Has(w, k) /\ OnDisk(w)
             /\ disk'[b.filepath][k] = disk[w.filepath][k]
  BY <1>4, OutputFrom, Zenon
<1>5. ASSUME NEW x \in all_inputs, Has(x, k)
      PROVE  /\ OnDisk(x) /\ x.level \in Nat /\ x.level \in {target_level - 1, target_level}
             /\ \E h \in files : SameFile(x, h) /\ Has(h, k)
  <2>1. OnDisk(x)
    BY <1>1, ZenonT(30) DEF InputsReadable, CanRead, OnDisk
  <2> QED
    BY <1>1, <1>5, <2>1, InputFrom, ZenonT(30)
<1>6. CASE newest[k].kind # "put" /\ \A f \in Live : ~ Has(f, k)
  <2>1. \A f \in Live' : ~ Has(f, k)'
    BY <1>2, <1>3, <1>4, <1>5, <1>6, ZenonT(30)
  <2> QED
    BY <1>6, <2>1, ZenonT(30) DEF NewestOnTop
<1>7. ASSUME NEW t \in files, Top(files, t, k), disk[t.filepath][k] = newest[k]
      PROVE  NewestOnTop(k)'
  <2>1. Has(t, k) /\ \A g \in files \ {t} : Has(g, k) => SearchedBefore(t, g)
    BY <1>7, Zenon DEF Top
  <2>2. /\ \A g \in files : g.level \in Nat /\ g.sequence_number \in Int /\ g.level < max_level
        /\ \A g \in files : g \in Held /\ OnDisk(g)
    BY <1>1, <1>2, LiveOnDisk, Zenon DEF CatalogueInv, NamesInv, Named, ContentInv, Held
  <2>3. CASE t \in Kept
    <3>1. ASSUME NEW b \in new_files', Has(b, k)' PROVE SearchedBefore(t, b)
      <4>1. w \in all_inputs /\ Has(w, k) /\ b.level = target_level
        BY <1>4, <3>1, Zenon
      <4> HIDE DEF w
      <4>2. PICK h \in files : SameFile(w, h) /\ Has(h, k)
        BY <1>5, <4>1, Zenon
      <4>3. h # t
        BY <2>3, <4>1, <4>2, Zenon DEF Kept, Paths, SameFile
      <4>4. t.level <= w.level
        BY <2>1, <2>2, <4>2, <4>3 DEF SearchedBefore, SameFile
      <4>5. t.level # target_level
        <5> SUFFICES ASSUME t.level = target_level PROVE FALSE
          BY Zenon
        <5>1. OnDisk(w) /\ t.level > 0
          BY <1>1, <1>5, <4>1, SMTT(30)
        <5> QED
          BY <1>1, <2>1, <2>3, <4>1, <5>1, KeptApart, Zenon
      <4>6. t.level < target_level
        BY <1>1, <1>5, <2>2, <4>1, <4>4, <4>5, SMTT(30)
      <4> QED
        BY <4>1, <4>6, Zenon DEF SearchedBefore
    <3>2. \A g \in Live' \ {t} : Has(g, k)' => SearchedBefore(t, g)
      BY <1>2, <1>3, <2>1, <3>1, Zenon
    <3>3. Top(Live, t, k)' /\ disk'[t.filepath][k] = newest'[k]
      BY <1>2, <1>3, <1>7, <2>1, <2>3, <3>2, Zenon DEF Top, SearchedBefore
    <3> QED
      BY <3>3, Zenon DEF NewestOnTop, Top
  <2>4. CASE t \notin Kept
    <3>1. PICK x \in all_inputs : x.filepath = t.filepath
      BY <2>4, Zenon DEF Kept, Paths
    <3>2. Has(x, k)
      BY <2>1, <3>1, Zenon DEF Has
    <3>3. SameFile(x, t)
      <4>1. PICK h \in files : SameFile(x, h)
        BY <1>5, <3>2, Zenon
      <4>2. h = t
        BY <3>1, <4>1, Zenon DEF SameFile, CatalogueInv, FilesInv, OnePathEach
      <4> QED
        BY <4>1, <4>2, Zenon
    <3>4. w \in all_inputs /\ Has(w, k) /\ x.sequence_number <= w.sequence_number
      BY <1>1, <3>2, WinnerIs, Zenon
    <3> HIDE DEF w
    <3>5. disk[w.filepath][k] = newest[k]
      <4> SUFFICES ASSUME w.filepath # t.filepath PROVE FALSE
        BY <1>7, Zenon
      <4>1. PICK h \in files : SameFile(w, h) /\ Has(h, k)
        BY <1>5, <3>4, Zenon
      <4>2. h # t /\ SearchedBefore(t, h)
        BY <2>1, <4>1, Zenon DEF SameFile
      <4>3. CASE t.level < h.level
        <5>1. x.level < w.level
          BY <3>3, <4>1, <4>3, Zenon DEF SameFile
        <5>2. x.sequence_number > w.sequence_number
          BY <1>1, <3>4, <5>1, ZenonT(30) DEF PrecedenceInv
        <5> QED
          BY <1>1, <3>4, <5>2 DEF ContentInv
      <4>4. CASE t.level = h.level /\ t.level > 0
        <5>1. Apart(t, h)
          BY <1>2, <4>2, <4>4, Zenon DEF LevelsInv, DisjointInv, DeepDisjoint
        <5>2. Covers(t) /\ Covers(h) /\ k \in Nat
          BY <2>2, CompactionConstants, Zenon DEF LevelsInv, RangeInv, OnDisk
        <5> QED
          BY <2>1, <4>1, <5>1, <5>2 DEF Apart, Covers, Has
      <4>5. CASE t.level = 0 /\ h.level = 0
        <5>1. x.level = target_level - 1 /\ w.level = target_level - 1
          BY <1>1, <1>5, <3>2, <3>3, <3>4, <4>1, <4>5, Zenon DEF SameFile
        <5>2. x # w
          BY <3>1, Zenon
        <5>3. k \in ContestedNow
          BY <3>2, <3>4, <5>1, <5>2, ZenonT(30) DEF ContestedNow
        <5> QED
          BY <5>3, Zenon
      <4> QED
        BY <2>2, <4>2, <4>3, <4>4, <4>5 DEF SearchedBefore
    <3>6. ASSUME NEW g \in Kept, Has(g, k) PROVE target_level < g.level
      <4>1. SearchedBefore(t, g) /\ g.level \in Nat /\ OnDisk(x)
        BY <1>2, <1>5, <2>1, <2>2, <2>4, <3>2, <3>6, Zenon
      <4>2. x.level = t.level /\ x.level \in Nat /\ x.level \in {target_level - 1, target_level}
        BY <1>5, <3>2, <3>3, Zenon DEF SameFile
      <4>3. ASSUME g.level > 0, g.level = x.level \/ g.level = target_level PROVE FALSE
        BY <1>1, <3>2, <3>6, <4>1, <4>3, KeptApart, ZenonT(30)
      <4>4. ASSUME g.level = 0, t.level = 0, t.sequence_number > g.sequence_number PROVE FALSE
        <5>1. target_level = 1
          BY <1>1, <4>2, <4>4
        <5>2. Age(x, k) <= Age(g, k)
          BY <1>1, <3>2, <3>6, <4>4, <5>1, Zenon DEF OrderInv
        <5>3. Age(t, k) = t.sequence_number /\ Age(g, k) = g.sequence_number
          BY <1>2, <2>1, <2>2, <3>6, <4>4, Zenon DEF AgesInv, Has
        <5>4. Age(x, k) = Age(t, k)
          BY <3>1, Zenon DEF Age
        <5> QED
          BY <1>2, <2>2, <4>4, <5>2, <5>3, <5>4, SMTT(30)
      <4> QED
        BY <1>1, <2>2, <4>1, <4>2, <4>3, <4>4, SMTT(30) DEF SearchedBefore
    <3>7. CASE k \in MergedKeys
      <4>1. PICK b \in new_files' : Has(b, k)'
        BY <3>7, OutputHas, Zenon
      <4>2. b.level = target_level /\ disk'[b.filepath][k] = newest'[k]
        BY <1>4, <3>5, <4>1, ZenonT(30)
      <4>3. ASSUME NEW c \in new_files', Has(c, k)' PROVE c = b
        <5> SUFFICES ASSUME c # b PROVE FALSE
          BY Zenon
        <5>1. c.level = b.level /\ b.level > 0
          BY <1>1, <1>4, <4>2, <4>3
        <5>2. Apart(c, b)
          BY <1>1, <1>2, <5>1, Zenon DEF LevelsInv, DisjointInv, DeepDisjoint
        <5>3. Covers(b)' /\ Covers(c)' /\ k \in Nat
          BY <1>1, CompactionConstants, Zenon
             DEF LevelsInv, RangeInv, Held, CatalogueInv, FilesInv, Paths
        <5> QED
          BY <4>1, <4>3, <5>2, <5>3 DEF Apart, Covers, Has
      <4>4. \A g \in Live' \ {b} : Has(g, k)' => SearchedBefore(b, g)
        BY <1>2, <1>3, <3>6, <4>2, <4>3, Zenon DEF SearchedBefore
      <4>5. Top(Live, b, k)'
        BY <1>2, <4>1, <4>4, Zenon DEF Top, SearchedBefore
      <4> QED
        BY <4>2, <4>5, Zenon DEF NewestOnTop, Top
    <3>8. CASE k \notin MergedKeys
      <4>1. target_level = max_level - 1 /\ newest[k].kind = "delete"
        <5>1. k \in UNION {DOMAIN disk[f.filepath] : f \in all_inputs}
          BY <3>2, Zenon DEF Has
        <5>2. target_level = max_level - 1 /\ disk[Winner(k).filepath][k].kind = "delete"
          BY <3>8, <5>1, Zenon DEF MergedKeys
        <5> QED
          BY <3>5, <5>2, Zenon DEF w
      <4>2. \A g \in Kept : ~ Has(g, k)
        BY <1>1, <1>2, <2>2, <3>6, <4>1, CompactionConstants, SMTT(30)
      <4>3. \A f \in Live' : ~ Has(f, k)'
        BY <1>2, <1>3, <1>4, <3>8, <4>2, ZenonT(30)
      <4> QED
        BY <4>1, <4>3, Zenon DEF NewestOnTop
    <3> QED
      BY <3>7, <3>8, Zenon
  <2> QED
    BY <2>3, <2>4, Zenon
<1> QED
  BY <1>2, <1>6, <1>7, Zenon DEF NewestOnTop

\* Every step of CompactionAges.
LEMMA NewestInvNext ==
  ASSUME AgesAreOrdered, AgesAreOrdered', NewestInv, [AgeNext]_ageVars
  PROVE  NewestInv'
<1> USE DEF AgesAreOrdered
<1> SUFFICES ASSUME unranged' = 0, NEW k \in Key \ ({EmptyKey} \cup contested')
             PROVE  NewestOnTop(k)'
  BY ZenonT(30) DEF NewestInv, EmptyKey
<1>1. [Next]_specVars
  BY AgeStepIsStep, ZenonT(30)
<1>2. contested \subseteq contested'
  BY ZenonT(30) DEF AgeNext, ageVars
<1>3. unranged = 0 /\ k \in Key \ {EmptyKey} /\ NewestOnTop(k)
  <2>1. unranged = 0
    BY <1>1, RangedBefore, ZenonT(30) DEF LevelsInv
  <2> QED
    BY <1>2, <2>1, ZenonT(30) DEF NewestInv
<1>4. CASE UNCHANGED <<files, step, all_inputs, new_files, newest>>
  <2>1. Live' = Live
    BY <1>4, Zenon DEF Live, Kept, Paths
  <2> QED
    BY <1>1, <1>3, <1>4, <2>1, TopKept, ZenonT(30)
<1>5. ASSUME Compact, UNCHANGED newest,
             (step = "merge" /\ step' # "idle") => contested' = contested \cup ContestedNow
      PROVE  NewestOnTop(k)'
  <2>1. CASE SelectCompactionFiles
    <3>1. Live' = Live
      BY <2>1, Zenon DEF SelectCompactionFiles, Live
    <3> QED
      BY <1>1, <1>3, <1>5, <3>1, TopKept, Zenon
  <2>2. CASE MergeFiles
    <3>1. step = "merge" /\ step' # "idle"
      BY <2>2, Zenon DEF MergeFiles
    <3>2. k \notin ContestedNow
      BY <1>5, <3>1, Zenon
    <3> QED
      BY <1>1, <1>3, <1>5, <2>2, <3>2, MergedOnTop, Zenon
  <2>3. CASE MergeReadFails \/ MergeWriteFails \/ RemoveInput \/ UnlinkInput
    <3>1. Live' = Live
      BY <2>3, LiveKept, Zenon
    <3> QED
      BY <1>1, <1>3, <1>5, <3>1, TopKept, ZenonT(30)
  <2>4. CASE AddOutput
    <3>1. PICK meta \in new_files : AddFile(meta) /\ new_files' = new_files \ {meta}
      BY <2>4, Zenon DEF AddOutput
    <3>2. PICK added : /\ files' = files \cup {added} /\ SameFile(added, meta)
                       /\ added.sequence_number = meta.sequence_number
      BY <3>1, AddedIs, Zenon DEF CatalogueInv, NamesInv, JobInv
    <3>3. step = "add" /\ step' \in {"add", "remove"} /\ all_inputs' = all_inputs
      BY <2>4, Zenon DEF AddOutput
    <3>4. meta.filepath \notin Paths(files) \cup Paths(all_inputs)
      BY Zenon DEF CatalogueInv, FilesInv, Paths
    <3>5. Kept' = Kept \cup {added} /\ meta \notin Kept
      BY <3>2, <3>3, <3>4, Zenon DEF Kept, Paths, SameFile
    <3>6. Live' = (Live \ {meta}) \cup {added} /\ meta \in Live
      BY <3>1, <3>3, <3>5, Zenon DEF Live
    <3> QED
      BY <1>1, <1>3, <1>5, <3>2, <3>6, TopCarried, Zenon
  <2> QED
    BY <1>5, <2>1, <2>2, <2>3, <2>4, Zenon DEF Compact, RunCompaction
<1>6. ASSUME NEW meta \in pending, FlushAdd(meta),
             newest' = [x \in Key |-> IF x \in DOMAIN disk[meta.filepath]
                                      THEN disk[meta.filepath][x] ELSE newest[x]]
      PROVE  NewestOnTop(k)'
  <2>1. newest'[k] = IF Has(meta, k) THEN disk[meta.filepath][k] ELSE newest[k]
    BY <1>3, <1>6, Zenon DEF Has
  <2> QED
    BY <1>1, <1>3, <1>6, <2>1, FlushedOnTop, Zenon
<1>7. CASE \/ UNCHANGED ageVars
           \/ /\ \/ \E table \in FreshTables(next_sst_sequence) : FlushWrite(table)
                 \/ FlushWriteFails
              /\ UNCHANGED newest
  <2>1. UNCHANGED <<files, step, all_inputs, new_files, newest>>
    BY <1>7, Zenon DEF ageVars, specVars, compactionVars, jobVars, FlushWrite, FlushWriteFails
  <2> QED
    BY <1>4, <2>1, Zenon
<1> QED
  BY <1>5, <1>6, <1>7, ZenonT(30) DEF AgeNext

\* With one flush under way at a time, and as long as every new file could be read
\* back, a lookup outside compactions finds the newest version ever registered, or
\* nothing when that is a tombstone, of every key that no merge met in two source
\* files; the last level drops tombstones and nothing older comes to light.
THEOREM NewestAlwaysUnlessContested ==
  ASSUME MaxPending <= 1
  PROVE  AgeSpec => []NewestUnlessContested
<1>1. AgesAreOrdered /\ NewestInv => NewestUnlessContested
  <2> SUFFICES ASSUME AgesAreOrdered, NewestInv, unranged = 0, step = "idle",
                      NEW k \in Key \ ({EmptyKey} \cup contested)
               PROVE  /\ newest[k].kind = "put" => \E f \in files : Has(f, k)
                      /\ \A f \in files : FoundIn(f, k) => disk[f.filepath][k] = newest[k]
    BY Zenon DEF NewestUnlessContested, EmptyKey
  <2>1. Live = files /\ NewestOnTop(k) /\ CatalogueInv
    BY Zenon DEF Live, NewestInv, AgesAreOrdered
  <2>2. ASSUME NEW f \in files, FoundIn(f, k), NEW t \in files, Top(files, t, k) PROVE f = t
    BY <2>1, <2>2, SearchedOneWay, Zenon DEF FoundIn, Top, Held
  <2> QED
    BY <2>1, <2>2, Zenon DEF NewestOnTop, Top, FoundIn
<1>2. AgeInit => NewestInv
  BY DEF AgeInit, Init, CompactionInit, NewestInv, NewestOnTop, NoVersion, Live
<1>3. AgesAreOrdered /\ AgesAreOrdered' /\ NewestInv /\ [AgeNext]_ageVars => NewestInv'
  BY NewestInvNext, ZenonT(30)
<1> QED
  BY <1>1, <1>2, <1>3, AgesAreOrderedInit, AgesAreOrderedNext, PTL DEF AgeSpec
=============================================================================
