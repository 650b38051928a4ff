------------------------------- MODULE SSTable -------------------------------
(***************************************************************************)
(* The way of a memtable into an SSTable file and back: SSTableWriter cuts *)
(* what the skip list's iterator delivers into blocks and describes them   *)
(* in an index and a Bloom filter, SSTableReader finds the entries again.  *)
(* Flushes and compactions write all their files this way.  Bytes are kept *)
(* as the sizes of the blocks and the offsets the index gives them; the    *)
(* hashes of a key are arbitrary numbers of the width HashLimit.           *)
(***************************************************************************)
EXTENDS SkipList

CONSTANTS
  EntryOverhead,     \* bytes of an encoded entry beyond its data
  kTargetBlockSize,
  HashLimit,         \* 2^32 in the code
  num_bits,          \* bits of the filter
  num_hash_functions

ASSUME SSTableConstants ==
  {EntryOverhead, kTargetBlockSize, HashLimit, num_bits, num_hash_functions}
    \subseteq Nat \ {0}

VARIABLES
  hash,     \* the two hashes of every key
  file,     \* the file on disk
  answer    \* the result of the last call of the reader

sstVars == <<listVars, hash, file, answer>>

HeaderSize == 4
Absent == [found |-> "no"]
----------------------------------------------------------------------------
(* The writer.                                                             *)

\* What the iterator delivers.
AllEntries == [i \in 1 .. Len(Level(1)) |-> [key |-> Level(1)[i], value |-> value[Level(1)[i]]]]

EncodedSize(entry) == EntryOverhead + entry.value.data

BlockSize(block) == FoldLeft(LAMBDA sum, e : sum + EncodedSize(e), HeaderSize, block)

\* Block::Add: the first entry of a block always fits.
AddEntry(blocks, entry) ==
  IF blocks # <<>> /\ BlockSize(Last(blocks)) + EncodedSize(entry) <= kTargetBlockSize
  THEN Front(blocks) \o <<Append(Last(blocks), entry)>>
  ELSE Append(blocks, <<entry>>)

\* The last block, not full, is never flushed.
BlocksButLast(run) == Front(FoldLeft(AddEntry, <<>>, run))

Blocks(run) == FoldLeft(AddEntry, <<>>, run)

Index(blocks) ==
  [i \in 1 .. Len(blocks) |->
     [last_key |-> Last(blocks[i]).key,
      block_offset |-> FoldLeft(LAMBDA sum, b : sum + BlockSize(b), 0, SubSeq(blocks, 1, i - 1)),
      block_size |-> BlockSize(blocks[i])]]

\* (h1 + i * h2) % num_bits, in unsigned arithmetic.
BitPositions(key) ==
  {((hash[key][1] + i * hash[key][2]) % HashLimit) % num_bits :
     i \in 0 .. num_hash_functions - 1}

Bloom(run) == UNION {BitPositions(run[i].key) : i \in 1 .. Len(run)}

Sections == <<"blocks", "bloom", "index", "footer">>

\* The file after the first n sections have been written.
FileOf(run, n) ==
  [blocks |-> Blocks(run), bloom |-> Bloom(run), index |-> Index(Blocks(run)),
   num_entries |-> Len(run), sections |-> SubSeq(Sections, 1, n)]
----------------------------------------------------------------------------
(* The reader.                                                             *)

\* Open: the magic number is the end of the footer, the last section written.
Opens == Len(file.sections) = Len(Sections)

MayContain(key) == BitPositions(key) \subseteq file.bloom

\* Smaller keys are not searched for.
CandidateGreater(key) ==
  LET search[lo \in 1 .. Len(file.index) + 1, hi \in 0 .. Len(file.index),
             candidate \in 0 .. Len(file.index)] ==
        LET mid == lo + (hi - lo) \div 2
        IN  IF lo > hi THEN candidate
            ELSE IF file.index[mid].last_key > key THEN search[lo, mid - 1, mid]
            ELSE search[mid + 1, hi, candidate]
  IN  search[1, Len(file.index), 0]

\* The binary search for the first index entry whose last_key >= key; 0 for none.
Candidate(key) ==
  LET search[lo \in 1 .. Len(file.index) + 1, hi \in 0 .. Len(file.index),
             candidate \in 0 .. Len(file.index)] ==
        LET mid == lo + (hi - lo) \div 2
        IN  IF lo > hi THEN candidate
            ELSE IF file.index[mid].last_key >= key THEN search[lo, mid - 1, mid]
            ELSE search[mid + 1, hi, candidate]
  IN  search[1, Len(file.index), 0]

\* The block that starts at the offset; a reader given another offset would
\* decode the middle of some block.
ReadBlock(index_entry) ==
  LET starts(i) == FoldLeft(LAMBDA sum, b : sum + BlockSize(b), 0, SubSeq(file.blocks, 1, i - 1))
  IN  file.blocks[CHOOSE i \in 1 .. Len(file.blocks) :
        starts(i) = index_entry.block_offset /\ BlockSize(file.blocks[i]) = index_entry.block_size]

\* Block::Get, a binary search.
GetInBlock(block, key) ==
  LET search[lo \in 1 .. Len(block) + 1, hi \in 0 .. Len(block)] ==
        LET mid == lo + (hi - lo) \div 2
        IN  IF lo > hi THEN Absent
            ELSE IF block[mid].key = key THEN [found |-> "yes", entry |-> block[mid]]
            ELSE IF block[mid].key < key THEN search[mid + 1, hi]
            ELSE search[lo, mid - 1]
  IN  search[1, Len(block)]

\* SSTableReader::Get.
GetResult(key) ==
  IF ~ MayContain(key) \/ Candidate(key) = 0 THEN Absent
  ELSE GetInBlock(ReadBlock(file.index[Candidate(key)]), key)

\* SSTableReader::ReadAll.
ReadAllResult ==
  FoldLeft(LAMBDA all, index_entry : all \o ReadBlock(index_entry), <<>>, file.index)
----------------------------------------------------------------------------
NoFile == [sections |-> <<>>]
NoAnswer == [call |-> "none"]

SSTableInit ==
  /\ SkipListInit
  /\ hash \in [Key -> (0 .. HashLimit - 1) \X (0 .. HashLimit - 1)]
  /\ file = NoFile
  /\ answer = NoAnswer

\* The memtable takes writes until it is flushed.
Fill ==
  /\ file = NoFile
  /\ SkipListNext
  /\ UNCHANGED <<hash, file, answer>>

\* An empty memtable is refused, and its file removed again.  A write error ends
\* SSTableWriter::Write and leaves what is written so far.
Write ==
  /\ file = NoFile
  /\ AllEntries # <<>>
  /\ \E n \in 0 .. Len(Sections) : file' = FileOf(AllEntries, n)
  /\ UNCHANGED <<listVars, hash, answer>>

\* A reader opens the file and looks a key up.
ReaderGet(key) ==
  /\ file # NoFile /\ answer = NoAnswer
  /\ answer' = IF Opens THEN [call |-> "get", key |-> key, result |-> GetResult(key)]
               ELSE [call |-> "refused"]
  /\ UNCHANGED <<listVars, hash, file>>

\* A reader opens the file and reads all of it.
ReaderReadAll ==
  /\ file # NoFile /\ answer = NoAnswer
  /\ answer' = IF Opens THEN [call |-> "all", result |-> ReadAllResult]
               ELSE [call |-> "refused"]
  /\ UNCHANGED <<listVars, hash, file>>

SSTableNext == Fill \/ Write \/ ReaderReadAll \/ \E key \in Key : ReaderGet(key)

SSTableSpec == SSTableInit /\ [][SSTableNext]_sstVars
----------------------------------------------------------------------------
(* Properties.                                                             *)

\* Get on the file answers with exactly the last value or tombstone the memtable
\* was given for the key, and with nothing for any other key, wherever the block
\* boundaries fall and however the hashes collide.
GetFindsWhatWasWritten ==
  answer.call = "get" =>
    answer.result = IF contents[answer.key] = Nothing THEN Absent
                    ELSE [found |-> "yes",
                          entry |-> [key |-> answer.key, value |-> contents[answer.key]]]

\* ReadAll returns each key of the memtable once, in order and with its last
\* value: what compaction merges.
ReadAllReturnsTheRun ==
  answer.call = "all" =>
    /\ \A i \in 1 .. Len(answer.result) - 1 : answer.result[i].key < answer.result[i + 1].key
    /\ ToSet(answer.result) =
         {[key |-> k, value |-> contents[k]] : k \in {j \in Key : contents[j] # Nothing}}
=============================================================================
