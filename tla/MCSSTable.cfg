SPECIFICATION SSTableSpec
CONSTANTS
  MaxKey = 2
  Key <- MCKey
  DataSize = {1, 4}
  kMaxHeight = 3
  EntryOverhead = 2
  kTargetBlockSize = 9
  HashLimit = 2
  num_bits = 3
  num_hash_functions = 2
INVARIANTS GetMatchesMap LevelsAreSorted MemoryIsAccounted
INVARIANTS GetFindsWhatWasWritten ReadAllReturnsTheRun
CHECK_DEADLOCK FALSE
