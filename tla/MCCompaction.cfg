SPECIFICATION AgeSpec
CONSTANTS
  MinKey = 1
  MaxKey = 2
  MaxId = 3
  Kinds = {"put", "delete"}
  Key <- MCKey
  Version <- MCVersion
  max_level = 3
  kLevel0CompactionTrigger = 1
  kLevel1MaxBytes = 1
  kLevelMultiplier = 1
  MaxOutputs = 2
  MaxIoErrors = 1
  MaxFlushes = 3
  MaxPending = 1
INVARIANTS CatalogueOnDisk LevelsDisjoint RangesCoverKeys
INVARIANTS KeyNeverVanishes LookupFindsNewestLeft NewestUnlessContested
CHECK_DEADLOCK FALSE
