SPECIFICATION EngineSpec
CONSTANTS
  Thread = {t1}
  Calls = {"put", "flush"}
  MaxKey = 2
  MaxWrites = 3
  MaxFlushes = 2
  MaxSessions = 1
  Key <- MCKey
  Version <- MCVersion
  WALPayload <- MCPayload
  Oversized = {}
  MaxLsn = 9
  MaxRecords = 9
  MaxFaults = 0
  MaxPowerLosses = 0
  max_level = 3
  kLevel0CompactionTrigger = 2
  kLevel1MaxBytes = 1
  kLevelMultiplier = 1
  MaxOutputs = 1
  MaxIoErrors = 0
INVARIANT FlushedLsnIsSafe
CHECK_DEADLOCK FALSE
