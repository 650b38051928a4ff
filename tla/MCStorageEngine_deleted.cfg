SPECIFICATION EngineSpec
CONSTANTS
  Thread = {t1}
  Calls = {"put", "delete", "get", "flush"}
  MaxKey = 1
  MaxWrites = 2
  MaxFlushes = 1
  MaxSessions = 1
  Key <- MCKey
  Version <- MCVersion
  WALPayload <- MCPayload
  Oversized = {}
  MaxLsn = 9
  MaxRecords = 9
  MaxFaults = 0
  MaxPowerLosses = 0
  max_level = 3
  kLevel0CompactionTrigger = 2
  kLevel1MaxBytes = 1
  kLevelMultiplier = 1
  MaxOutputs = 1
  MaxIoErrors = 0
INVARIANT DeletedIsNotFound
CHECK_DEADLOCK FALSE
