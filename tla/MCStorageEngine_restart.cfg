SPECIFICATION EngineSpec
CONSTANTS
  Thread = {t1}
  Calls = {"put", "flush", "close", "crash", "torn"}
  MaxKey = 1
  MaxWrites = 3
  MaxFlushes = 2
  MaxSessions = 3
  Key <- MCKey
  Version <- MCVersion
  WALPayload <- MCPayload
  Oversized <- MCOversized
  MaxLsn = 9
  MaxRecords = 9
  MaxFaults = 1
  MaxPowerLosses = 0
  max_level = 3
  kLevel0CompactionTrigger = 2
  kLevel1MaxBytes = 1
  kLevelMultiplier = 1
  MaxOutputs = 1
  MaxIoErrors = 0
INVARIANT NewWritesAreReplayed
CHECK_DEADLOCK FALSE
