SPECIFICATION EngineSpec
CONSTANTS
  Thread = {t1}
  Calls = {"put", "delete", "get", "flush", "close", "crash", "torn"}
  MaxKey = 2
  MaxWrites = 3
  MaxFlushes = 2
  MaxSessions = 3
  Key <- MCKey
  Version <- MCVersion
  WALPayload <- MCPayload
  Oversized <- MCOversized
  MaxLsn = 9
  MaxRecords = 9
  MaxFaults = 0
  MaxPowerLosses = 0
  max_level = 3
  kLevel0CompactionTrigger = 9
  kLevel1MaxBytes = 1
  kLevelMultiplier = 1
  MaxOutputs = 1
  MaxIoErrors = 0
INVARIANTS RecoveryIsExact SkippedIsFlushed
PROPERTY RefinesKeyValueStore
CHECK_DEADLOCK FALSE
