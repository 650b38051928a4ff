SPECIFICATION EngineSpec
CONSTANTS
  Thread = {t1, t2}
  Calls = {"put"}
  MaxKey = 1
  MaxWrites = 2
  MaxFlushes = 2
  MaxSessions = 1
  Key <- MCKey
  Version <- MCVersion
  WALPayload <- MCPayload
  Oversized = {}
  MaxLsn = 9
  MaxRecords = 9
  MaxFaults = 1
  MaxPowerLosses = 0
  max_level = 3
  kLevel0CompactionTrigger = 1
  kLevel1MaxBytes = 1
  kLevelMultiplier = 1
  MaxOutputs = 1
  MaxIoErrors = 1
SYMMETRY ThreadSymmetry
INVARIANT AckedIsSomewhere
PROPERTY RefinesCompactionSpec
CHECK_DEADLOCK FALSE
