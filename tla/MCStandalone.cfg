SPECIFICATION Spec
CONSTANTS
  WALPayload = {p, big}
  Oversized = {big}
  MaxLsn = 4
  MaxRecords = 3
  MaxFaults = 1
  MaxPowerLosses = 1
  Saver = {s1, s2}
  Checkpoints <- MCCheckpoints
  PowerLosses = TRUE
  Peer = {p1, p2}
  self_id = self
  NoId = none
  MaxTerm = 3
  Node = {n1, n2}
  PhysicalLimit = 4
  LogicalLimit = 4
  MinTime = 0
  MaxTime = 5
  MaxEvents = 4
  Thread = {t1, t2}
  Key = {k1, k2, k3}
  Size = {1, 2, 4}
  capacity_bytes = 3
  MaxCalls = 5
  Name = {m1, m2}
  MaxRegistries = 3
INVARIANTS LsnIncreasing AckedReadable LoadsLatestSaved LoadsSavedOrFails
INVARIANTS CandidateVotedForItself ListenerKnowsRole
INVARIANTS SizeIsAccounted CachedAreMostRecent CachedIsNewest LostOnlyWhenMissesOverlap
INVARIANT ServedIsHandedOut
PROPERTIES ReadableLogGrows VoteLastsItsTerm OrderedWithinEra
CHECK_DEADLOCK FALSE
