SPECIFICATION CheckpointSpec
CONSTANTS
  Saver = {s1, s2}
  Checkpoints <- MCCheckpoints
  PowerLosses = TRUE
INVARIANT SurvivesPowerLoss
