SPECIFICATION Spec
CONSTANTS
  Flusher = {f1, f2}
  kLevel0CompactionTrigger = 2
  MaxFlushes = 5
PROPERTIES DestructorReturns CompactionHappens FailuresAreRetried
CHECK_DEADLOCK FALSE
