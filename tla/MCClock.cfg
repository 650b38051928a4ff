SPECIFICATION HLCSpec
CONSTANTS
  Node = {n1, n2}
  PhysicalLimit = 4
  LogicalLimit = 4
  MinTime = 25
  MaxTime = 27
  MaxEvents = 3
PROPERTY CausallyOrdered
CHECK_DEADLOCK FALSE
