SPECIFICATION PoolSpec
CONSTANTS
  Worker = {w1, w2}
  Client = {c1, c2}
  Task = {t1, t2, t3}
INVARIANTS TakenInOrder NothingLeftBehind
PROPERTIES AcceptedTasksRun PoolDestructorReturns
CHECK_DEADLOCK FALSE
