CONSTANTS
  t1 = t1
  t2 = t2
  t3 = t3
  t4 = t4
  NoTask = NoTask
  Tasks = {t1, t2, t3, t4}
  MaxWorkers = 3
  SpawnMayFail = TRUE
  BlocksOn <- Independent
  Unwinds = {t1, t2}
SPECIFICATION FairSpec
INVARIANTS TypeOK IdleCounterExact NoLostWakeup AcceptedTaskServed TaskInOnePlace
PROPERTIES ImplementsPool AcceptedTaskRuns PoolShutsDown
CHECK_DEADLOCK FALSE
