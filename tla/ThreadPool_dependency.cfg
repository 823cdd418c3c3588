CONSTANTS
  t1 = t1
  t2 = t2
  t3 = t3
  t4 = t4
  NoTask = NoTask
  Tasks = {t1, t2, t3}
  MaxWorkers = 2
  SpawnMayFail = FALSE
  BlocksOn <- FirstWaitsForSecond
  Unwinds = {}
SPECIFICATION FairSpec
PROPERTY AcceptedTaskRuns
CHECK_DEADLOCK FALSE
