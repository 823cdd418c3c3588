CONSTANTS
  t1 = t1
  t2 = t2
  t3 = t3
  NoTask = NoTask
  Tasks = {t1, t2, t3}
  MaxWorkers = 2
  SpawnMayFail = TRUE
  BlocksOn <- Independent
  Unwinds = {}
SPECIFICATION BlockingSpec
INVARIANT SpawnErrorMeansNotRun
CHECK_DEADLOCK FALSE
