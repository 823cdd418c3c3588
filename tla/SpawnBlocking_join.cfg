CONSTANTS
  t1 = t1
  t2 = t2
  t3 = t3
  NoTask = NoTask
  Tasks = {t1, t2}
  MaxWorkers = 2
  SpawnMayFail = TRUE
  BlocksOn <- Independent
  Unwinds = {t1}
SPECIFICATION BlockingFairSpec
INVARIANT JoinFaithful
PROPERTY JoinResolves
CHECK_DEADLOCK FALSE
