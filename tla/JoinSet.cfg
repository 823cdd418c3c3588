CONSTANTS
  Tasks = {t1, t2}
  Blocking = {t2}
SPECIFICATION FairSpec
INVARIANTS TypeOK AbortedOnlyOnRequest AbortTakesOnePoll
PROPERTIES AbortEnds BlockingTaskEnds
CHECK_DEADLOCK FALSE
