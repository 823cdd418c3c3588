CONSTANTS
  Timeouts = {s1, s2}
  Durations = {0, 2, 50}
  LatestStart = 1
  Lag = 1
  Horizon = 6
SPECIFICATION FairSpec
INVARIANT TypeOK
PROPERTIES ElapsedTruly TimerReleased WaiterResolves
CHECK_DEADLOCK FALSE
