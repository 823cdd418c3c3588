CONSTANTS
  Durations = {0, 1, 3, 5, 6, 7, 13, 14}
  Milli = 3
  MaxDelay = 2
  LatestStart = 1
  Lag = 2
  Horizon = 24
SPECIFICATION FairSpec
INVARIANTS TypeOK NeverEarly NoTimerAfterDrop CallbackLifetime
PROPERTIES WaiterWoken ImplementsSleep
CHECK_DEADLOCK FALSE
