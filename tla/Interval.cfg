CONSTANTS
  Periods = {2, 6, 12, 200}
  Nanos = 2
  Tolerance = 2
  MaxInstant = 90
  FarFuture = 50
  Horizon = 14
  MaxTicks = 5
SPECIFICATION Spec
INVARIANTS TypeOK DeadlineOnGrid
PROPERTIES TickNotEarly MissedTickNotMadeUp DeadlineAdvances
CHECK_DEADLOCK FALSE
