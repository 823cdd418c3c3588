CONSTANTS
  Periods = {1, 4}
  Nanos = 2
  Tolerance = 2
  MaxInstant = 90
  FarFuture = 50
  Horizon = 14
  MaxTicks = 5
SPECIFICATION Spec
PROPERTY DeadlineAdvances
CHECK_DEADLOCK FALSE
