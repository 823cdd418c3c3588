CONSTANTS
  Callers = {c1, c2, c3}
  NoCaller = NoCaller
SPECIFICATION FairSpec
INVARIANT AnswerHolds
PROPERTY CallersAnswered
CHECK_DEADLOCK FALSE
