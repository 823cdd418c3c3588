CONSTANTS
  parent = parent
  child = child
  Root = Root
  Tasks = {parent, child}
  Owner <- Chain
SPECIFICATION FairSpec
INVARIANTS AbortedOnlyOnRequest JoinFaithful JoinedAfterDrop AbortTakesOnePoll
PROPERTY StructuredCancel
CHECK_DEADLOCK FALSE
