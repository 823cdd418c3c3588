CONSTANTS
  Threads = {th1, th2}
  Bounds = {b1, b2, b3}
  NeedsDrop = {b1, b2}
  NoThread = NoThread
SPECIFICATION FairSpec
INVARIANTS OwnThreadOnly StorageGuarantee
PROPERTY ForeignUnwindAborts
CHECK_DEADLOCK FALSE
