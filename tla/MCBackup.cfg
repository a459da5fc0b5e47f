CONSTANTS
  Downloads = {d1, d2, d3}
  None = None
SPECIFICATION FairSpec
INVARIANTS
  TypeOK
  OneAtATime
  OwnSnapshot
PROPERTY
  LockReleased
CHECK_DEADLOCK FALSE
