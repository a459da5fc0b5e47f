CONSTANTS
  Keys = {k1}
  MaxWrites = 2
  MaxTroubles = 3
SPECIFICATION Spec
INVARIANT
  PendingIsShown
CHECK_DEADLOCK FALSE
