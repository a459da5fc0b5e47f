CONSTANTS
  Keys = {k1, k2}
  MaxWrites = 3
  MaxTroubles = 2
SPECIFICATION FairSpec
INVARIANTS
  TypeOK
  EditsAreDurable
PROPERTIES
  EditsArrive
  ImplementsDelivery
CHECK_DEADLOCK FALSE
