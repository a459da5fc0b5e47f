CONSTANTS
  FailThreshold = 0
  GlobalFailThreshold = 1
  BaseLock = 1
  MaxLock = 2
  Requests = {q1, q2}
  Keys = {k1}
  Passwords = {old, new}
  StrongPasswords = {old, new}
  NoPassword = NoPassword
  TTL = 2
  AbsoluteMax = 3
  RenewGain = 1
  MaxTime = 2
  MaxTokens = 3
  MaxSecrets = 2
  TotpTime = 1
  TotpTokens = 2
  MaxFailures = 3
CONSTRAINT TotpBounds
SYMMETRY RequestSymmetry
SPECIFICATION Spec
INVARIANTS
  TypeOK
  TotpSingleUse
  SlidingExpiryBound
  NoPreChangeToken
PROPERTIES
  RevokedStaysRevoked
  LockoutHolds
  ImplementsSlidingSessions
