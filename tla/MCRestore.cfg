CONSTANTS
  u1 = u1
  u2 = u2
  sys = sys
  docs = docs
  note = note
  Uploads = {u1, u2}
  Names <- MCNames
  Sys = sys
  PlainFiles = {note}
  Members <- TwoMembers
  Faults = {"measure", "stage", "swap", "install", "reopen", "revoke", "clean"}
  MaxPending = 1
  MaxCrashes = 1
  User = User
  Boot = Boot
  Absent = Absent
SPECIFICATION Spec
INVARIANTS
  TypeOK
  TarballsAccountedFor
  SwapIsUndone
  NothingLostBeforeCleanUp
  CarriedSessionsRevoked
PROPERTIES
  AlwaysADatabase
  ImplementsAtomic
CHECK_DEADLOCK FALSE
