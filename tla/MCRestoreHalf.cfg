CONSTANTS
  u1 = u1
  u2 = u2
  sys = sys
  docs = docs
  note = note
  Uploads = {u1}
  Names <- MCNames
  Sys = sys
  PlainFiles = {note}
  Members <- OneMember
  Faults = {"install"}
  MaxPending = 1
  MaxCrashes = 0
  User = User
  Boot = Boot
  Absent = Absent
SPECIFICATION Spec
INVARIANT
  FailedRestoreChangesNothing
CHECK_DEADLOCK FALSE
