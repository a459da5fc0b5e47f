CONSTANTS
  a = a
  a1 = a1
  back = back
  f1 = f1
  f2 = f2
  dir = dir
  Requests = {q1, q2}
  Names = {a, back}
  Ids = {a, a1}
  TrashNames <- MCTrashNames
  BackNames <- MCBackNames
  Docs = {f1, f2, dir}
  Folders = {dir}
  Absent = Absent
  NoInfo = NoInfo
  None = None
SYMMETRY MCSymmetry
SPECIFICATION Spec
INVARIANTS
  TypeOK
  TrashedIsRestorable
PROPERTY
  NothingVanishes
