CONSTANTS
  a = a
  a1 = a1
  back = back
  f1 = f1
  f2 = f2
  dir = dir
  Requests = {q1, q2}
  Names = {a, back}
  Ids = {a, a1}
  TrashNames <- SameTrashNames
  BackNames <- MCBackNames
  Docs = {f1, f2, dir}
  Folders = {dir}
  Absent = Absent
  NoInfo = NoInfo
  None = None
SPECIFICATION Spec
PROPERTY
  TrashIdsDoNotCollide
