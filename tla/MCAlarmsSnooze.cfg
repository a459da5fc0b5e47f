CONSTANTS
  t1 = t1
  t2 = t2
  c1 = c1
  c2 = c2
  c3 = c3
  c4 = c4
  Tabs = {t1, t2}
  Calls = {c1, c2, c3, c4}
  Occurrences = {1}
  Repeats = FALSE
  LateWindow = 1
  SnoozeFor = 1
  MaxNow = 2
  MaxIncidents = 0
  Asked = Asked
  None = None
SPECIFICATION Spec
PROPERTY
  FiringIsIdempotent
