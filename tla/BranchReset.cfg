CONSTANTS
  Branches = {b1, b2, b3, b4}
  Timelines = {t1, t2, t3, t4}
  Names = {n1, n2}
  Ops = {o1, o2}
  NoBranch = NoBranch
  NoTimeline = NoTimeline
  NoOp = NoOp
  NoRow = NoRow
  Archived = Archived
  Requests = {"create", "restore", "reset"}
  MaxRows = 4
  Crashes = FALSE
SPECIFICATION Spec
PROPERTY ResetForksParent
CHECK_DEADLOCK FALSE
