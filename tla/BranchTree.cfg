CONSTANTS
  Branches = {b1, b2, b3}
  Timelines = {t1, t2, t3}
  Names = {n1, n2}
  Ops = {o1, o2}
  NoBranch = NoBranch
  NoTimeline = NoTimeline
  NoOp = NoOp
  NoRow = NoRow
  Archived = Archived
  Requests = {"drain", "create", "delete", "restore", "reset"}
  MaxRows = 3
  Crashes = FALSE
SPECIFICATION Spec
SYMMETRY Symmetry
INVARIANTS TypeOK RowsBacked NoOrphans TreeWhole
PROPERTIES CreateForksParent
