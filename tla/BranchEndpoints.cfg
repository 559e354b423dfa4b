CONSTANTS
  Branches = {b1, b2}
  Timelines = {t1, t2}
  Names = {n1, n2}
  Ops = {o1, o2}
  NoBranch = NoBranch
  NoTimeline = NoTimeline
  NoOp = NoOp
  NoRow = NoRow
  Archived = Archived
  Requests = {"drain", "create", "rename", "delete", "start", "stop", "restore"}
  MaxRows = 2
  Crashes = TRUE
SPECIFICATION Spec
SYMMETRY Symmetry
INVARIANT StateBacked
