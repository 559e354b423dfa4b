CONSTANTS
  d = d
  x = x
  r = r
  Root = r
  Tops = {d}
  Kids = {x}
  Above <- TheAbove
  Absent = Absent
  Dir = Dir
  NoTree = NoTree
  Bases <- TheBases
  Uppers <- TheUppers
  MaxLayers = 3
  Clients = {c1}
  Gate = Gate
  Queries = 3
  Crashes = TRUE
SPECIFICATION Spec
INVARIANTS TypeOK OverlayExact PullTidy PassIsEarned NothingLeft EndpointHonest
PROPERTIES GateUndone
