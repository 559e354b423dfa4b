\* Liveness needs every state apart, so no symmetry.
CONSTANTS
  Branches = {b1, b2}
  Entries = {e1, e2}
  Ports = {p1}
  AuxPorts = {q1, q2}
  MaxTries = 1
  NoBranch = NoBranch
  NoEntry = NoEntry
  NoPort = NoPort
  Shutdown = TRUE
SPECIFICATION FairSpec
PROPERTIES NothingHangs
