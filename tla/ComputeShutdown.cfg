\* Shutdown: stopAll() bypasses the lanes, so two callers tear down one entry.
CONSTANTS
  Branches = {b1, b2}
  Entries = {e1, e2}
  Ports = {p1, p2}
  AuxPorts = {q1, q2, q3}
  MaxTries = 2
  NoBranch = NoBranch
  NoEntry = NoEntry
  NoPort = NoPort
  Shutdown = TRUE
SPECIFICATION Spec
SYMMETRY Symmetry
INVARIANTS TypeOK PortsExclusive NothingLeaks StatusHonest HintsSuffice LiveKeepsAll
PROPERTIES StopIsFinal
