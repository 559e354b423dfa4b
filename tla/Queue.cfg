\* Three calls on three branches.  No symmetry: temporal properties.
CONSTANTS
  Calls = {c1, c2, c3}
  Branches = {b1, b2, b3}
  NoCall = NoCall
  NoBranch = NoBranch
SPECIFICATION FairSpec
INVARIANTS Fifo LaneIsTurn TailsExact
PROPERTIES ImplementsLanes EveryCallSettles
