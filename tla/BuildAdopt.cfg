CONSTANTS
  d1 = d1
  d2 = d2
  d3 = d3
  Ids = {i1, i2, i3}
  Digests = {d1, d2}
  Clients = {c1}
  Starts = {s1}
  MinorOf <- Minors
  Mislabelled = {}
  BakedMinors = {1}
  Baked = Baked
  NoRow = NoRow
  NoDigest = NoDigest
  NoOne = NoOne
  Pipe = Pipe
  Crashes = TRUE
  RmFails = FALSE
SPECIFICATION Spec
SYMMETRY Symmetry
INVARIANT Validated
