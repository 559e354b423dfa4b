CONSTANTS
  d1 = d1
  d2 = d2
  d3 = d3
  Ids = {i1, i2, i3}
  Digests = {d1, d2, d3}
  Clients = {c1}
  Starts = {}
  MinorOf <- Minors
  Mislabelled = {}
  Incompatible = {d3}
  BakedMinors = {1}
  Baked = Baked
  NoRow = NoRow
  NoDigest = NoDigest
  NoOne = NoOne
  Pipe = Pipe
  NoCheck = NoCheck
  Crashes = FALSE
  RmFails = FALSE
SPECIFICATION UcSpec
SYMMETRY Symmetry
INVARIANT PromptHonest
