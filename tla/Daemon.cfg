\* One session id, one page, at most three processes that die by themselves.
SPECIFICATION FairSpec
CONSTANTS
  MaxDeaths = 3
  Sessions = {s1}
  Buffer = 2
  Kinds <- MCKinds
INVARIANTS TypeOK LockCoversEngine PidFileHonest HintsReachClients SessionsOwned
PROPERTIES StopOrder CloseEnds
