SPECIFICATION FairSpec
CONSTANTS
  i1 = i1  i2 = i2  poller = poller
  Instances = {i1, poller}
  Ids = {a, b}
  UserPaths = {u}
  Branches = {x}
  Slots = {web}
  Ports = {p1}
  Absent = Absent  NoPort = NoPort  NoBranch = NoBranch  Nowhere = Nowhere  NoId = NoId
  Does <- WorkerAndPoller
  UserDoes = {"delete"}
PROPERTIES ReconcileSettles
CHECK_DEADLOCK FALSE
