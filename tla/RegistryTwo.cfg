SPECIFICATION Spec
CONSTANTS
  i1 = i1  i2 = i2  poller = poller
  Instances = {i1, i2}
  Ids = {a, b}
  UserPaths = {u}
  Branches = {x}
  Slots = {web}
  Ports = {p1, p2}
  Absent = Absent  NoPort = NoPort  NoBranch = NoBranch  Nowhere = Nowhere  NoId = NoId
  Does <- TwoManagers
  UserDoes = {"add", "delete"}
SYMMETRY TwinSymmetry
INVARIANTS ReservationHeld
PROPERTIES FailedCreateLeavesNothing UserBranchesKept
CHECK_DEADLOCK FALSE
