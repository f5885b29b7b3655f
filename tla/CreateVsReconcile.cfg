SPECIFICATION Spec
CONSTANTS
  i1 = i1  i2 = i2  poller = poller
  Instances = {i1, poller}
  Ids = {a, b}
  UserPaths = {u}
  Branches = {x, y}
  Slots = {web}
  Ports = {p1}
  Absent = Absent  NoPort = NoPort  NoBranch = NoBranch  Nowhere = Nowhere  NoId = NoId
  Does <- CreatorAndPoller
  UserDoes = {}
SYMMETRY Symmetry
PROPERTIES FreedOnlyWithoutRecord
CHECK_DEADLOCK FALSE
