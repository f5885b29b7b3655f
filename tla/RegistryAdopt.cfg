SPECIFICATION Spec
CONSTANTS
  i1 = i1  i2 = i2  poller = poller
  Instances = {i1, i2}
  Ids = {a, b}
  UserPaths = {u, v}
  Branches = {x, y}
  Slots = {web}
  Ports = {p1, p2}
  Absent = Absent  NoPort = NoPort  NoBranch = NoBranch  Nowhere = Nowhere  NoId = NoId
  Does <- Importers
  UserDoes = {"add", "delete"}
SYMMETRY AdoptSymmetry
INVARIANTS IInv ReservationHeld OneRecordPerCheckout
PROPERTIES DroppedOnlyWhenGone
CHECK_DEADLOCK FALSE
