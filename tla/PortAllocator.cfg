SPECIFICATION FairSpec
CONSTANTS
  p1 = p1  p2 = p2  o1 = o1  o2 = o2  s1 = s1  s2 = s2
  Procs = {p1, p2}
  Owners = {o1, o2}
  Slots = {s1, s2}
  Ports = {1, 2}
  AutoPorts = {1}
  NoPort = NoPort
  Nobody = Nobody
INVARIANTS NoSharedPort IInv
PROPERTIES RefusalsAreTrue ImplementsPortTable CallsReturn
