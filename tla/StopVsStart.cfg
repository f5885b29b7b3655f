SPECIFICATION Spec
CONSTANTS
  op = op  op2 = op2  poller = poller
  Roles = {main}
  Pids = {p1, p2}
  MaxBirth = 2
  Free = Free  NoPid = NoPid
  Callers = {op, op2}
  Does <- StopperAndStarter
SYMMETRY Symmetry
PROPERTIES RacedRoleStaysTracked
CHECK_DEADLOCK FALSE
