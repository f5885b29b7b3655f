SPECIFICATION Spec
CONSTANTS
  op = op  op2 = op2  poller = poller
  Roles = {main}
  Pids = {p1, p2}
  MaxBirth = 3
  Free = Free  NoPid = NoPid
  Callers = {op}
  Does <- OperatorAlone
SYMMETRY Symmetry
PROPERTIES StoppedMeansGone
CHECK_DEADLOCK FALSE
