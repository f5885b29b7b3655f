SPECIFICATION Spec
CONSTANTS
  op = op  op2 = op2  poller = poller
  Roles = {main, aux}
  Pids = {p1, p2}
  MaxBirth = 3
  Free = Free  NoPid = NoPid
  Callers = {op, poller}
  Does <- OperatorAndPoller
SYMMETRY Symmetry
INVARIANTS IInv NoFalseStopped
PROPERTIES StrangersSpared SiblingsSpared NoLiveRoleForgotten
CHECK_DEADLOCK FALSE
