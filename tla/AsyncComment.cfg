SPECIFICATION Spec
CONSTANTS
  Callers = {c1, c2}
  QueueCap = 2
  MaxSubmits = 2
  MaxStarts = 2
SYMMETRY CallerSymmetry
CHECK_DEADLOCK FALSE
INVARIANT FailureFaultsStore
