SPECIFICATION Spec
CONSTANTS
  Scenarios <- BlockedFlush
  MaxConns = 2
  MaxGen = 2
INVARIANT JoinNotAbandoned
CHECK_DEADLOCK FALSE
