SPECIFICATION Spec
CONSTANTS
  Scenarios <- PingedReconnect
  MaxConns = 2
  MaxGen = 2
INVARIANT OneReader
CHECK_DEADLOCK FALSE
