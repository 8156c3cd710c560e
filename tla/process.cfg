SPECIFICATION Spec
CONSTANTS
  Servers = {s1, s2}
  Called = {s1}
  Workers = {w1, w2}
  Loop = loop
  Settings <- SomeSettings
  Nothing = Nothing
  File = File
  MaxStarts = 3
  MaxCalls = 3
INVARIANTS PathReachable LoadedOnce NotReadyHasCause
SYMMETRY Symmetry
CHECK_DEADLOCK FALSE
