SPECIFICATION Spec
CONSTANTS
  Saves = {s1, s2}
  Loads = {l1}
  Clears = {k1}
  NoCredential = NoCredential
  MaxFaults = 1
  MaxStops = 2
CHECK_DEADLOCK FALSE
INVARIANTS
  NeverHalfWritten
PROPERTY ImplementsContract
