SPECIFICATION Spec
CONSTANTS
  MaxId = 3
  MaxItems = 6
  MaxStructs = 8
  Metrics = {1}
  Calls = 4
INVARIANTS
  FreesOnce
CHECK_DEADLOCK FALSE
