SPECIFICATION LiveSpec
CONSTANTS
  MaxId = 3
  MaxItems = 6
  MaxStructs = 8
  Metrics = {1}
  Calls = 4
INVARIANTS
  TypeOK
  QueueIsList
PROPERTIES
  ForestSpec
  CallsComplete
  CallsEnd
CHECK_DEADLOCK FALSE
