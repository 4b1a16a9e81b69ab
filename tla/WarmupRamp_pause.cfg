\* A pause and nothing else.
SPECIFICATION Spec
CONSTANTS
  LastBatch = 2
  MaxActs = 1
  MaxRuns = 2
PROPERTIES PauseStands
CHECK_DEADLOCK FALSE
