SPECIFICATION Spec
CONSTANTS
  MaxInputs = 3
  MaxEntries = 3
  MaxCrashes = 0
  MaxFailures = 1
INVARIANT OneActiveTurn
CHECK_DEADLOCK FALSE
