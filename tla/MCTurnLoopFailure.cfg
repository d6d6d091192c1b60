SPECIFICATION Spec
CONSTANTS
  Limits <- OneTurn
  MaxPasses = 0
  MaxIssued = 1
  MaxCrashes = 0
  MaxFailures = 1
INVARIANT CallsClosed
CHECK_DEADLOCK FALSE
