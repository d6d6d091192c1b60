SPECIFICATION FairSpec
CONSTANTS
  Limits <- TwoTurns
  MaxPasses = 1
  MaxIssued = 3
  MaxCrashes = 1
  MaxFailures = 1
INVARIANTS CallsClosedUnlessFailed TurnEndsOnce LimitsRespected ResultsBeforeNextStep EffectsRecorded
PROPERTIES TurnTerminates CancelTerminates
CHECK_DEADLOCK FALSE
