SPECIFICATION FairSpec
CONSTANTS
  MaxInputs = 2
  MaxEntries = 3
  MaxCrashes = 1
  MaxFailures = 1
INVARIANTS FifoTurns TurnsSequential ConsumedOnce PendingNotForgotten
PROPERTIES InputsSettle ShutdownEnds
CHECK_DEADLOCK FALSE
