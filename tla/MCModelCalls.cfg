SPECIFICATION FairCallsSpec
CONSTANTS
  Callers = {a, b, c}
  Limit = 1
  MaxAttempts = 2
  MaxDeltas = 1
  Delays = {0, 1}
INVARIANTS PermitAccounting PermitsAreStreams WholeAnswers
PROPERTIES NoOvertaking ImplementsPermits CancelledNotAnswered CallsSettle
CHECK_DEADLOCK FALSE
