SPECIFICATION FairSpec
CONSTANTS
  Instances = {p}
  Requests = {a, b, c}
  MaxBatch = 2
  MaxRevision = 2
  MaxCrashes = 1
INVARIANTS ReadYourWrites
PROPERTIES ImplementsAtomic AppendsSettle
CHECK_DEADLOCK FALSE
