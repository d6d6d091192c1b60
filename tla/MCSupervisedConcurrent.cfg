SPECIFICATION FairSpec
CONSTANTS
  t1 = t1
  t2 = t2
  read = read
  write = write
  exec = exec
  Turns <- MCTurns
  Tools <- MCTools
  AutoAllow <- MCAutoAllow
  MaxBatch = 2
  MaxCalls = 3
PROPERTY AllowTurnRemembered
CHECK_DEADLOCK FALSE
