SPECIFICATION Spec
CONSTANTS
  a = a
  b = b
  c = c
  w1 = w1
  w2 = w2
  s1 = s1
  s2 = s2
  d1 = d1
  d2 = d2
  coding1 = coding1
  coding2 = coding2
  local = local
  profile = profile
  None = None
  Situations <- MCSituations
  Sessions = {s1, s2}
  Select <- MCSelect
  HostProvides = {"model"}
  AgentNeeds <- MCAgentNeeds
  Directories = {d1, d2, coding1, coding2, local, profile}
  Partition <- MCPartition
INVARIANTS ProfileIsSnapshot LoadOrderSound RunsWhatItRecorded OneWorkspace TurnsAttributed
CHECK_DEADLOCK FALSE
