SPECIFICATION Spec
CONSTANTS
  Budget = 8
  MessageSizes = {2}
  SummarySizes = {1, 3}
  AgentSize = 1
  DiscoverySize = 1
  SkillSize = 2
  NoteSize = 2
  Skew = 1
  MaxPasses = 2
  MaxSteps = 2
  MaxTurns = 3
INVARIANTS WholeHistory WholeTurns RequestFits
CHECK_DEADLOCK FALSE
