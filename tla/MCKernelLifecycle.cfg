SPECIFICATION FairKernelSpec
CONSTANTS
  c = c
  m = m
  s = s
  t = t
  c1 = c1
  m1 = m1
  s1 = s1
  t1 = t1
  t2 = t2
  None = None
  Objects = {o1, o2}
  Calls = {k1, k2}
  Ids <- MCIds
  Regs <- MCRegs
  Holders <- MCHolders
  Capabilities <- MCCapabilities
  Skills = {s, t}
  Contributors = {c}
  Provides <- MCProvides
  Plugins <- MCPlugins
  Removable = {c1, t1}
  MaxUpdates = 0
INVARIANTS LeasedIsCurrent DisposedHoldsNothing ContributorsRecorded OneWriterAtATime CancellationRecorded
PROPERTIES DisposalDrains DisposeEnds
CHECK_DEADLOCK FALSE
