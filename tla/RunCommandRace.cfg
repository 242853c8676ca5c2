SPECIFICATION FairSpec
CONSTANTS
  OutputLimit = 2
  OutputBound = 5
  ChunkSizes <- SmallAndBig
INVARIANTS
  SandboxGivenUp
  ExitCodeMeansUndisturbed
PROPERTIES
  ForwardedIsPrefix
  EveryCallSettles
  AbortSettles
CHECK_DEADLOCK FALSE
