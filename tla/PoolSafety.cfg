SPECIFICATION Spec
CONSTANTS
  a = a
  b = b
  k1 = k1
  k2 = k2
  k3 = k3
  k4 = k4
  NoBox = NoBox
  Commands <- TwoCommands
  Containers <- FourBoxes
  MinSize = 2
  LowWatermark = 2
  MaxConcurrent = 2
  Faults <- AllFaults
SYMMETRY PoolSymmetry
INVARIANTS
  TypeOK
  OneOwner
  CountMatchesOwners
  OnlyFreshHandedOut
  RefillFlagMatchesLoop
  IdleWithinTarget
  OverrunBound
PROPERTIES
  LifecycleSpec
