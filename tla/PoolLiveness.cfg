SPECIFICATION FairSpec
CONSTANTS
  a = a
  b = b
  k1 = k1
  k2 = k2
  k3 = k3
  k4 = k4
  NoBox = NoBox
  Commands <- TwoCommands
  Containers <- ThreeBoxes
  MinSize = 1
  LowWatermark = 1
  MaxConcurrent = 2
  Faults <- DaemonFaults
PROPERTIES
  CommandsSettle
  ShutdownEnds
CHECK_DEADLOCK FALSE
