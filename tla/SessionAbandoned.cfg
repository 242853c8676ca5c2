SPECIFICATION Spec
CONSTANTS
  f1 = f1
  f2 = f2
  f3 = f3
  NoFrame = NoFrame
  Frames <- TwoFrames
  ChallengeEvery = 2
  Faults <- NoFault
INVARIANT
  NoneRunsUnattended
CHECK_DEADLOCK FALSE
