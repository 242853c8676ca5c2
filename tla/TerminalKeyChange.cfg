SPECIFICATION TerminalFairSpec
CONSTANTS
  f1 = f1
  f2 = f2
  f3 = f3
  NoFrame = NoFrame
  Frames <- TwoFrames
  ChallengeEvery = 1
  Faults <- AuditFault
  Sockets = 2
  Tokens = 2
  KeyChanges = 1
PROPERTY KeyChangeSparesCommand
CHECK_DEADLOCK FALSE
