SPECIFICATION TerminalFairSpec
CONSTANTS
  f1 = f1
  f2 = f2
  f3 = f3
  NoFrame = NoFrame
  Frames <- ThreeFrames
  ChallengeEvery = 1
  Faults <- AuditFault
  Sockets = 2
  Tokens = 2
  KeyChanges = 1
INVARIANTS
  TerminalTypeOK
  LockHolds
  RunningIsTrue
  LockIsOwed
PROPERTIES
  RefusedTokenNotReused
  LockReleased
CHECK_DEADLOCK FALSE
