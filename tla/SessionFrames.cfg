SPECIFICATION FairSpec
CONSTANTS
  f1 = f1
  f2 = f2
  f3 = f3
  NoFrame = NoFrame
  Frames <- ThreeFrames
  ChallengeEvery = 2
  Faults <- AllFaults
INVARIANTS
  OneAtATime
  ControllerIsCurrent
  ChallengeBudget
  AnsweredOnce
  TraceIsTrue
PROPERTIES
  GuardComesDown
CHECK_DEADLOCK FALSE
