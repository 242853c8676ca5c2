SPECIFICATION Spec
CONSTANTS
  r1 = r1
  r2 = r2
  r3 = r3
  r4 = r4
  Requests <- FourRequests
  Span <- ShortAndLong
  Limit <- OneAndTwo
  MaxTime = 6
SYMMETRY RequestSymmetry
INVARIANTS
  WindowHolds
PROPERTIES
  SlidingWindowSpec
CHECK_DEADLOCK FALSE
