SPECIFICATION Spec
CONSTANTS
  MinimumEligibleFrames = 3
  ReasonAggregationMinimum = 3
  BurstSize = 5
  Stabilization = 2
  Frames <- MCFrames
  BurstFrames <- MCBurstFrames
INVARIANT EyesOfPrimary
CHECK_DEADLOCK FALSE
