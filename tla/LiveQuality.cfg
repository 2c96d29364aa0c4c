SPECIFICATION Spec
CONSTANTS
  MinimumEligibleFrames = 3
  ReasonAggregationMinimum = 3
  BurstSize = 5
  Stabilization = 2
  Frames <- MCFrames
  BurstFrames <- MCBurstFrames
INVARIANTS ReadyIsEligible SelectionIsBest
PROPERTY GuidanceWasSeen
CHECK_DEADLOCK FALSE
