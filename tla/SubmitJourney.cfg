SPECIFICATION Spec
CONSTANTS
  MaxCaptures = 2
  MaxSubmits = 2
  MaxRetries = 1
INVARIANTS DeliveredWasReviewed AckedIsAcceptedIfKnown
PROPERTIES GivenUpIsNotResubmitted ImplementsDelivery SubmitEnds CompletesIfAlive
CHECK_DEADLOCK FALSE
