CONSTANTS
  MaxRequests = 2
  MaxCaptures = 3
SPECIFICATION Spec
INVARIANTS ReportedOnce UploadWasReported PreviewIsOfAttempt NoOrphanStream
  StreamingHasCamera HiddenIsReleased NoInvalidTransition
PROPERTIES Settles
CHECK_DEADLOCK FALSE
