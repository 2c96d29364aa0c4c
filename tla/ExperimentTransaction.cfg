CONSTANTS
  Requests = {r1, r2, r3}
  Replies <- MCReplies
  Captures <- MCCaptures
  Frames <- MCFrames
  VlmProvider = "local"
  Configured = {"gemini", "local"}
  None = None
  Error = Error
  Missing = Missing
  NoBox = NoBox
  VlmTimeout = 120
  LocalTimeout = 120
  MaxRetries = 1
  MaxFrames = 3
  LocalMaxImages = 3
  MaxImage = 5
  MaxTotal = 15
SPECIFICATION Spec
INVARIANTS GateFollowsVerdict StatusIsTrue FailsClosed PortraitIsFramed
PROPERTIES VerdictIsFinal
SYMMETRY Symmetry
CHECK_DEADLOCK FALSE
