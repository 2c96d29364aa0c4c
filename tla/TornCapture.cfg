CONSTANTS
    Requests = {r1, r2}
    Attempts = {a1, a2, a3}
    Images = {i1, i2}
    AttemptLimit = 3
    FaultPoints <- CaptureFault
    MaxFaults = 1
    MaxEvaluations = 2
    SlowProvider = FALSE
    None = None
SPECIFICATION Spec
SYMMETRY Symmetry
INVARIANT UnapprovedNeverDelivered
