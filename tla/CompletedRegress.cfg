CONSTANTS
    Requests = {r1, r2}
    Attempts = {a1, a2}
    Images = {i1, i2}
    AttemptLimit = 2
    FaultPoints <- NoFaultPoints
    MaxFaults = 0
    MaxEvaluations = 2
    SlowProvider = FALSE
    None = None
SPECIFICATION Spec
SYMMETRY Symmetry
PROPERTY CompletedStaysCompleted
