CONSTANTS
    Requests = {r1, r2}
    Txs = {x1, x2}
    Tokens = {t1, t2, t3}
    Sessions = {s1, s2, s3}
    EarlyReissue = FALSE
    RemovalFails = FALSE
    FaultPoints <- AnyFaultPoint
    None = None
SPECIFICATION Spec
SYMMETRY Symmetry
INVARIANTS OneTransaction OneActiveSession OneLiveLaunch
