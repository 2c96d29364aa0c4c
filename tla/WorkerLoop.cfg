CONSTANTS
    Requests = {r1, r2, r3}
    Transactions = {t1, t2}
    Workers = {w1, w2}
    Impatient = FALSE
    None = None
SPECIFICATION FairSpec
INVARIANTS BlockedLoopWaitsForThread
PROPERTY AllAnswered
