CONSTANTS
    Requests = {r1, r2}
    Transactions = {t1}
    Workers = {w1}
    Impatient = TRUE
    None = None
SPECIFICATION FairSpec
PROPERTY AllAnswered
CHECK_DEADLOCK FALSE
