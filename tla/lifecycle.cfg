CONSTANTS
    m1 = m1
    m2 = m2
    c1 = c1
    c2 = c2
    r1 = r1
    r2 = r2
    Requests = {r1}
    Members = {m1, m2}
    Contributors = {c1, c2}
    Contribution <- TwoFunders
    FeeBps = 1000
    PoolBps = 2000
    MaxPaid = 10
    Arrivals <- AnyOp
    KeysExpire = TRUE
    MaxErrors = 1
    MaxCrashes = 1
    MaxSends = 3
SPECIFICATION FairSpecMerged
CHECK_DEADLOCK FALSE
INVARIANTS
    ResendNeedsLoss
    PayoutXorRefund
PROPERTIES
    StatusAccounted
    RefundCompletes
    WinnerIsPaid
