CONSTANTS
    m1 = m1
    m2 = m2
    c1 = c1
    c2 = c2
    r1 = r1
    r2 = r2
    Requests = {r1, r2}
    Members = {m1, m2}
    Contributors = {c1}
    Contribution <- OneFunder
    FeeBps = 1000
    PoolBps = 2000
    MaxPaid = 10
    Arrivals <- ClaimsAndCancel
    KeysExpire = FALSE
    MaxErrors = 0
    MaxCrashes = 0
    MaxSends = 2
SPECIFICATION SpecMerged
CHECK_DEADLOCK FALSE
SYMMETRY Symmetry
INVARIANTS
    PayoutXorRefund
