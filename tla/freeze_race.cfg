CONSTANTS
    m1 = m1
    m2 = m2
    c1 = c1
    c2 = c2
    r1 = r1
    r2 = r2
    Requests = {r1}
    Members = {m1, m2}
    Contributors = {c1}
    Contribution <- OneFunder
    FeeBps = 1000
    PoolBps = 2000
    MaxPaid = 10
    Arrivals <- Claims
    KeysExpire = FALSE
    MaxErrors = 1
    MaxCrashes = 1
    MaxSends = 2
SPECIFICATION Spec
CHECK_DEADLOCK FALSE
SYMMETRY MemberSymmetry
INVARIANTS
    WinnerFirst
