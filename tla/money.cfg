CONSTANTS
    p1 = p1
    p2 = p2
    Requests = {p1, p2}
    Payments = {t1, t2, t3}
    Unpaid = Unpaid
    Faces = {2, 3}
    TopUps = {1}
    MaxEdits = 1
    MaxCrashes = 1
    b1 = b1
    b2 = b2
    h1 = h1
    h2 = h2
    h3 = h3
    pa = pa
    pb = pb
    Funded = {b1, b2}
    Hashes = {h1, h2, h3}
    Payers = {pa, pb}
    NoPayer = NoPayer
    NoHash = NoHash
    NoBounty = NoBounty
    TopUpAmounts = {1}
    MarkRuns = {p1, p2}
    Legacy <- MarkLegacy
    Claims = {p1, p2}
    Users = {u1, u2}
    Hunter = u1
    Addresses = {x1, x2}
    NoAddress = NoAddress
    NoUser = NoUser
    CkPresses = {p1, p2, p3}
    CkNone = CkNone
    CkFaces = {1, 2}
    GwPoster = gp
    GwHunter = gh
    GwKeys = {k1}
    GwGrants = {{"read", "write"}, {"read", "write", "money", "admin"}}
    GwCalls = {p1, p2}
    f1 = f1
    f2 = f2
    l1 = l1
    l2 = l2
    AdCalls = {p1, p2}
    AdFunders = {f1, f2}
    AdLegs = {l1, l2}
SPECIFICATION MoneySpec
CHECK_DEADLOCK FALSE
SYMMETRY Symmetry
VIEW MoneyView
INVARIANTS
    MoneyTypeOK
    FaceIsFunded
    CountedArrivedOnce
    LostMarkReturns
    LedgerWherePaid
    
    MoneyNeedsMoneyScope
    DeskTellsTheTruth
PROPERTIES
    NoFundsAfterTheEnd
