CONSTANTS
    p1 = p1
    p2 = p2
    ApiCalls = {p1, p2}
    IdemKeys = {k1}
    SpendRows = {s1, s2}
    Nil = Nil
    Face = 1
    TopUps = {1}
    PerTxCeiling = 1
    DailyCeiling = 1
    LastDay = 1
    Requests = {q1, q2, q3}
    Limit = 1
    Window = 1
    LastTick = 3
    Mails = {"pr_merged", "bounty_settled"}
    Mailers = {p1, p2}
    NoMail = NoMail
    MaxAttempts = 2
    MaxReclaims = 1
    Issues = {i1}
    Deliveries = {d1}
    Handlers = {p1, p2}
    NoneId = NoneId
    HubRuns = {p1, p2}
    HubIds = {"webhook", "poll"}
    Authors = {w1, w2, w3}
    Poster = poster
    Mergers = {w1}
    PoolRuns = {p1, p2}
    NoAuthor = NoAuthor
    PoolFace = 100
    PoolFeeBps = 200
    PoolBps = 1500
    PoolMaxPaid = 1
    ContactRuns = {p1, p2}
    LastStamp = 5
    PoCalls = {p1, p2}
    PoDrafts = {b1, b2}
    PoNone = PoNone
    PoInputs = {300, 1001}
    AlUsers = {p1, p2}
    AlAccounts = {a1, a2}
    AlNames = {n1, n2}
    AlMerges = {m1}
    AlNone = AlNone
    PrPulls = {1, 2, 3}
    PrWorlds <- PullWorlds
    PrMax = 2
    PrPage = 2
    PrPages = 2
    UaCalls = {p1, p2}
    UaFlags = {f1, f2}
SPECIFICATION ServicesSpec
CHECK_DEADLOCK FALSE
SYMMETRY Symmetry
VIEW ServicesView
INVARIANTS
    ServicesTypeOK
    SpendsOnceWithinCap
    AdmittedWithinLimit
    BackfillReaches
    FrozenSetConserves
    AuthorFound
    AccountKept
    ReadsMissNothing
PROPERTIES
    MailOnce
    UnsubscribeKept
    PaidClaimStays
    FrozenRowsStay
    HubClaimStays
    StaleReadsUndoNothing
