SPECIFICATION FairWatchSpec
CONSTANTS
    HwRepos = {a, b}
    HwPolls = {p, q}
    HwNone = none
    HwMaxFails = 1
INVARIANTS
    WatchTypeOK
PROPERTIES
    WaitingIsWatched
