SPECIFICATION PathSpec
CONSTANTS
    root = root
    mid = mid
    leaf = leaf
    Monitors = {root, mid, leaf}
    Upstreams <- ChainUpstreams
    AlertOnDegraded = FALSE
    Window = 1
    CauseMemory = 3
    QuietChannel = TRUE
    MaxLate = 1
    MaxInbox = 1
PROPERTIES
    OutagesAreHeard
    RecoveryReachesWhoeverHeard
    OneDownPerOutage
