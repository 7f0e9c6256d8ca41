SPECIFICATION PathSpec
CONSTANTS
    root = root
    mid = mid
    leaf = leaf
    Monitors = {root, mid}
    Upstreams <- ChainUpstreams
    AlertOnDegraded = TRUE
    Window = 0
    CauseMemory = 2
    QuietChannel = TRUE
    MaxLate = 0
    MaxInbox = 1
INVARIANTS
    AnnouncedIsHeard
