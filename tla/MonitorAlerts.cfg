SPECIFICATION FairSpec
CONSTANTS
    FailThreshold = 2
    Monitors = {"m1"}
    SloMonitors = {"m1"}
    AlertOnDegraded = TRUE
    MaxFailures = 1
    MaxAborts = 1
    MaxCrashes = 1
    MaxInbox = 1
    NoState = NoState
INVARIANTS
    NoLeakedIncident
PROPERTIES
    KeepsLedger
    LastingIsAnnounced
