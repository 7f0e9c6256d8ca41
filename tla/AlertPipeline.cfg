SPECIFICATION PipelineSpec
CONSTANTS
    Monitors = {"root", "leaf"}
    Upstreams <- PairUpstreams
    SloMonitors = {}
    AlertOnDegraded = FALSE
    FailThreshold = 1
    Window = 1
    CauseMemory = 2
    QuietChannel = TRUE
    MaxLate = 0
    MaxInbox = 1
    MaxFailures = 0
    MaxAborts = 0
    MaxCrashes = 1
    NoState = NoState
PROPERTIES
    RootIsHeard
