SPECIFICATION UnreadSpec
CONSTANTS
    Monitors = {a}
    a = a
    Retention <- ShortRetention
    Hour = 2
    Day = 4
    RollLag = 1
    DailyAfter = 4
    Keep = 8
    Grace = 4
    PruneSlice = 1
    OrphanSlice = 4
    CommitDelay = 1
    JobSpan = 1
    Failing = {"prune_hourly", "prune_daily", "raw", "marks", "orphans", "wipe_hourly"}
    MaxTime = 9
    MaxChecks = 2
    MaxReloads = 2
    Readers = {"report"}
    WindowSpan = 2
    Bucket = 2
    BarSpan = 8
    TailLag = 1
    ReadSpan = 0
    MaxReads = 0
INVARIANTS
    NothingIsLost
PROPERTIES
    SweptIsLongGone
CHECK_DEADLOCK FALSE
