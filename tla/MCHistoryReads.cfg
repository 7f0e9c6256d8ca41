SPECIFICATION ReadsSpec
CONSTANTS
    a = a
    Monitors = {a}
    Retention <- LongRetention
    Hour = 2
    Day = 4
    RollLag = 1
    DailyAfter = 4
    Keep = 12
    Grace = 4
    PruneSlice = 2
    OrphanSlice = 4
    CommitDelay = 1
    JobSpan = 0
    Failing = {}
    MaxTime = 9
    MaxChecks = 2
    MaxReloads = 0
    Readers = {"report", "window", "bars", "spark"}
    WindowSpan = 4
    Bucket = 2
    BarSpan = 8
    TailLag = 1
    ReadSpan = 0
    MaxReads = 2
INVARIANTS
    ReadsAreExact
CHECK_DEADLOCK FALSE
