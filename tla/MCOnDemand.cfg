SPECIFICATION Spec
CONSTANTS
    Channels = {"mail", "chat"}
    Flights = {1, 2, 3}
    Dispatchers <- MCDispatchers
    MaxSwaps = 1
    Keys = {"key"}
    NoKey = "no key"
    Windows = {2}
    Routes <- MCRoutes
    MaxClock = 2
    MaxPushFaults = 1
    Commands = {"announce", "event"}
    MaxCommits = 2
    MaxCompactions = 3
    MaxFaults = 2
    Hosts <- MCHosts
    AttemptDelay = 2
    ConnectTimeout = 6
    Codes = {0, 1, 2}
    MaxOutput = 3
    PipeSize = 1
    PluginTimeout = 2
    OutputGrace = 1
    Asked = {"b", "c"}
    ProbeDeadline = 2
    ProbeTakes = 1
    MaxTurns = 1
    Ids = {1, 2, 3, 4}
    Declared <- MCDeclared
    ConfigFiles <- MCConfigFiles
    MAX_PERIOD_SECS = 2
    ProbeSettings <- MCProbeSettings
    MAX_REDIRECTS = 1
    ProbeTimeout = 2
    Sites <- MCSites
    Starts <- MCStarts
    NoName = "none"
    LogLimit = 1
    MAX_VISIBILITY_SCAN = 5
    RECENT_SCAN = 5
    RECENT_SHOWN = 2
    MaxNews = 2
    Lines <- MCLines
    MonitorSet = {"api", "web"}
    WatchedNodes = {"peer"}
    NoEvent = 99
    Units <- MCUnits
    DayLength = 3
    MAX_UNTIL = 5
    MAX_SILENCE = 4
    EVENT_LOOKBACK = 1
    Year = 3
    MaxNumber = 20
    ReadLimit = 1
    ShowLimit = 3
    TimelineSpan = 2
    MaxTyped = 2
    MaxOutages = 2
    MaxMinute = 4
    MonitorRules <- MCRules
    NoGoal = 0
    DaySpan = 2
    MonthStart = 2
    MonthEnd = 6
    WindowDays = 3
    FastLong = 3
    FastShort = 1
    SlowLong = 5
    SlowShort = 2
    GAP_RATIO = 2
    MAX_RECOMMENDED = 2
    MaxChecks = 7
    SUB_BITS = 2
    MaxLatency = 60
    VARINT_BASE = 4
    LatenciesSeen = {0, 5, 9, 23, 60}
    HoursRolled <- MCHours
    MaxSamples = 4
    Notices <- MCNotices
    PHRASE = 10
    SendAttempts = 3
    site1 = site1
    site2 = site2
    Sessions <- MCSessions
    Nothing = Nothing
    Slots = 1
INVARIANTS
    AlarmsAreRight
    OnePerWindow
    CommitsSurvive
    WorkingAddressWins
    NothingIsLeftRunning
    QuietedOnlyByAWitness
    DependenciesAreOrdered
    AcceptedMeansWhatItSays
    OutcomeIsEarned
    SecretsStayHome
    AudiencesSeeTheirOwn
    AnnotationsAreKept
    TimelineIsWhole
    ChecksAreReadAlike
    FiguresAreHonest
    NoticesArriveWhole
PROPERTIES
    ScreenIsTrue
CHECK_DEADLOCK FALSE
