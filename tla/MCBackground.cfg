SPECIFICATION Spec
CONSTANTS
    Fingerprints = {k1, k2}
    NoKey = NoKey
    MaxChanges = 3
    MaxCertFaults = 1
    Projects = {a, b}
    Hora = Hora
    MaxTag = 2
    MaxReleaseMoves = 3
    MaxReleaseFaults = 1
    Slots = {1, 2, 4}
    LastHour = 5
    MaxDigestFaults = 2
    Runs = {1, 3, 5}
    Grace = 2
    Interval = 2
    LastSecond = 6
    MaxPushes = 2
    MaxBeatFaults = 1
    Peers = {b, c}
    MAX_MISSED_POLLS = 2
    MaxPeerChanges = 2
INVARIANTS
    VerdictIsEarned
    ViewIsRecent
PROPERTIES
    CertificatesAreWatched
    NewsIsTold
CHECK_DEADLOCK FALSE
