SPECIFICATION Spec
CONSTANTS
    Fingerprints = {k1}
    NoKey = NoKey
    MaxChanges = 0
    MaxCertFaults = 0
    Projects = {a}
    Hora = Hora
    MaxTag = 1
    MaxReleaseMoves = 0
    MaxReleaseFaults = 0
    Slots = {1, 2, 4}
    LastHour = 0
    MaxDigestFaults = 0
    Runs = {1, 3, 7}
    Grace = 2
    Interval = 2
    LastSecond = 7
    MaxPushes = 2
    MaxBeatFaults = 0
    Peers = {b}
    MAX_MISSED_POLLS = 1
    MaxPeerChanges = 0
INVARIANTS
    NoRunIsSkipped
CHECK_DEADLOCK FALSE
