SPECIFICATION PageSpec
CONSTANTS
    a = a
    b = b
    Configs <- Files
    Requests = {"r", "s"}
    NewestMayGo = FALSE
    MaxReloads <- Reloads
    MaxIncidents = 2
    MaxWrites = 2
    MaxFaults = 1
INVARIANTS
    WriteIsShown
    ViewIsOfItsConfig
PROPERTIES
    OutageIsShown
    EveryoneIsAnswered
CHECK_DEADLOCK FALSE
