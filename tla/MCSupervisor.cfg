SPECIFICATION FairSpec
CONSTANTS
    a = a
    b = b
    Ids = {a, b}
    Texts <- FourTexts
    Parsed <- FourConfigs
    Invalid = Invalid
    Capacity = 2
    MaxEdits = 2
    MaxPanics = 1
INVARIANTS
    RunsWhatIsConfigured
PROPERTIES
    RequestsTakeEffect
CHECK_DEADLOCK FALSE
