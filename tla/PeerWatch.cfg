SPECIFICATION FairSpec
CONSTANTS
    FailThreshold = 2
    Witnesses = {"w1", "w2"}
    Quorum = TRUE
    Expect = 1
    Grace = 1
    MaxAborts = 1
    MaxCrashes = 1
PROPERTIES
    VouchedIsNotDown
    EndsAreTold
