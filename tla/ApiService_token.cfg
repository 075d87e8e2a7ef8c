SPECIFICATION FairSpec
CONSTANTS
    Clients = {c1}
    Checker = Checker
    HasAssert = TRUE
    MayFail <- Requests
    MaxExpiries = 1
    MaxFaults = 1
    MaxCancels = 0
PROPERTIES
    SessionRecovers
