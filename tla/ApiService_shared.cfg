SPECIFICATION FairSpec
CONSTANTS
    Clients = {c1, c2}
    Checker = Checker
    HasAssert = TRUE
    MayFail <- AllButToken
    MaxExpiries = 1
    MaxFaults = 2
    MaxCancels = 1
INVARIANTS
    TypeOK
    OneEditLostPerSession
    TitlesHaveApi
    RenewsAlone
PROPERTIES
    RequestsComplete
    SessionRecovers
