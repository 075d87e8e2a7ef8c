SPECIFICATION Spec
CHECK_DEADLOCK FALSE
CONSTANTS
    PageIds = {p1}
    Slots = {s1, s2}
    NoSlot = NoSlot
    Configs <- MCConfigs
    Tasks <- MCTasks
    Unreadable = Unreadable
    Wikitext = Wikitext
    NsOf <- MCNsOf
    NoNs = NoNs
    Dirs <- OneDirs
    TaskPages <- OneTaskPages
    SitePages <- OneSitePages
    MaxEdits = 2
    MaxFaults = 1
INVARIANTS
    TypeOK
    NoOrphanRunner
    OneEditAfterAbort
    NoConstructorDefaults
    EditUnderRecentConfig
