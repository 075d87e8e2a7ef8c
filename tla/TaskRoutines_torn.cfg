SPECIFICATION Spec
CHECK_DEADLOCK FALSE
CONSTANTS
    PageIds = {p1}
    Slots = {s1}
    NoSlot = NoSlot
    Configs <- MCConfigs
    Tasks <- MCTasks
    Unreadable = Unreadable
    Wikitext = Wikitext
    NsOf <- MCNsOf
    NoNs = NoNs
    Dirs <- LiveDirs
    TaskPages <- TornTaskPages
    SitePages <- TornSitePages
    MaxEdits = 2
    MaxFaults = 0
INVARIANTS
    EditAllowedBySomeConfig
