SPECIFICATION FairSpec
CHECK_DEADLOCK FALSE
CONSTANTS
    PageIds = {p1}
    Slots = {s1, s2}
    NoSlot = NoSlot
    Configs <- MCConfigs
    Tasks <- MCTasks
    Unreadable = Unreadable
    Wikitext = Wikitext
    NsOf <- MCNsOf
    NoNs = NoNs
    Dirs <- LiveDirs
    TaskPages <- LiveTaskPages
    SitePages <- LiveSitePages
    MaxEdits = 2
    MaxFaults = 1
PROPERTIES
    EmergencyStop
    RemovedTaskStops
    LostOnlyByPanic
