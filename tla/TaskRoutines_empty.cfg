SPECIFICATION FairSpec
CHECK_DEADLOCK FALSE
CONSTANTS
    PageIds = {p1}
    Slots = {s1}
    NoSlot = NoSlot
    Configs <- MCConfigs
    Tasks <- MCTasks
    Unreadable = Unreadable
    Wikitext = Wikitext
    NsOf <- MCNsOf
    NoNs = NoNs
    Dirs <- EmptyDirs
    TaskPages <- EmptyTaskPages
    SitePages <- EmptySitePages
    MaxEdits = 2
    MaxFaults = 0
PROPERTIES
    EmergencyStop
