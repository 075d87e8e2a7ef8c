SPECIFICATION FairSpec
CHECK_DEADLOCK FALSE
CONSTANTS
    PageIds = {p1}
    Slots = {s1}
    NoSlot = NoSlot
    Configs <- MCConfigs
    Tasks <- MCTasks
    Unreadable = Unreadable
    Wikitext = Wikitext
    NsOf <- MCNsOf
    NoNs = NoNs
    Dirs <- LiveDirs
    TaskPages <- ExhaustedTaskPages
    SitePages <- ExhaustedSitePages
    MaxEdits = 1
    MaxFaults = 0
PROPERTIES
    TaskKeepsRunning
