SPECIFICATION FairSpec
CONSTANTS
    Titles <- MCTitles
    Target <- MCTarget
    Direct <- MCDirect
    Calls <- MCCalls
    Wikis <- MCWikis
    Editable <- MCEditable
    Distances = {0, 1, 2, 3}
    MaxEdits = 2
INVARIANTS
    TypeOK
    NothingMissed
    NothingStrange
    FiltersKept
PROPERTIES
    AskedOnce
    WalkEnds
CHECK_DEADLOCK FALSE
