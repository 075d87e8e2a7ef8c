SPECIFICATION Spec
CHECK_DEADLOCK FALSE
CONSTANTS
    Writers = {"w1", "w2"}
    Targets = {"t1", "t2", "t3"}
    Missing = Missing
    Output <- SharedOutput
    Denied = {"t3"}
    FullLists = {"list"}
    Failures = {"timeout"}
    MaxRuns = 1
    MaxEdits = 1
    MaxFaults = 1
INVARIANTS
    TypeOK
    OneResultPerRun
    HeadersDoNotPileUp
PROPERTIES
    WritesAsPromised
