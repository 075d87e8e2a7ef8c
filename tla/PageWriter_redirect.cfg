SPECIFICATION Spec
CHECK_DEADLOCK FALSE
CONSTANTS
    Writers = {"w1"}
    Targets = {"t1"}
    Missing = Missing
    Output <- OneOutput
    Denied = {}
    FullLists = {"list"}
    Failures = {"timeout"}
    MaxRuns = 1
    MaxEdits = 1
    MaxFaults = 0
PROPERTIES
    RedirectsKept
