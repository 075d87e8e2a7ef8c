SPECIFICATION Spec
CONSTANTS
    Occurrences <- MCOccurrences
    Tasks <- MCTasks
    RetryDelay = 2
    None = None
    MaxTime = 6
    MaxJumps = 2
    MaxEdits = 2
    MaxRestarts = 1
INVARIANTS
    TypeOK
    SleepsThroughNothing
PROPERTIES
    RunsOnTime
    NoTimeTwice
    OneStaleRun
CHECK_DEADLOCK FALSE
