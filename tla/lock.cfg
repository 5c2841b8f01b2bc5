SPECIFICATION FairSpec
CONSTANTS
    Procs = {"p1", "p2", "p3"}
    StaleAfter = 3
    AcquireWait = 1
    MaxCalls = 1
PROPERTIES AcquireReturns ImplementsMutex
CHECK_DEADLOCK TRUE
