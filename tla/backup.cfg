SPECIFICATION FairSpec
CONSTANTS
    Shapes <- DirTwo
    MaxStamp = 0
    MaxVersion = 3
    Locations <- PrimaryAndRemote
    SizeOf <- DistinctSizes
    Kinds <- DirAndLinks
    UserOps = {"write", "mkdir", "remove", "move"}
    LoopMarkers = FALSE
    MaxCount = 1
    MaxPercent = 0
    MaxAttempts = 6
    MaxFaults = 1
    MaxDrops = 0
    MaxCrashes = 0
    MaxUnmounts = 1
    MaxEvents = 5
INVARIANTS TypeOK  BudgetBoundsLoss ChildrenWait
 
