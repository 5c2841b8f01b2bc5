SPECIFICATION FairSpec
CONSTANTS
    Shapes <- TwoFiles
    MaxStamp = 0
    MaxVersion = 3
    Locations <- PrimaryAndRemote
    SizeOf <- DistinctSizes
    Kinds <- FilesOnly
    UserOps = {"write", "remove"}
    LoopMarkers = FALSE
    MaxCount = 0
    MaxPercent = 0
    MaxAttempts = 6
    MaxFaults = 1
    MaxDrops = 1
    MaxCrashes = 1
    MaxUnmounts = 0
    MaxEvents = 5
INVARIANT NotPendingIsStored
PROPERTY BackupComplete
