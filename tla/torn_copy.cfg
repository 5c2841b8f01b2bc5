SPECIFICATION Spec
CONSTANTS
    Shapes <- OneFile
    MaxStamp = 0
    MaxVersion = 2
    Locations <- PrimaryAndRemote
    SizeOf <- DistinctSizes
    Kinds <- FilesOnly
    UserOps = {"write"}
    LoopMarkers = FALSE
    MaxCount = 0
    MaxPercent = 0
    MaxAttempts = 3
    MaxFaults = 0
    MaxDrops = 0
    MaxCrashes = 0
    MaxUnmounts = 0
    MaxEvents = 2
INVARIANT TornCopyIsDiscarded
