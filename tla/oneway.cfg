SPECIFICATION FairSpec
CONSTANTS
    Shapes <- DirTwo
    MaxStamp = 0
    MaxVersion = 3
    Locations <- Loc2
    SizeOf <- DistinctSizes
    Services <- TwoServices
    Mode <- ModeChain
    Kinds <- DirsAbove
    EditedLocations <- Loc2
    UserOps = {"write", "mkdir", "remove", "move"}
    ClockStands = FALSE
    EditsDuringPass = TRUE
    Faults = {"op", "save", "scan"}
    MaxFaults = 1
    MaxCrashes = 1
    MaxEvents = 4
PROPERTIES SourceUntouched Converges
