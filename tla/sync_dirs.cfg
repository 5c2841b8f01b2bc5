SPECIFICATION FairSpec
CONSTANTS
    Shapes <- DirTwo
    MaxStamp = 2
    MaxVersion = 3
    Locations <- Loc1
    SizeOf <- DistinctSizes
    Services <- OneService
    Mode <- ModeSync
    Kinds <- DirsAbove
    EditedLocations <- Loc1
    UserOps = {"write", "mkdir", "remove", "move"}
    ClockStands = FALSE
    EditsDuringPass = FALSE
    Faults = {}
    MaxFaults = 0
    MaxCrashes = 1
    MaxEvents = 4
PROPERTY Converges
