SPECIFICATION Spec
CONSTANTS
    Shapes <- Two
    MaxStamp = 3
    MaxVersion = 4
    Locations <- Loc1
    SizeOf <- DistinctSizes
    Services <- OneService
    Mode <- ModeSync
    Kinds <- FilesAndLinks
    EditedLocations <- Loc1
    UserOps = {"write", "remove", "move"}
    ClockStands = FALSE
    EditsDuringPass = FALSE
    Faults = {}
    MaxFaults = 0
    MaxCrashes = 1
    MaxEvents = 5
INVARIANTS TypeOK NothingLost SavedBaselineIsTrue
