SPECIFICATION FairSpec
CONSTANTS
    KeepOnPrimary = TRUE
    RollbackAuto = FALSE
    Freeze = TRUE
    HoursPerDay = 2
    KeepHours = 0
    KeepDays = 1
    MaxHour = 1
    MaxGuid = 7
    MaxWrites = 2
    MaxFaults = 1
    MaxCrashes = 1
    MaxRollbacks = 1
INVARIANTS TypeOK CommonBase
PROPERTIES OnlyAgreedLoss CatchesUp ImplementsReplica
