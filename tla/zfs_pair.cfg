SPECIFICATION FairSpec
CONSTANTS
    KeepOnPrimary = TRUE
    RollbackAuto = FALSE
    Freeze = TRUE
    HoursPerDay = 1
    KeepHours = 0
    KeepDays = 0
    MaxHour = 0
    MaxGuid = 6
    MaxWrites = 1
    MaxConf = 2
    MaxFailures = 2
    MaxRollbacks = 1
    MaxEvents = 4
INVARIANT TypeOK
PROPERTIES ImplementsReplica CatchesUp ConfNeverGoesBack
