SPECIFICATION FairSpec
CONSTANTS
    KeepOnPrimary = TRUE
    RollbackAuto = FALSE
    Freeze = FALSE
    HoursPerDay = 1
    KeepHours = 0
    KeepDays = 0
    MaxHour = 0
    MaxGuid = 4
    MaxWrites = 1
    MaxConf = 0
    MaxFailures = 1
    MaxRollbacks = 0
    MaxEvents = 1
PROPERTY ResumeCatchesUp
