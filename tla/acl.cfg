SPECIFICATION FairSpec
CONSTANTS
    Folders <- TwoFolders
    Above <- Nested
    Modes = {"sync", "push", "pull"}
    Default = "d"
    UserAcls <- OwnAcls
    MaxEdits = 3
    MaxCrashes = 2
    MaxFaults = 2
    MaxReplaced = 1
    MaxEvents = 4
INVARIANTS TypeOK SecondaryAclsStay RestoreIsComplete
PROPERTY AclsConverge
