SPECIFICATION FairSpec
CONSTANTS
    Dirs <- Chain
    Root = "root"
    Parent <- ChainParent
    MaxWatchedDirs = 3
    MaxChanges = 2
    MaxOverflows = 1
INVARIANT TypeOK
PROPERTIES EventsSuffice Settles
