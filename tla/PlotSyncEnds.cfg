SPECIFICATION Spec
CONSTANTS
    BatchSize = 1
    Files = {1, 2}
    Name <- TwoCopies
    InitialDisk <- AllPlots
    MaxClock = 2
    MaxRefreshes = 2
    MaxChanges = 0
    MaxTimeouts = 2
    MaxConnections = 2
    MaxFailures = 0
PROPERTY
    SyncEnds
CHECK_DEADLOCK FALSE
