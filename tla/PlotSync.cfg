SPECIFICATION Spec
CONSTANTS
    BatchSize = 2
    Files = {1, 2, 3}
    Name <- TwoCopies
    InitialDisk <- AllPlots
    MaxClock = 2
    MaxRefreshes = 2
    MaxChanges = 1
    MaxTimeouts = 1
    MaxConnections = 2
    MaxFailures = 1
INVARIANTS
    Converged
    LastSyncAgrees
CHECK_DEADLOCK FALSE
