SPECIFICATION Spec
CONSTANTS
    Tasks = {t1, t2}
    Readers = {r1}
    NoTask = NoTask
    Writer = Writer
    MaxDepth = 3
    MaxOpens = 3
    MaxStatements = 3
    MaxCancels = 2
INVARIANTS
    UndoneNeverCommitted
    KeptIsCommitted
    OpenIsHidden
    PoolConserved
    ReadsAreFresh
PROPERTIES
    SnapshotStable
    WaitersServed
CHECK_DEADLOCK FALSE
