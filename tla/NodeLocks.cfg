SPECIFICATION Spec
CONSTANTS
    Tasks = {h1, h2, h3, x1, x2}
    Handlers = {h1, h2, h3}
    Priorities = {0, 1}
    ActiveLimit = 2
    WaitingLimit = 1
    MaxAcquires = 4
    MaxCancels = 2
    MaxSemCancels = 1
INVARIANTS
    MutualExclusion
    NeverIdle
    ActiveIsAlive
PROPERTIES
    HandedInOrder
    MutexServes
    HandlersRun
CHECK_DEADLOCK FALSE
