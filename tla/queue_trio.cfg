SPECIFICATION Spec
CONSTANTS
    t1 = t1
    t2 = t2
    t3 = t3
    Tasks = {t1, t2, t3}
    NoTask = NoTask
    Workers <- MCWorkers
    NoWorker <- MCNoWorker
    Editors = {}
    Prereq <- Chained
    MaxLimit = 2
    MaxReady = 3
    MaxRuns = 2
    MaxRequests = 1
INVARIANTS
    OwnRun
PROPERTIES
    GrowthWithinLimit
    StartsInOrder
CONSTRAINT NoneDisturbed
CHECK_DEADLOCK FALSE
