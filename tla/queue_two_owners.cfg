SPECIFICATION Spec
CONSTANTS
    t1 = t1
    t2 = t2
    t3 = t3
    Tasks = {t1}
    NoTask = NoTask
    Workers <- MCWorkers
    NoWorker <- MCNoWorker
    Editors = {}
    Prereq <- Independent
    MaxLimit = 2
    MaxReady = 1
    MaxRuns = 2
    MaxRequests = 3
INVARIANTS
    NeverTwoOwners
CHECK_DEADLOCK FALSE
