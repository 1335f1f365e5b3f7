SPECIFICATION FairSpec
CONSTANTS
    t1 = t1
    t2 = t2
    t3 = t3
    Tasks = {t1}
    NoTask = NoTask
    Workers <- MCWorkers
    NoWorker <- MCNoWorker
    Editors = {e1}
    Prereq <- Independent
    MaxLimit = 2
    MaxReady = 1
    MaxRuns = 1
    MaxRequests = 2
INVARIANTS
    Ownership
    ApprovalIsPending
    Books
PROPERTIES
    LivesAsPromised
    PauseDrains
CHECK_DEADLOCK FALSE
