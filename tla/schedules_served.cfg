SPECIFICATION FairSpec
CONSTANTS
    e1 = e1
    e2 = e2
    Schedules = {s1}
    NoSchedule = NoSchedule
    Engines = {e1}
    Kinds = {"task", "orient", "script"}
    Cadences = {0, 1}
    Lease = 1
    MaxTime = 2
    MaxClaims = 5
    MaxRuns = 5
    MaxRequests = 2
INVARIANTS
    WorkOnRecord
PROPERTIES
    DueIsServed
CHECK_DEADLOCK FALSE
