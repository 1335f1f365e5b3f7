SPECIFICATION Spec
CONSTANTS
    e1 = e1
    e2 = e2
    Schedules = {s1}
    NoSchedule = NoSchedule
    Engines = {e1, e2}
    Kinds = {"task","script"}
    Cadences = {0, 1}
    Lease = 1
    MaxTime = 2
    MaxClaims = 3
    MaxRuns = 2
    MaxRequests = 2
INVARIANTS
    ClaimKept
PROPERTIES
    Implements
CHECK_DEADLOCK FALSE
