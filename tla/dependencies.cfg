SPECIFICATION FairSpec
CONSTANTS
    t1 = t1
    t2 = t2
    t3 = t3
    e1 = e1
    e2 = e2
    w1 = w1
    w2 = w2
    NoTask = NoTask
    NoWorkspace = NoWorkspace
    Tasks = {t1, t2, t3}
    Workspaces = {w1, w2}
    Limit = 1
    Writers = {e1, e2}
    MaxEdits = 2
INVARIANTS
    SoundGraph
    BlockedForAReason
PROPERTIES
    Drains
CHECK_DEADLOCK FALSE
