SPECIFICATION FairSpec
CONSTANTS
    w1 = w1
    w2 = w2
    Workspaces = {w1, w2}
    First = w1
    NoWorkspace = NoWorkspace
    MaxEffects = 1
    MaxSends = 2
    MaxCrashes = 1
    MaxRequests = 2
INVARIANTS EffectsOnce Attended
PROPERTIES RepliesAreTrue InOrder Drains
