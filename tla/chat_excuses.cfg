SPECIFICATION Spec
CONSTANTS
    w1 = w1
    w2 = w2
    Workspaces = {w1, w2}
    First = w1
    NoWorkspace = NoWorkspace
    MaxEffects = 1
    MaxSends = 1
    MaxCrashes = 0
    MaxRequests = 0
INVARIANT TruthfulExcuse
