SPECIFICATION Spec
CONSTANTS
    d1 = d1
    s1 = s1
    k = k
    a = a
    w1 = w1
    chat = chat
    e1 = e1
    p1 = p1
    Null = Null
    NoDataset = NoDataset
    Datasets = {d1}
    Slugs = {s1}
    Cols = {k, a}
    Vals = {1, 2}
    Workers = {w1}
    Chat = chat
    Editors = {e1}
    Approvers = {p1}
    Shapes <- MCShapes
    Batches <- MCBatches
    Changes <- MCChanges
    PageSize = 1
    MaxWrites = 2
    MaxRows = 3
    MaxApprovals = 1
    MaxRequests = 3
INVARIANTS
    RowsAreSound
    DeletionIsAsApproved
    CutIsExplained
    ExportFaithful
CHECK_DEADLOCK FALSE
