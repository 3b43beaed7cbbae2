SPECIFICATION Spec
CONSTANTS
    NULL = NULL
    Single = Single
    w1 = w1
    w2 = w2
    Workers = {w1, w2}
    user = user
    content = content
    Users = {user}
    Contents = {content}
    Chunks = 2
    Totals = {0, 2}
    Space = 1
    MaxFile = 2
    MaxUserFile = 1
    MaxRecycled = 2
    MaxTask = 1
    MaxDir = 0
    Limit <- MCLimit
    MaxTime = 1
    Ops = {"precheck", "chunk", "trash", "restore", "purge"}
    MaxFailures = 0
SYMMETRY Symmetry
INVARIANTS
    
    MergeLock
    NoStrandedUpload
    TrashedHasRecord
PROPERTIES
    LiveRequestKept
    ImplementsShelf
CHECK_DEADLOCK FALSE
