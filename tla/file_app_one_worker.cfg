SPECIFICATION Spec
CONSTANTS
    NULL = NULL
    Single = Single
    w1 = w1
    w2 = w2
    Workers = {w1}
    user = user
    content = content
    Users = {user}
    Contents = {content}
    Chunks = 1
    Totals = {0, 1}
    Space = 1
    MaxFile = 1
    MaxUserFile = 2
    MaxRecycled = 1
    MaxTask = 1
    MaxDir = 2
    Limit <- MCLimit
    MaxTime = 2
    Ops = {"precheck", "chunk", "single", "tasks", "dirs", "move", "trash", "restore", "purge", "empty", "clean"}
    MaxFailures = 1
INVARIANTS
    TypeOK
    MergeLock
    FreeNeverNegative
PROPERTIES
    LiveTaskKept
    LiveRequestKept
    ReferencedContentStays
    RestoredIntoDir
    CompletedHasFile
    ImplementsCarefulShelf
CHECK_DEADLOCK FALSE
