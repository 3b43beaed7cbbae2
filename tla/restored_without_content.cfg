SPECIFICATION Spec
CONSTANTS
    NULL = NULL
    Single = Single
    w1 = w1
    w2 = w2
    Workers = {w1}
    user = user
    content = content
    Users = {user}
    Contents = {content}
    Chunks = 1
    Totals = {1}
    Space = 0
    MaxFile = 1
    MaxUserFile = 2
    MaxRecycled = 2
    MaxTask = 1
    MaxDir = 0
    Limit <- MCLimit
    MaxTime = 0
    Ops = {"precheck", "chunk", "trash", "restore", "purge"}
    MaxFailures = 0
INVARIANTS
    ActiveHasContent
CHECK_DEADLOCK FALSE
