SPECIFICATION Spec
CONSTANTS
    NULL = NULL
    Single = Single
    w1 = w1
    w2 = w2
    Workers = {w1, w2}
    user = user
    content = content
    Users = {user}
    Contents = {content}
    Chunks = 2
    Totals = {2}
    Space = 0
    MaxFile = 1
    MaxUserFile = 1
    MaxRecycled = 0
    MaxTask = 1
    MaxDir = 0
    Limit <- MCLimit
    MaxTime = 0
    Ops = {"precheck", "chunk"}
    MaxFailures = 0
SYMMETRY Symmetry
INVARIANTS
    MergedIsWhole
CHECK_DEADLOCK FALSE
