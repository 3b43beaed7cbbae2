SPECIFICATION Spec
CONSTANTS
    NULL = NULL
    f1 = f1
    f2 = f2
    f3 = f3
    a = a
    b = b
    w1 = w1
    w2 = w2
    FileIDs = {f1, f2}
    Names = {a, b}
    MaxPart = 1
    Blobs = {}
    Seed <- MCTwoFolders
    Workers = {w1}
    Ops = {"trash", "moveFolder"}
    Types = {}
    CheckNameModes = {"refuse", "overwrite", "auto_rename"}
    MaxRename = 1
    Faults = FALSE
    Sizes = {1}
    PartLists = {{}}
    SinglePutMaxSize <- MCSinglePutMaxSize
INVARIANT Acyclic
CHECK_DEADLOCK FALSE
