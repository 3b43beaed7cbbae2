SPECIFICATION FairSpec
CONSTANTS
    NULL = NULL
    f1 = f1
    f2 = f2
    f3 = f3
    a = a
    b = b
    w1 = w1
    w2 = w2
    FileIDs = {f1, f2}
    Names = {a}
    MaxPart = 2
    Blobs = {}
    Seed <- MCNoSeed
    Workers = {w1}
    Ops = {"create", "complete", "trash", "delete", "clear"}
    Types = {"file"}
    CheckNameModes = {"refuse", "overwrite", "auto_rename"}
    MaxRename = 1
    Faults = FALSE
    Sizes <- MCMultipart
    PartLists <- MCOnePart
    SinglePutMaxSize <- MCSinglePutMaxSize
PROPERTIES
    RequestsEnd
    HashIsRecorded
    DeletedObjectGoes
CHECK_DEADLOCK FALSE
