SPECIFICATION Spec
CONSTANTS
    NULL = NULL
    f1 = f1
    f2 = f2
    f3 = f3
    a = a
    b = b
    w1 = w1
    w2 = w2
    FileIDs = {f1, f2}
    Names = {a}
    MaxPart = 2
    Blobs = {}
    Seed <- MCNoSeed
    Workers = {w1, w2}
    Ops = {"create", "url", "complete"}
    Types = {"file"}
    CheckNameModes = {"refuse"}
    MaxRename = 1
    Faults = TRUE
    Sizes <- MCMultipart
    PartLists <- MCFirstOrSecond
    SinglePutMaxSize <- MCSinglePutMaxSize
SYMMETRY Symmetry
INVARIANTS
    ObjectBehindFile
    DeletionsAreDead
    NoGapInObject
    FileHasSession
PROPERTY ImplementsLibrary
CHECK_DEADLOCK FALSE
