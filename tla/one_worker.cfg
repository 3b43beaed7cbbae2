SPECIFICATION Spec
CONSTANTS
    NULL = NULL
    f1 = f1
    f2 = f2
    f3 = f3
    a = a
    b = b
    w1 = w1
    w2 = w2
    FileIDs = {f1, f2}
    Names = {a, b}
    MaxPart = 2
    Blobs = {}
    Seed <- MCNoSeed
    Workers = {w1}
    Ops = {"create", "complete", "url", "delete", "rename", "moveFile", "moveFolder", "trash", "restore", "clear"}
    Types = {"file", "folder"}
    CheckNameModes = {"refuse", "overwrite", "auto_rename"}
    MaxRename = 1
    Faults = FALSE
    Sizes <- MCSizes
    PartLists <- MCPartLists
    SinglePutMaxSize <- MCSinglePutMaxSize
SYMMETRY Symmetry
INVARIANTS
    TypeOK
    FileHasSession
    NoOrphan
PROPERTIES
    CompletedFileIsKept
    OnlyBinnedIsDestroyed
    LoopsComeFromTheBin
    DeletionIsScheduled
    ImplementsLibrary
CHECK_DEADLOCK FALSE
