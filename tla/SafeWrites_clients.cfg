\* Two clients use every operation of the library on a folder with a document beside it.
SPECIFICATION Spec
CONSTANTS
    c1 = c1
    c2 = c2
    alpha = alpha
    beta = beta
    gamma = gamma
    Alpha = Alpha
    None = None
    Blank = Blank
    Clients = {c1, c2}
    Strays = {late}
    Names = {Alpha}
    Contents = {x, y}
    Fold <- FoldCase
    SeedFolders <- SeedOneFolder
    SeedDocuments <- SeedOneDocument
    Paths <- TreePaths
    Operations <- AllOperations
    MoveTargets <- OnlyRoot
    MaxCalls = 2
    MaxFailures = 2
SYMMETRY ClientSymmetry
INVARIANTS
    ClientOK
    PathsFollowParents
    PathsAreUnique
    GuardedWritesDestroyWhatWasSeen
    DeletedStaysDeleted
    PublishedWasThere
    PartialNamesOwnEntry
PROPERTY
    FoldersVanishEmpty
CHECK_DEADLOCK FALSE
