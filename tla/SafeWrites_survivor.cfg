\* The answer to the creating request of a put is lost.
SPECIFICATION Spec
CONSTANTS
    c1 = c1
    c2 = c2
    alpha = alpha
    beta = beta
    gamma = gamma
    Alpha = Alpha
    None = None
    Blank = Blank
    Clients = {c1, c2}
    Strays = {late}
    Names = {alpha, beta}
    Contents = {x}
    Fold <- FoldCase
    SeedFolders <- SeedOneFolder
    SeedDocuments <- SeedOneDocument
    Paths <- TreePaths
    Operations <- PutOnly
    MoveTargets <- OnlyRoot
    MaxCalls = 1
    MaxFailures = 1
SYMMETRY ClientSymmetry
INVARIANT
    SurvivorIsNamed
CHECK_DEADLOCK FALSE
