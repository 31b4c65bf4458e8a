\* Two users work on a small tree with paths and with references that were printed before.
SPECIFICATION CommandsSpec
CONSTANTS
    c1 = c1
    c2 = c2
    alpha = alpha
    beta = beta
    gamma = gamma
    paper = paper
    None = None
    Blank = Blank
    Clients = {c1, c2}
    Strays = {}
    Names = {alpha, beta, gamma}
    Contents = {x}
    Fold <- NoFolding
    SeedFolders <- SeedFolder
    SeedDocuments <- SeedPair
    Paths = {}
    Operations <- AllOperations
    MoveTargets = {}
    MaxCalls = 99
    MaxFailures = 1
    CommandLines <- SomeLines
    Locals = {paper}
    Digest <- Digits3
    MinDigits = 1
    MaxCommands <- OneEach
PROPERTIES
    ReferencesSelectTheirObject
    CommandsNeverOverwrite
    GottenFilesStayWhole
CHECK_DEADLOCK FALSE
