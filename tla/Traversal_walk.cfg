\* A walk through nested folders that are moved about, into cycles too; one entry per page.
SPECIFICATION Spec
CONSTANTS
    x = x
    y = y
    z = z
    f = f
    g = g
    New = New
    Gone = Gone
    Root = Root
    Documents = {x, y, z}
    Folders = {f, g}
    Names = {1, 2}
    PageSize = 1
    SeedPlaces <- SeedNested
    MaxChanges = 2
    Limit = 4
    Patterns <- SomePatterns
INVARIANTS
    UndisturbedListingIsExact
    EmptyListingMissesNothing
    UndisturbedSearchIsExact
    UndisturbedWalkIsExact
    FlatShowsDocumentsOnce
    UndisturbedWalkShowsOnce
PROPERTY
    WalkEnds
CHECK_DEADLOCK FALSE
