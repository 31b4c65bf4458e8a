\* A document is deleted after the device has copied the documents for the first
\* page of a listing and before it copies them for the second one.
SPECIFICATION ListingSpec
CONSTANTS
    x = x
    y = y
    z = z
    New = New
    Gone = Gone
    Root = Root
    Documents = {x, y, z}
    Folders = {}
    Names = {1, 2, 3}
    PageSize = 1
    SeedPlaces <- SeedFull
    MaxChanges = 1

INVARIANT
    ListRetrievesAll
CHECK_DEADLOCK FALSE
