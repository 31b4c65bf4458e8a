\* Two processes import, pair, select and list profiles in one configuration.
SPECIFICATION Spec
CONSTANTS
    p1 = p1
    p2 = p2
    n1 = n1
    n2 = n2
    None = None
    Processes = {p1, p2}
    Names = {n1, n2}
    MaxCalls = 2
    MaxFailures = 1
    MaxKills = 1
SYMMETRY ProfileSymmetry
INVARIANTS
    ProfilesOK
    ProfileHasItsKey
    DefaultIsUsable
    ListingsAreComplete
PROPERTIES
    CreatedProfilesStay
    DefaultIsKept
    DeviceIsContactedForOwnName
CHECK_DEADLOCK FALSE
