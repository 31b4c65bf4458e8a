\* A pairing is killed after the device has registered its identity.
SPECIFICATION Spec
CONSTANTS
    p1 = p1
    p2 = p2
    n1 = n1
    n2 = n2
    None = None
    Processes = {p1, p2}
    Names = {n1, n2}
    MaxCalls = 2
    MaxFailures = 0
    MaxKills = 1
SYMMETRY ProfileSymmetry
INVARIANT
    StoredAtomically
CHECK_DEADLOCK FALSE
