\* Two clients register with one device while its PIN changes and requests go astray.
SPECIFICATION LiveSpec
CONSTANTS
    c1 = c1
    c2 = c2
    None = None
    Clients = {c1, c2}
    Strays = {late}
    Pins = {p1, p2}
    MaxCalls = 2
    MaxFailures = 2
    MaxPins = 1
INVARIANTS
    SuccessMeansRegistered
    FailuresHaveReasons
PROPERTIES
    SettledStaysSettled
    KeepsThePromise
    RegisterGoesOn
CHECK_DEADLOCK FALSE
