\* The machine loses power after a number was handed out.
SPECIFICATION Spec
CONSTANTS
    t1 = t1
    t2 = t2
    s1 = s1
    s2 = s2
    d1 = d1
    d2 = d2
    d3 = d3
    bad = bad
    None = None
    Threads = {t1, t2}
    Stores = {s1, s2}
    StoreOf <- OnePerStore
    IDs = {d1, d2, d3}
    ValidIDs = {d1, d2, d3}
    Batches <- Objects
    Inodes = {i1, i2}
    ClockSteps = {1}
    MaxNumber = 5
    MaxSize = 100
    PowerLoss = TRUE
    MaxCalls = 2
    MaxCrashes = 1
INVARIANT
    NumbersNeverReused
CHECK_DEADLOCK FALSE
