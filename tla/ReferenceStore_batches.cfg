\* Batches that fail half-way or exhaust the numbers; inode numbers are reused at once, and a process is killed.
SPECIFICATION LiveSpec
CONSTANTS
    t1 = t1
    t2 = t2
    s1 = s1
    s2 = s2
    d1 = d1
    d2 = d2
    d3 = d3
    bad = bad
    None = None
    Threads = {t1, t2}
    Stores = {s1, s2}
    StoreOf <- OnePerStore
    IDs = {d1, d2, d3, bad}
    ValidIDs = {d1, d2, d3}
    Batches <- Mixed
    Inodes = {i1, i2}
    ClockSteps = {1}
    MaxNumber = 2
    MaxSize = 100
    PowerLoss = FALSE
    MaxCalls = 2
    MaxCrashes = 1
INVARIANTS
    IInv
    CandidatesFindWhatWasTold
    NumbersNeverReused
PROPERTIES
    AllocatorSpec
    AssignEnds
CHECK_DEADLOCK FALSE
