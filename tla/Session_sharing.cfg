\* Two callers share a Client, a third has its own; requests are abandoned or repeated, clients are paired.
SPECIFICATION Spec
CONSTANTS
    c1 = c1
    c2 = c2
    c3 = c3
    own = own
    other = other
    i1 = i1
    i2 = i2
    k1 = k1
    k2 = k2
    None = None
    Callers = {c1, c2, c3}
    Strays = {late}
    Handles = {own, other}
    HandleOf <- TwoClients
    Identities = {i1, i2}
    Keys = {k1, k2}
    IdentityOf <- TwoIdentities
    FirstKeys <- OneRegistered
    CookieForms <- Forms
    MaxCalls <- FourCalls
    Pairings <- SomePairing
    MaxEvents = 1
INVARIANTS
    CredentialsAreOwnSessions
    NoncesAreGoodOnce
    RefusedForAReason
    CredentialsStayGood
CHECK_DEADLOCK FALSE
