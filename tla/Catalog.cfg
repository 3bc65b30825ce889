SPECIFICATION Spec
CONSTANTS
    r1 = r1
    r2 = r2
    s1 = s1
    s2 = s2
    Readers = {r1, r2}
    NoReader = NoReader
    Slots = {s1, s2}
    NoSlot = NoSlot
    Discovery = TRUE
    TTL = 2
    RetryCooldown = 1
    MaxTime = 3
    MaxGrants = 2
SYMMETRY Symmetry
PROPERTIES KeepsPromise RateLimited ReportsAskAtOnce
