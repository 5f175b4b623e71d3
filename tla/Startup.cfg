SPECIFICATION FairSpec
CONSTANTS
    NoSession = 0
    Processes = {p1, p2}
    Sessions = {1, 2, 3}
    Env <- BothConfigured
    MaxFaults = 2
INVARIANTS
    TypeOK
    ServesOnlyWithSchema
    StartsDontClash
PROPERTIES
    EventuallyServes
    WritersFinish
