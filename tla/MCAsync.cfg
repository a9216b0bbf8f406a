SPECIFICATION FairSpec
CONSTANTS
    Keys = {k1}
    Clients = {c1, c2}
    Nobody = Nobody
    Capacity = 1
    AdaptiveFlush = TRUE
    MaxWrites = 2
    MaxFailures = 1
CHECK_DEADLOCK FALSE
INVARIANTS
    TypeOK
    NewestEffective
    ReadsCurrent
    FlushedPersist
PROPERTY
    CallsReturn
