SPECIFICATION FairSpec
CONSTANTS
    Nodes = {1, 2, 3}
    Local = {1}
    Commands = {1}
    Levels = {"quorum"}
    Callers = {"c1"}
    Scheduled = {"w1"}
    Manual = {"m1"}
    MaxRecords = 1
    MaxCalls = 2
    MaxFailures = 2
    MaxFaults = 1
INVARIANTS
    TypeOK
    AckedReachEveryReplica
    ReplaysAreDue
    EmptyReadsMissNothing
PROPERTY
    HintsAreDelivered
CHECK_DEADLOCK FALSE
