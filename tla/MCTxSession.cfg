SPECIFICATION Spec
CONSTANTS
    p1 = p1
    p2 = p2
    Callers = {p1, p2}
    Remote <- Foreign
    MaxEpoch = 2
    MaxSessions = 2
    MaxCalls = 4
    MaxRestarts = 1
INVARIANTS
    TypeOK
    IdsExclusive
    IdsInOrder
    TablesAgree
    OneOutcome
SYMMETRY Symmetry
CHECK_DEADLOCK FALSE
