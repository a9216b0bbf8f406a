SPECIFICATION Spec
CONSTANTS
    Keys = {a, b}
    Modes = {"NoSync"}
    AuditModes = {"NoSync"}
    MaxCommits = 2
    MaxAudits = 1
    MaxCrashes = 1
    MaxFailures = 0
SYMMETRY Symmetry
CHECK_DEADLOCK FALSE
INVARIANTS
    NoPartialTransaction
