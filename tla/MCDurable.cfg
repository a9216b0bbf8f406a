SPECIFICATION Spec
CONSTANTS
    Keys = {a, b}
    Modes = {"NoSync", "Batch", "Immediate"}
    AuditModes = {"Immediate"}
    MaxCommits = 2
    MaxAudits = 1
    MaxCrashes = 2
    MaxFailures = 1
SYMMETRY Symmetry
CHECK_DEADLOCK FALSE
INVARIANTS
    TypeOK
    PromisedSurvive
    LoggedNeverForgotten
PROPERTIES
    ReplaysOnlyUnapplied
    ImplementsDurableHistory
