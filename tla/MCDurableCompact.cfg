SPECIFICATION Spec
CONSTANTS
    Keys = {a, b}
    Modes = {"Batch"}
    AuditModes = {}
    MaxCommits = 2
    MaxAudits = 0
    MaxCrashes = 0
    MaxFailures = 0
SYMMETRY Symmetry
CHECK_DEADLOCK FALSE
PROPERTIES
    CompactsOnlyDurable
