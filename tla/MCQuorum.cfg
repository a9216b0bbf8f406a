SPECIFICATION Spec
CONSTANTS
    Nodes = {n1, n2, n3}
    NoNode = NoNode
    MaxTerm = 2
    MaxCommands = 2
CONSTRAINT NotOvertaken
ACTION_CONSTRAINT PromptAndFreed
VIEW WhatIsRead
SYMMETRY Symmetry
CHECK_DEADLOCK FALSE
INVARIANTS
    TypeOK
    OneLeaderPerTerm
    AckedOnEveryNode
    IndexesWithinLog
PROPERTIES
    ImplementsReplicatedLog
