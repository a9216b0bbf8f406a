SPECIFICATION FairSpec
CONSTANTS
    Nodes = {n1}
    Edges = {e1}
    Catalog = {c1}
    Values = {A}
    Tombstone = Tombstone
    Absent = Absent
    Txs = {t1, t2}
    NoTx = NoTx
    Readers = {r1}
    MaxVersion = 2
ACTION_CONSTRAINT PromptAndSelected
INVARIANTS
    TypeOK
    BackendInStep
    CacheExact
    CountExact
PROPERTIES
    OverwritesOnlyAfterCheck
    ImplementsAtomicCommits
    CommitsReturn
