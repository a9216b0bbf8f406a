SPECIFICATION Spec
CONSTANTS
    k1 = k1
    k2 = k2
    Keys = {k1, k2}
    Labels = {A, B}
    Tombstone = Tombstone
    Readers = {r1, r2}
    Pruners = {p1}
    Namespaces <- MCNamespaces
    NoReader = NoReader
    Retains = {0}
    MaxPerKey = {1, 2}
    MinVersions = {2}
    MaxVersion = 2
SYMMETRY Symmetry
INVARIANTS
    TypeOK
    LatestSnapshotComplete
    LeasesCounted
    CurrentLabelsExact
    HeadsInHistory
    ChainsFaithful
    SnapshotNeverSeesFuture
PROPERTY ViewLostOnlyToForeignPrune
