SPECIFICATION Spec
CONSTANTS
    Nodes = {}
    Edges = {e1}
    Catalog = {}
    Values = {A, B}
    Tombstone = Tombstone
    Absent = Absent
    Txs = {t1, t2}
    NoTx = NoTx
    Readers = {}
    MaxVersion = 2
PROPERTY
    NoLostUpdate
