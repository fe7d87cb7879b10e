SPECIFICATION Spec
CONSTANTS
    Entities = {e1}
    Regions = {A, B}
    Workers = {w1, w2}
    Comps = {}
    Values = {v1}
    None = None
    A = A
    B = B
    w1 = w1
    w2 = w2
    v1 = v1
    e1 = e1
    Compaction = TRUE
    ProcessCrashes = TRUE
    MaxVersion = 2
    MaxEpoch = 2
    MaxId = 0
SYMMETRY Symmetry
INVARIANTS TypeOK IdentityReplayed
