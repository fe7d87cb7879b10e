SPECIFICATION SettledSpec
CONSTANTS
    Entities = {e1}
    Regions = {A, B}
    Workers = {w1, w2}
    Comps = {"hp"}
    Values = {v1}
    None = None
    A = A
    B = B
    w1 = w1
    w2 = w2
    v1 = v1
    e1 = e1
    Compaction = TRUE
    ProcessCrashes = FALSE
    MaxVersion = 5
    MaxEpoch = 4
    MaxId = 0
SYMMETRY Symmetry
INVARIANTS VisibleIsDurable RamIsReplay
PROPERTIES NeverRewinds
