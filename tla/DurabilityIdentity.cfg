SPECIFICATION Spec
CONSTANTS
    Entities = {e1, e2}
    Regions = {A, B}
    Workers = {w1}
    Comps = {}
    Values = {v1}
    None = None
    A = A
    B = B
    w1 = w1
    v1 = v1
    e1 = e1
    e2 = e2
    Compaction = TRUE
    ProcessCrashes = FALSE
    MaxVersion = 2
    MaxEpoch = 2
    MaxId = 1
SYMMETRY Symmetry
INVARIANTS IdentityRecoverable
PROPERTIES ImplementsIdentityStore
