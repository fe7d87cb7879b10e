SPECIFICATION Spec
CONSTANTS
    Brokers = {b1, b2}
    Entities = {e1}
    None = None
    b1 = b1
    b2 = b2
    e1 = e1
    Compaction = FALSE
    Failures = TRUE
    MaxEpoch = 3
    MaxLease = 2
    MaxQueue = 1
SYMMETRY Symmetry
INVARIANTS SingleOwnerUnlessMisled OwnerIsNewestUnlessMisled NothingLostUnlessMisled
CHECK_DEADLOCK FALSE
