SPECIFICATION FairSpec
CONSTANTS
    Brokers = {b1, b2}
    Entities = {e1}
    None = None
    b1 = b1
    b2 = b2
    e1 = e1
    Compaction = TRUE
    Failures = FALSE
    MaxEpoch = 3
    MaxLease = 1
    MaxQueue = 1
PROPERTIES StuckOnlyIfRefused
CHECK_DEADLOCK FALSE
