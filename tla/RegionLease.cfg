SPECIFICATION FairSpec
CONSTANTS
    Workers = {w1, w2}
    Regions = {A, B}
    Entities = {e1}
    None = None
    w1 = w1
    w2 = w2
    A = A
    B = B
    e1 = e1
    Failures = TRUE
    MaxSessions = 2
INVARIANTS TypeOK OwnerIsReplay FailoverUnites
PROPERTIES LiveLeaseKept Reclaimed
