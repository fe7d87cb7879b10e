SPECIFICATION FairSpec
CONSTANTS
    w1 = w1  w2 = w2  e1 = e1  a = a
    None = None  Torn = Torn
    Nodes = {w1, w2, e1}
    Regions = {"W", "E"}
    Entities = {a}
    RegionOf <- MCRegionOf
    MaxEpoch = 4
    MaxQueue = 1
    Deployments <- MCDeployments
INVARIANTS SingleOwner Kept
PROPERTIES OneStands DrainEnds
CHECK_DEADLOCK FALSE
