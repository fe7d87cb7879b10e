SPECIFICATION Spec
CONSTANTS
    a = a  b = b  w1 = w1  w2 = w2  c1 = c1  o1 = o1
    None = None
    Peers = {w1, w2, c1, o1}
    Entities = {a, b}
    Serves <- MCServes
    Deployments <- MCDeployments
INVARIANTS ViewMatches CacheFollows GridNamesWorkers GhostsApart
CHECK_DEADLOCK FALSE
