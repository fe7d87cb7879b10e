SPECIFICATION ZoneSpec
CONSTANTS
    a = a  b = b  w1 = w1  w2 = w2  s1 = s1
    None = None
    Workers = {w1, w2, s1}
    Entities = {a, b}
    Deployments <- MCDeployments
INVARIANTS NobodyElseSimulates OwnerSimulates AdoptsWhereItWas
CHECK_DEADLOCK FALSE
