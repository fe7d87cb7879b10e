SPECIFICATION Spec
CONSTANTS
    a = a  b = b  w1 = w1  w2 = w2  p1 = p1  p2 = p2  k = k  r1 = r1
    W = W  E = E  None = None
    Entities = {a, b}
    Regions = {W, E}
    Workers = {w1, w2, p1, p2, k}
    Serves <- MCServes
    Pilots = {p1, p2}
    Admin = k
    Requests = {r1}
    Deployments <- MCDeployments
INVARIANTS HeldIsCurrent AnswerFromHolder ContactApart
PROPERTIES EpochsOnlyGrow
CHECK_DEADLOCK FALSE
