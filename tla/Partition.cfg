SPECIFICATION Spec
CONSTANTS
    a = a  b = b  c = c  w1 = w1  w2 = w2  w3 = w3  None = None
    Entities = {a, b, c}
    Workers = {w1, w2, w3}
    Parent <- MCParent
    Deployments <- MCDeployments
    Reach = 1
    MaxStaged = 1
INVARIANTS InItsZone AssemblyTogether DepartedBelongs VersionNamesMap BlockWhole
PROPERTIES Sheds
CHECK_DEADLOCK FALSE
