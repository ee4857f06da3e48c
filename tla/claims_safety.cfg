SPECIFICATION Spec
CONSTANTS
    own = own  tom = tom  l1 = l1  l2 = l2  e1 = e1  e2 = e2  s1 = s1  s2 = s2
    w1 = w1  w2 = w2  tp = tp  None = None
    Login = {l1, l2}
    Edit = {e1, e2}
    Old = {own, tom}
    OldPerson <- MCPerson
    Person = {tp}
    Address = {w1, w2}
    Secret = {s1, s2}
    Owner <- MCOwner
    OldRecord <- TomHasW2
    Wanted <- MCWanted
    MaxFailures = 1
    MaxDeactivations = 1
SYMMETRY Symmetry
INVARIANTS SharedWithHolders TokenMeansLinked QuietLoginsClaim
