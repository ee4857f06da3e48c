SPECIFICATION Spec
CONSTANTS
    own = own  ann = ann  bob = bob  wal = wal
    s1 = s1  s2 = s2  r1 = r1  r2 = r2  r3 = r3  q1 = q1  q2 = q2  old = old  older = older  past = past
    NoJob = NoJob  NoReport = NoReport
    User = {own, ann, bob}
    Nameless = {}
    Secret = {s1, s2}
    Owner <- MCOwner
    Reporting = {r1, r2}
    Asked <- TwoOwners
    Resolving = {q1}
    Archive <- MCNoReports
    MaxReports = 2
    PctNum = 3  PctDen = 4
    MaxFailures = 0
    MaxEdits = 0
INVARIANT ResolveCountsItsUser
