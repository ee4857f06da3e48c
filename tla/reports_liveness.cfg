SPECIFICATION FairSpec
CONSTANTS
    own = own  ann = ann  bob = bob  wal = wal
    s1 = s1  s2 = s2  r1 = r1  r2 = r2  r3 = r3  q1 = q1  q2 = q2  old = old  older = older  past = past
    NoJob = NoJob  NoReport = NoReport
    User = {own, ann, bob}
    Nameless = {}
    Secret = {s1}
    Owner <- OneOwner
    Reporting = {r1, r2}
    Asked <- TwoReporters
    Resolving = {q1}
    Archive <- MCArchive
    MaxReports = 2
    PctNum = 3  PctDen = 4
    MaxFailures = 1
    MaxEdits = 0
PROPERTY EventuallyRestricted
