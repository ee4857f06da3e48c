SPECIFICATION Spec
CONSTANTS
    own = own  ann = ann  bob = bob  wal = wal  sec = sec  reply = reply
    x = x  y = y  z = z
    addr = addr  r1 = r1  r2 = r2  r3 = r3  None = None
    User = {own, ann, bob, wal}
    Secret = {sec, reply}
    Owner <- MCOwner
    Parent <- MCParent
    Telegram = {bob}
    Newcomer = {bob}
    Address <- MCAddress
    FirstName <- MCNames
    Free = {y}
    Lists <- MCLists
    OldViews <- MCOldViews
    Viewing = {r1, r2}
    MaxEdits = 2
SYMMETRY Symmetry
INVARIANTS ViewsRespectPrivacy NoReturningViewer ServedIsRecorded StatsCountPeople ViewersAreTold
