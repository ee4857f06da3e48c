SPECIFICATION Spec
CONSTANTS
    ann = ann  bob = bob  wal = wal  A1 = A1  A2 = A2
    None = None
    Listing = {"own", "children", "adminSecrets", "shared", "sharedWhole",
               "notifications", "logs", "users", "usersExceptMe", "reports",
               "adminNotifications", "adminLogs", "reportedUsers",
               "recipients", "recipientsWhole"}
    MaxDocs = 4
    Limit = 2
    Filter = {"active", "shown", "parents", "ofReader"}
    Person = {ann, bob, wal}
    Me = ann
    Owner <- MCOwner
    Telegram = {bob}
    Address = {A1, A2}
    Readers <- MCReaders
    Says <- MCSays
    Stored <- MCStored
    MaxChanges = 2
INVARIANTS TypeOK MissedForACause RepeatedForACause ExtraForACause ViewsShownForACause
\* The walk ends.
CHECK_DEADLOCK FALSE
