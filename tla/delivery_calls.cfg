SPECIFICATION FairSendSpec
CONSTANTS
    ann = ann  bob = bob  share = share  note = note
    HasToken = TRUE
    User = {ann, bob}
    SendCall = {share, note}
    To <- MCTo
    ToSelf = {note}
    Retries <- MCRetries
    DbFaults = TRUE
    MaxAccountChanges = 1
INVARIANTS CopiesWithinRetries SentWasDelivered PrivacyKept
PROPERTIES KeepsPromise EveryCallEnds
