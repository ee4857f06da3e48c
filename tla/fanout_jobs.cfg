SPECIFICATION FairSpec
CONSTANTS
    own = own  ann = ann  bob = bob  share = share  reply = reply  ask = ask  call = call  tell = tell
    None = None
    Job = {share, reply, ask, call, tell}
    Account = {own, ann, bob}
    Kind <- MCKind
    Sender <- MCSender
    Told <- MCTold
    SecretOwner = own
    Same <- MCSame
    Telegram = {own, ann}
    Entry = {1, 2}
    Found <- MCFound
    MaxHolders = 2
    MaxJobs = 1
    MaxChanges = 1
INVARIANTS SilenceHasACause CountedWereDelivered
PROPERTIES JobsEnd
CHECK_DEADLOCK FALSE
