SPECIFICATION Spec
CONSTANTS
    ann = ann  bob = bob  cyd = cyd  k1 = k1  wa = wa  r1 = r1  r2 = r2
    None = None  Unset = Unset
    User = {ann, bob, cyd}
    Wallet <- MCWallet
    Telegram = {ann}
    Key = {k1}
    Wanted <- MCWanted
    Req = {r1, r2}
    MaxSecrets = 3
    MaxRequests = 3
    MaxAdmin = 1
SYMMETRY Symmetry
INVARIANTS NestedOnlyByUpdates DuplicatesRaced 
PROPERTY HiddenIsMaintained
