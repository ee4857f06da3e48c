SPECIFICATION Spec
CONSTANTS
    u1 = u1  u2 = u2  a1 = a1  s1 = s1  s2 = s2  v1 = v1  v2 = v2
    l1 = l1  f1 = f1  f2 = f2  None = None
    User = {u1, u2}
    Account = {a1}
    Send = {s1, s2}
    Verify = {v1, v2}
    Logout = {l1}
    Fetch = {f1, f2}
    MaxFailures = 1
    MaxLingering = 1
SYMMETRY Symmetry
INVARIANTS PendingClientsLive SavedSessionsAccepted LogoutIsFinal ClientsLeftForACause
