SPECIFICATION Spec
CONSTANTS
    ann = ann  r1 = r1  r2 = r2  r3 = r3  r4 = r4  eth = eth  spaced = spaced
    None = None
    Request = {r1, r2, r3, r4}
    Old = {ann}
    Text = {eth, spaced}
    Trim <- MCTrim
    Ethereum = {eth}
SYMMETRY Symmetry
INVARIANTS FoundAccountsAgree StaleIsRefused RefusedForACause OrphansHaveACause
CHECK_DEADLOCK FALSE
