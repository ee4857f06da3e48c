SPECIFICATION SearchSpec
CONSTANTS
    A1 = A1  A2 = A2  Nil = Nil
    Person = {1, 2, 3, 4}
    Searchers = {2, 4}
    Telegram = {3, 4}
    Address = {A1, A2}
    Queries <- MCQueries
    Active <- MCActive
    Held <- MCHeld
    Mentions <- MCMentions
    Limit = 1
    MaxChanges = 2
INVARIANTS SearchTypeOK FoundForACause FlaggedForACause PagesForACause
\* The walk ends.
CHECK_DEADLOCK FALSE
