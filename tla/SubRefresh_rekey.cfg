SPECIFICATION Spec
CONSTANTS
    a = a
    b = b
    c = c
    Ident <- Idents
    Gen = {1, 2}
    Cfg <- WithPassword
    Rank <- Ranks
    Look <- Looks
    Url = {u1, u2}
    Feeds <- AnyFeed
    None = None
    Gone = Gone
    MaxRefreshes = 1
    MaxOps = 1
SYMMETRY Symmetry
INVARIANT
    ChangesAreApplied
CHECK_DEADLOCK FALSE
