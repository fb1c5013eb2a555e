SPECIFICATION Spec
CONSTANTS
    a = a
    b = b
    c = c
    Ident <- Idents
    Gen = {1, 2}
    Cfg <- Ladder
    Rank <- Ranks
    Look <- Looks
    Url = {u1, u2}
    Feeds <- AnyFeed
    None = None
    Gone = Gone
    MaxRefreshes = 2
    MaxOps = 1
SYMMETRY Symmetry
INVARIANT
    SelectedRowStands
CHECK_DEADLOCK FALSE
