SPECIFICATION Spec
CONSTANTS
    a = a
    b = b
    p = p
    q = q
    s1 = s1
    s2 = s2
    Watches = {s1, s2}
    Paths = {p, q}
    PathOf <- MCPathOf
    Dirs = {a, b}
    x1 = x1
    x2 = x2
    Watchers = {x1, x2}
    Interactive = {s2}
    MaxMoves = 2
INVARIANTS
    CancelledIsLast
    PendingIsRetried
    NothingWatches
SYMMETRY Sym
CHECK_DEADLOCK FALSE
