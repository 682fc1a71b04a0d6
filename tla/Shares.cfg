\* Three requests at a time on one link, for any number of views or at most two, and four events.
SPECIFICATION Spec
CONSTANTS
    Requests = {r1, r2, r3}
    MaxEvents = 4
    Links = {l1}
    Limits = {0, 1, 2}
    MaxViews = 3
    NoLink = NoLink
SYMMETRY Symmetry
INVARIANTS
    ViewLimit
    ChainRooted
CHECK_DEADLOCK FALSE
