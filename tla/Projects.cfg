\* Three overlapping calls, two projects, changes of plan, one failure.
SPECIFICATION Spec
CONSTANTS
    Requests = {r1, r2, r3}
    Slugs = {p1, p2}
    NoSlug = NoSlug
    Plans = {"free", "starter", "business"}
    Limit <- ThreePlans
    MaxFaults = 1
SYMMETRY Symmetry
INVARIANTS
    ProjectLimit
    ProductionIsProtected
PROPERTY ProtectedStays
CHECK_DEADLOCK FALSE
