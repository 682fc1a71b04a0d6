\* Two overlapping calls, two subscriptions of different tiers, one failure.
SPECIFICATION Spec
CONSTANTS
    s1 = s1
    s2 = s2
    Requests = {r1, r2}
    Subscriptions = {s1, s2}
    NoSubscription = NoSubscription
    Tier <- TwoTiers
    MaxFaults = 1
    MaxHooks = 2
INVARIANTS
    TypeOK
    PlanWasBought
    FreeIsNotActive
    PaidPlanIsCovered
PROPERTY PayingIsServed
CHECK_DEADLOCK FALSE
