\* One lease, revoked by its owner; nothing fails.
SPECIFICATION FairSpec
CONSTANTS
    Leases = {l1}
    Instances = {i1}
    Ttl = 1
    Skew = 0
    Limit = 1
    MaxTime = 2
    MaxFaults = 0
PROPERTY RevokedRoleIsDropped
CHECK_DEADLOCK FALSE
