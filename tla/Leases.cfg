\* Two leases, two instances, listings of one lease, two failures.
SPECIFICATION FairSpec
CONSTANTS
    Leases = {l1, l2}
    Instances = {i1, i2}
    Ttl = 1
    Skew = 1
    Limit = 1
    MaxTime = 2
    MaxFaults = 2
INVARIANTS
    NoStrayRole
    HandedOutIsRecorded
PROPERTY ExpiredIsMarked
CHECK_DEADLOCK FALSE
