\* Two instances, one secret with two schedules, with failures, a trigger and an expiry.
SPECIFICATION FairSpec
CONSTANTS
    s1 = s1
    c1 = c1
    c2 = c2
    b1 = b1
    b2 = b2
    Instances = {i1, i2}
    Secrets = {s1}
    Schedules = {c1, c2}
    Jobs = {j1, j2}
    SecretOf <- OneSecret
    Backends = {b1, b2}
    BackendOf <- TwoBackends
    Hand = Hand
    Nobody = Nobody
    Limit = 2
    Interval = 1
    MaxTime = 1
    MaxGeneration = 2
    MaxFaults = 1
    MaxCalls = 2
INVARIANTS
    MutualExclusion
    InSync
    HistoryTruthful
    PendingValueIsLatest
PROPERTY DueSecretAttempted
CHECK_DEADLOCK FALSE
