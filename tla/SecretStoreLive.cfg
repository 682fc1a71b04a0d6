\* Two requests and a plan limit; every request is answered.
SPECIFICATION FairSpec
CONSTANTS
    Requests = {r1, r2}
    Keys = {k1, k2}
    NoRequest = NoRequest
    Original = Original
    MaxSecrets = 1
PROPERTY EveryRequestAnswered
CHECK_DEADLOCK FALSE
