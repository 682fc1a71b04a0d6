\* Two changes at the server, one retry and two failed requests.
SPECIFICATION FairSpec
CONSTANTS
    MaxRetries = 1
    MaxVersion = 2
    MaxFaults = 2
INVARIANTS
    NeverGoesBack
PROPERTIES
    EventuallyFresh
    DestroyEnds
CHECK_DEADLOCK FALSE
