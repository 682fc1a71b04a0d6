\* Two goroutines of the application, one started by a stale read; two changes at the
\* server and two failed requests.
SPECIFICATION FairSpec
CONSTANTS
    Apps = {a1, a2}
    Spawned = {g1}
    Main = main
    Poller = poller
    NoThread = none
    MaxRetries = 1
    MaxVersion = 2
    MaxFaults = 2
PROPERTIES
    SecretsNeverGoBack
    EveryCallReturns
    CloseEnds
    EventuallyFresh
CHECK_DEADLOCK FALSE
