\* Two connections, two overlapping broadcasts, a channel of one message.
SPECIFICATION FairSpec
CONSTANTS
    w1 = w1
    w2 = w2
    e1 = e1
    Watchers = {w1, w2}
    Broadcasters = {x1, x2}
    Envs = {e1}
    EnvOf <- OneEnv
    Capacity = 1
    MaxEvents = 2
INVARIANTS
    SendsOnlyToOpen
PROPERTIES
    BroadcastEnds
    BroadcastReaches
    VanishedIsForgotten
CHECK_DEADLOCK FALSE
