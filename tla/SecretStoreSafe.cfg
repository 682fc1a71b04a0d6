\* Three overlapping requests of any kind on two keys.
SPECIFICATION Spec
CONSTANTS
    Requests = {r1, r2, r3}
    Keys = {k1, k2}
    NoRequest = NoRequest
    Original = Original
    MaxSecrets = 0
SYMMETRY Symmetry
INVARIANTS
    HistoryTruthful
    VersionsUnambiguous
    FirstVersionKept
    AckedWriteLanded
PROPERTY TakesEffectAtomically
CHECK_DEADLOCK FALSE
