SPECIFICATION Spec
CONSTANTS
    w1 = w1
    w2 = w2
    w3 = w3
    Workers <- TwoWorkers
    Nobody = Nobody
    Never = Never
    Threshold = 2
    LockOnMiss = FALSE
    MaxDeaths = 3
    MaxActs = 0
SYMMETRY Interchangeable
CHECK_DEADLOCK FALSE
INVARIANTS EveryIncidentWarned
