SPECIFICATION Spec
CONSTANTS
    w1 = w1
    w2 = w2
    w3 = w3
    Workers <- ThreeWorkers
    Nobody = Nobody
    Never = Never
    Threshold = 2
    LockOnMiss = TRUE
    MaxDeaths = 4
    MaxActs = 2
SYMMETRY Interchangeable
CHECK_DEADLOCK FALSE
INVARIANTS EveryIncidentWarned
PROPERTIES KeepsTheContract
