SPECIFICATION Spec
CONSTANTS
    w1 = w1
    w2 = w2
    d1 = d1
    d2 = d2
    Workers <- TwoWorkers
    Deliveries <- OneDelivery
    Nobody = Nobody
    Never = Never
    Threshold = 1
    Budget = 2
    MaxRequests = 2
    Unrenderable <- NoDelivery
    Refusals = TRUE
    MaxStalls = 0
    MaxCrashes = 0
    MaxActs = 0
CHECK_DEADLOCK FALSE
SYMMETRY Interchangeable
INVARIANTS DeathsHadARequest
