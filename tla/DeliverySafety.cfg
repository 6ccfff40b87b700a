SPECIFICATION Spec
CONSTANTS
    w1 = w1
    w2 = w2
    d1 = d1
    d2 = d2
    Workers <- TwoWorkers
    Deliveries <- TwoDeliveries
    Nobody = Nobody
    Never = Never
    Threshold = 1
    Budget = 2
    MaxRequests = 2
    Unrenderable <- NoDelivery
    Refusals = FALSE
    MaxStalls = 1
    MaxCrashes = 1
    MaxActs = 1
CHECK_DEADLOCK FALSE
SYMMETRY Interchangeable
INVARIANTS TypeOK OnlyDeathsAreNoted DeathsAreCounted BudgetsMultiply RequestsAreAccountedFor DeliveredIsLogged DeathsBehindTheCount LandsOnce
PROPERTIES KeepsThePromise
