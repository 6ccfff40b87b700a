SPECIFICATION Spec
CONSTANTS
    c1 = c1
    c2 = c2
    w1 = w1
    k1 = k1
    k2 = k2
    k3 = k3
    k4 = k4
    Clients <- TwoClients
    Senders <- OneSender
    Secrets <- FourSecrets
    FirstSecret = k1
    NoSecret = NoSecret
    Overlaps <- TwoOverlaps
    Threshold = 1
    Never = Never
    Forms = TRUE
    MaxTime = 4
    MaxActs = 3
    MaxDeaths = 1
CHECK_DEADLOCK FALSE
SYMMETRY Interchangeable
INVARIANTS TypeOK SpentStaysSpent OverlapOfTheLast SignsWithNothingSpent OnMeansNotDisabled
