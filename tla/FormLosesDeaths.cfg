SPECIFICATION Spec
CONSTANTS
    c1 = c1
    c2 = c2
    w1 = w1
    k1 = k1
    k2 = k2
    k3 = k3
    k4 = k4
    Clients <- TwoClients
    Senders <- OneSender
    Secrets <- FourSecrets
    FirstSecret = k1
    NoSecret = NoSecret
    Overlaps <- TwoOverlaps
    Threshold = 2
    Never = Never
    Forms = TRUE
    MaxTime = 1
    MaxActs = 1
    MaxDeaths = 1
CHECK_DEADLOCK FALSE
INVARIANTS CountIsExact
