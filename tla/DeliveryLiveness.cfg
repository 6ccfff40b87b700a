SPECIFICATION FairSpec
CONSTANTS
    w1 = w1
    w2 = w2
    d1 = d1
    d2 = d2
    Workers <- TwoWorkers
    Deliveries <- TwoDeliveries
    Nobody = Nobody
    Never = Never
    Threshold = 1
    Budget = 2
    MaxRequests = 1
    Unrenderable <- OnlyTheSecond
    Refusals = TRUE
    MaxStalls = 0
    MaxCrashes = 1
    MaxActs = 1
CHECK_DEADLOCK FALSE
PROPERTIES KeepsItInTheEnd
