SPECIFICATION Spec
CONSTANTS
    n1 = n1
    n2 = n2
    c1 = c1
    e1 = e1
    t1 = t1
    t2 = t2
    p1 = p1
    p2 = p2
    ordinary = ordinary
    failing = failing
    shop = shop
    mall = mall
    custom = custom
    Envelope = envelope
    CloudEvents = cloudevents
    Package = package
    NoSource = NoSource
    Unstated = Unstated
    Nobody = Nobody
    Blank = Blank
    Endpoints <- TwoEndpoints
    Contexts <- OneContext
    Events <- OneEvent
    Tenants <- TwoTenants
    Names <- BothNames
    Subscriptions <- OrdinaryOrBoth
    Internal <- HealthEvents
    Processes <- TwoProcesses
    Sources <- TwoSources
    FirstSource = shop
    Own <- TwoOfTheirOwn
    Wishes <- TheLatest
    Scoped = TRUE
    MaxMints = 3
    MaxActs = 1
    MaxSelected = 2
CHECK_DEADLOCK FALSE
SYMMETRY Interchangeable
INVARIANTS TypeOK OneBodyPerDelivery IdsAreFresh ReplayIsNarrow ReplayIsOwed TenantBoundary InternalStaysInside
PROPERTIES WholeReplayIsWhole RefusalsStopNothing
