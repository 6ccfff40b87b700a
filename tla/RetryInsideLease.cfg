SPECIFICATION TransportSpec
CONSTANTS
    name = name
    public = public
    loopback = loopback
    metadata = metadata
    shared = shared
    Leases <- LeasesInTicks
    Timeout = 2
    Margin = 1
    Base = 1
    Statuses <- OneOfEachKind
    NoAnswer = NoAnswer
    MaxRedirects = 2
    MaxDrift = 2
    Names <- OneName
    Addresses <- FourAddresses
    Kinds <- FourKinds
    Url = name
CHECK_DEADLOCK FALSE
INVARIANTS TransportTypeOK FinishesInsideLease DialsOnlySafe HistoryIsWhole RequestsFitTheLease
PROPERTIES NothingFollowsAnAnswer Ends
