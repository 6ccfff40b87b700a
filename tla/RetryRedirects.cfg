SPECIFICATION Spec
CONSTANTS
    Leases <- LeasesInTicks
    Timeout = 3
    Margin = 2
    Base = 1
    Statuses <- OneOfEachKind
    NoAnswer = NoAnswer
    MaxRedirects = 2
    MaxDrift = 3
CHECK_DEADLOCK FALSE
INVARIANTS NeverOutlivesTheLease
