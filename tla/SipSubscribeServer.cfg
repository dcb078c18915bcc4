SPECIFICATION Spec

CONSTANTS
    p1 = p1
    p2 = p2
    Publishers = {p1, p2}
    d1 = d1
    d2 = d2
    Dialogs = {d1, d2}
    Duration = 1
    MaxTime = 2
    MaxVersions = 2
    MaxSubscribes = 3
    MaxToggles = 3

INVARIANTS
    TypeOK
    LatestContentKnown
    SubscriptionHasDialog

CHECK_DEADLOCK FALSE
