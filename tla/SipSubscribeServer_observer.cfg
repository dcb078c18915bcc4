SPECIFICATION FairSpec

CONSTANTS
    p1 = p1
    p2 = p2
    Publishers = {p1, p2}
    d1 = d1
    Dialogs = {d1}
    Duration = 1
    MaxTime = 0
    MaxVersions = 1
    MaxSubscribes = 1
    MaxToggles = 2

PROPERTY CallbackReturns

CHECK_DEADLOCK FALSE
