SPECIFICATION FairSpec

CONSTANTS
    MaxSrvRecords = 2
    Codes = {200, 486, 487}
    INVITE = TRUE
    RESEND_TIMES = 2

INVARIANTS
    TypeOK
    RingingIsCanceled

PROPERTIES
    ImplementsServerHunt
    FinalIsHeard

CHECK_DEADLOCK FALSE
