SPECIFICATION ExchangeSpec

CONSTANTS
    MaxSrvRecords = 1
    Codes = {200, 486, 487}
    INVITE = TRUE
    RESEND_TIMES = 2

INVARIANT AckMeansHeard

PROPERTY AnswerSettles

CHECK_DEADLOCK FALSE
