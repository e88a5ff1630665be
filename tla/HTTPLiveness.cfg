SPECIFICATION FairSpec
CONSTANTS
    Requests = {q1, q2}
    Receipts = {r1}
    WithCredentials = {q2}
    SingleUAV = {q2}
    ClientIds = FALSE
    None = None
PROPERTIES
    LoneRequestIsAnswered
CHECK_DEADLOCK FALSE
