SPECIFICATION Spec
CONSTANTS
    Requests = {q1, q2}
    Receipts = {r1, r2}
    WithCredentials = {q2}
    SingleUAV = {}
    ClientIds = FALSE
    None = None
SYMMETRY Symmetry
INVARIANTS
    TypeOK
    OwnResponse
    AnswerIsComplete
    NoClientLeftBehind
CHECK_DEADLOCK FALSE
