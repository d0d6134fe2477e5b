\* Two requests with the same question.
CONSTANTS
    Caller = {c1, c2}
    Url = {u1}
    NoUrl = NoUrl
    Free = Free
    MaxInFlight = 2
    MinInterval = 1
    MaxEntries = 1
    TtlOk = 1
    TtlError = 1
SPECIFICATION Spec
INVARIANTS OneCallPerQuestion
CHECK_DEADLOCK FALSE
