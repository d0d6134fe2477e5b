\* Three requests for two slots, three questions for two entries, under fairness.
CONSTANTS
    Caller = {c1, c2, c3}
    Url = {u1, u2, u3}
    NoUrl = NoUrl
    Free = Free
    MaxInFlight = 2
    MinInterval = 1
    MaxEntries = 2
    TtlOk = 1
    TtlError = 0
SPECIFICATION FairSpec
INVARIANTS IInv InFlightBounded
PROPERTIES CallsSpaced RecentNeverRefetched EveryoneAnswered
CHECK_DEADLOCK FALSE
