\* The poll at the start and the timer's, under fairness.
CONSTANTS
    Poller = {boot, p1}
    Boot = boot
    HistoryLimit = 1
    Null = Null
    NotPayload = {missing}
    MaxReleases = 2
    MaxCommits = 1
    MaxRestarts = 1
SPECIFICATION FairSpec
PROPERTIES CatchesUp FileStaysWhole
INVARIANTS IInv CurrentIsNotBehind
CHECK_DEADLOCK FALSE
