\* Polls that do not overlap, under fairness; one kind of each sort, pages of two.
CONSTANTS
    Poller = {boot}
    Boot = boot
    Kind = {k1, k2}
    CommunityKind = {k2}
    community = community
    Source <- MCSource
    MainRepo = main
    HistoryLimit = 2
    NotPayload = {missing}
    MaxReleases = 3
    MaxRestarts = 1
SPECIFICATION FairSpec
INVARIANT IInv
PROPERTIES CarriedOver AnswersNeverGoBack MainCatchesUp
CHECK_DEADLOCK FALSE
