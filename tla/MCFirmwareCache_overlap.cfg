\* Two polls at once, one community kind.
CONSTANTS
    Poller = {boot, p1}
    Boot = boot
    Kind = {k2}
    CommunityKind = {k2}
    community = community
    Source <- MCSource
    MainRepo = main
    HistoryLimit = 2
    NotPayload = {missing}
    MaxReleases = 2
    MaxRestarts = 0
SPECIFICATION Spec
PROPERTIES CarriedOver
CHECK_DEADLOCK FALSE
