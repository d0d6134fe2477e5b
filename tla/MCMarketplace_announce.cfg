\* Every pending template and open takedown request is announced or decided in the end.
CONSTANTS
    Submission = {s1}
    Report = {t1}
    Install = {i1}
    Worker = {w1}
    Job = {j1}
    r1 = r1
    outsider = outsider
    User <- MCReviewer
    Reviewer <- MCReviewer
    Decider <- MCDeciderInside
    Cli = Cli
    NoInstall = NoInstall
    Nobody = Nobody
    NoSubmission = NoSubmission
    NoReport = NoReport
    MaxPending = 1
    MaxDaily = 1
    MaxReports = 1
    Ageing = FALSE
    MaxMessages = 5
    MaxInFlight = 0
    MaxFaults = 1
SPECIFICATION FairSpec
PROPERTIES EventuallyAnnounced ReportEventuallyAnnounced
CHECK_DEADLOCK FALSE
