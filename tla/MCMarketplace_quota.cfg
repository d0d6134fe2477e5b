\* Templates and takedown requests of one install, two threads, rows that grow old; Discord is down.
CONSTANTS
    Submission = {s1,s2,s3}
    Report = {t1,t2}
    Install = {i1}
    Worker = {w1,w2}
    Job = {}
    r1 = r1
    outsider = outsider
    User <- MCReviewer
    Reviewer <- MCReviewer
    Decider <- MCDeciderInside
    Cli = Cli
    NoInstall = NoInstall
    Nobody = Nobody
    NoSubmission = NoSubmission
    NoReport = NoReport
    MaxPending = 1
    MaxDaily = 1
    MaxReports = 1
    Ageing = TRUE
    MaxMessages = 0
    MaxInFlight = 0
    MaxFaults = 0
SPECIFICATION Spec
INVARIANTS PendingQuotaBound QuotaInv
SYMMETRY Symmetry
CHECK_DEADLOCK FALSE
