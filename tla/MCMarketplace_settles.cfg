\* A report in progress while the template is taken down.
CONSTANTS
    Submission = {s1}
    Report = {t1}
    Install = {i1}
    Worker = {w1, w2}
    Job = {}
    r1 = r1
    outsider = outsider
    User <- MCReviewer
    Reviewer <- MCReviewer
    Decider <- MCDeciderInside
    Cli = Cli
    NoInstall = NoInstall
    Nobody = Nobody
    NoSubmission = NoSubmission
    NoReport = NoReport
    MaxPending = 1
    MaxDaily = 1
    MaxReports = 1
    Ageing = FALSE
    MaxMessages = 2
    MaxInFlight = 1
    MaxFaults = 0
SPECIFICATION Spec
INVARIANT TakedownSettlesReports
SYMMETRY Symmetry
CHECK_DEADLOCK FALSE
