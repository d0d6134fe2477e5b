\* A reviewer's modal and an approval of the same message cross.
CONSTANTS
    Submission = {s1}
    Report = {}
    Install = {i1}
    Worker = {w1}
    Job = {}
    r1 = r1
    outsider = outsider
    User <- MCReviewer
    Reviewer <- MCReviewer
    Decider <- MCDeciderInside
    Cli = Cli
    NoInstall = NoInstall
    Nobody = Nobody
    NoSubmission = NoSubmission
    NoReport = NoReport
    MaxPending = 1
    MaxDaily = 1
    MaxReports = 1
    Ageing = FALSE
    MaxMessages = 1
    MaxInFlight = 2
    MaxFaults = 0
SPECIFICATION Spec
PROPERTY ReviewFollowsLifecycle
SYMMETRY Symmetry
CHECK_DEADLOCK FALSE
