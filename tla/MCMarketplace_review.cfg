\* A template, two takedown requests, a reviewer, an outsider and the maintainer.
CONSTANTS
    Submission = {s1}
    Report = {t1, t2}
    Install = {i1}
    Worker = {w1}
    Job = {}
    r1 = r1
    outsider = outsider
    User <- MCUser
    Reviewer <- MCReviewer
    Decider <- MCDecider
    Cli = Cli
    NoInstall = NoInstall
    Nobody = Nobody
    NoSubmission = NoSubmission
    NoReport = NoReport
    MaxPending = 2
    MaxDaily = 2
    MaxReports = 1
    Ageing = FALSE
    MaxMessages = 2
    MaxInFlight = 1
    MaxFaults = 1
SPECIFICATION Spec
INVARIANTS IInv AnnouncedIsActionable OpenReportIsActionable
PROPERTY ImplementsModeration
SYMMETRY Symmetry
CHECK_DEADLOCK FALSE
