\* One part at a time: two addresses, one row and two runs a day, one install
\* and two threads, one client and two days of telemetry.
CONSTANTS
    Home = Home
    HomeUpper = HomeUpper
    Work = Work
    NoAddress = NoAddress
    home = home
    work = work
    Email <- MCEmail
    Typed <- MCTyped
    NoEmail = NoEmail
    Normalised <- MCNormalised
    Row = {row}
    Run = {nightly, byHand}
    Nightly = nightly
    RetentionDays = 1
    Install = {i1}
    Thread = {t1, t2}
    None = None
    Custom = {c1}
    MaxSecrets = 3
    MaxLosses = 1
    CatalogAge = 1
    PictureAge = 2
    MaxTime = 3
    Client = {n1}
    Anonymous = Anonymous
    Version = {v1, unknown}
    Windows <- MCWindows
    CheckDays = 0
    MaxDay = 1
    MaxChecks = 2
SPECIFICATION RecordsFairSpec
INVARIANTS RecordsInv CreditedAsStored PreviewKept UnaskedAreLate WindowsNested VersionsCoverTotals EntriesCredited TakedownShows
PROPERTIES AskedOnce SecretSettles WholeDumpStays ForgottenInTheEnd
CHECK_DEADLOCK FALSE
