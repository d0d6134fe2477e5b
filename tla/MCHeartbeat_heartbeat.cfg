\* Two workers, two pings over two days, and a script that migrates at the
\* side of the API.
CONSTANTS
    Api = api
    Reporter = script
    Script = {script}
    TemplateTable = templates
    WaitlistTable = cloud_waitlist
    HeartbeatTable = heartbeats_and_kinds
    c1 = c1
    c2 = c2
    c3 = c3
    i1 = i1
    k1 = k1
    k2 = k2
    k3 = k3
    junk = junk
    Kind = {k1, k2, k3}
    Worker = {w1, w2}
    NoInstall = NoInstall
    Table <- MCTable
    Imports <- MCImports
    Column = {c1, c2, c3}
    Added <- MCAdded
    AddedColumns <- MCAddedColumns
    Bodies <- MCBodies
    MaxKinds = 2
    Window = 0
    MaxPings = 2
    MaxDay = 1
    MaxStops = 1
SPECIFICATION FairSpec
INVARIANTS IInv ServingIsMigrated KindsNeverWait LatestWhole KindsAccounted
PROPERTIES ImplementsReports EventuallyServes
CHECK_DEADLOCK FALSE
