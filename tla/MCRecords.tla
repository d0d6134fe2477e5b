------------------------------ MODULE MCRecords ------------------------------
(***************************************************************************)
(* The waitlist, the backups, the author names, the catalog over them, and *)
(* the telemetry on small instances.  None of them waits for another, so   *)
(* that a behaviour is one of a single part, and their numbers of states   *)
(* add up.                                                                 *)
(***************************************************************************)
EXTENDS Waitlist, Backup, Catalog, Telemetry

CONSTANTS Home, HomeUpper, Work, NoAddress, home, work

VARIABLE part

recordsVars ==
    <<part, waitlistVars, backupVars, identityVars, catalogVars, telemetryVars>>

\* An address is written in two ways, and what is none is refused.
MCEmail == {home, work}
MCTyped == {Home, HomeUpper, Work, NoAddress}
MCNormalised ==
    [t \in MCTyped |-> CASE t \in {Home, HomeUpper} -> home
                         [] t = Work -> work
                         [] OTHER -> NoEmail]

MCWindows == <<0, 1>>

CatalogParts == {"index", "document", "picture"}

RecordsInit ==
    /\ part \in {"waitlist", "backup", "identity", "telemetry"} \cup CatalogParts
    /\ WaitlistInit
    /\ BackupInit
    /\ IdentityInit /\ (part # "identity" => configured)
    /\ CatalogInit
    /\ TelemetryInit

\* Previews, losses and threads that meet are those of the part "identity", and
\* a cache knows nothing of other resources.
OneResource ==
    /\ losses' = 0
    /\ \A t \in Thread : request'[t] = Quiet \/ request'[t].publish
    /\ \E t \in Thread : \A u \in Thread \ {t} : request'[u] = Quiet
    /\ \A r \in Resource : r[1] # part => fetch'[r] = NoFetch

RecordsNext ==
    \/ /\ part = "waitlist" /\ WaitlistNext
       /\ UNCHANGED <<part, backupVars, identityVars, catalogVars, telemetryVars>>
    \/ /\ part = "backup" /\ BackupNext
       /\ UNCHANGED <<part, waitlistVars, identityVars, catalogVars, telemetryVars>>
    \/ /\ part = "identity" /\ IdentityNext
       /\ UNCHANGED <<part, waitlistVars, backupVars, catalogVars, telemetryVars>>
    \/ /\ part \in CatalogParts /\ CatalogNext /\ OneResource
       /\ UNCHANGED <<part, waitlistVars, backupVars, telemetryVars>>
    \/ /\ part = "telemetry" /\ TelemetryNext
       /\ UNCHANGED <<part, waitlistVars, backupVars, identityVars, catalogVars>>

RecordsSpec == RecordsInit /\ [][RecordsNext]_recordsVars

\* The one liveness property is about backups: BackupFairness, asked of the
\* behaviours in which the backups move and of no other.
BackupsRun(A) == part = "backup" /\ A
RecordsFairness ==
    /\ WF_backupVars(BackupsRun(NextDay))
    /\ \A r \in Run : WF_backupVars(BackupsRun(UnderWay(r) /\ BackupRun(r)))
    /\ WF_backupVars(BackupsRun(StartDump(Nightly)))
    /\ SF_backupVars(BackupsRun(DumpWhole(Nightly)))
    /\ SF_backupVars(BackupsRun(Prune(Nightly)))

RecordsFairSpec == RecordsSpec /\ RecordsFairness

\* The inductive invariants of the parts: types, and what a row, a file, a name
\* or a figure in one place says of another.
RecordsInv ==
    WaitlistInv /\ BackupInv /\ IdentityInv /\ CatalogInv /\ TelemetryInv /\ ChecksInv
=============================================================================
