------------------------------- MODULE Backup -------------------------------
(***************************************************************************)
(* The nightly dump: scripts/backup_db.sh, started by its timer and by     *)
(* hand.                                                                   *)
(*                                                                         *)
(* pg_dump writes what the database held when it began, under the file's   *)
(* final name; set -e and pipefail end a run whose pipeline failed, so     *)
(* that only a run whose dump is whole prunes.  A file's age is in days,   *)
(* as find -mtime counts them.  A run ends on the day it began.  Rows      *)
(* stand for what people can withdraw: the addresses of the waitlist.      *)
(***************************************************************************)
EXTENDS Integers

CONSTANTS
    Row,           \* rows of the database
    Run,           \* the runs of a day
    Nightly,       \* the one of the timer
    RetentionDays  \* TESSERAE_BACKUP_RETENTION_DAYS

ASSUME NightlyIsRun == Nightly \in Run
ASSUME RetentionKnown == RetentionDays \in Nat

VARIABLES
    database,  \* rows that exist
    backup,    \* the runs, with their phase and snapshot
    dumps      \* finished and broken-off files, without those being written

backupVars == <<database, backup, dumps>>

-----------------------------------------------------------------------------

\* Files as old as this are all alike.
Expired == RetentionDays + 1

Dump(age, whole, held) == [age |-> age, whole |-> whole, held |-> held]
Dumps == [age : 0..Expired, whole : BOOLEAN, held : SUBSET Row]

BackupPhases == {"idle", "dumping", "pruning", "done"}
Process(pc, snapshot) == [pc |-> pc, snapshot |-> snapshot]
Become(r, pc, snapshot) == backup' = [backup EXCEPT ![r] = Process(pc, snapshot)]

UnderWay(r) == backup[r].pc \in {"dumping", "pruning"}

BackupInit ==
    /\ database = {}
    /\ backup = [r \in Run |-> Process("idle", {})]
    /\ dumps = {}

Store(row) ==
    /\ row \notin database
    /\ database' = database \cup {row}
    /\ UNCHANGED <<backup, dumps>>

Withdraw(row) ==
    /\ row \in database
    /\ database' = database \ {row}
    /\ UNCHANGED <<backup, dumps>>

StartDump(r) ==
    /\ backup[r].pc = "idle"
    /\ Become(r, "dumping", database)
    /\ UNCHANGED <<database, dumps>>

DumpWhole(r) ==
    /\ backup[r].pc = "dumping"
    /\ dumps' = dumps \cup {Dump(0, TRUE, backup[r].snapshot)}
    /\ Become(r, "pruning", {})
    /\ UNCHANGED database

\* Mutation: without pipefail a broken-off dump goes on to prune.
DumpFailsUnnoticed(r) ==
    /\ backup[r].pc = "dumping"
    /\ \E held \in SUBSET backup[r].snapshot : dumps' = dumps \cup {Dump(0, FALSE, held)}
    /\ Become(r, "pruning", {})
    /\ UNCHANGED database

\* pg_dump fails, the disk is full, or the run is killed: the file stays as
\* far as it was written.
DumpFails(r) ==
    /\ backup[r].pc = "dumping"
    /\ \E held \in SUBSET backup[r].snapshot : dumps' = dumps \cup {Dump(0, FALSE, held)}
    /\ Become(r, "done", {})
    /\ UNCHANGED database

\* Mutation: the pattern of find matches no file.
PruneNone(r) ==
    /\ backup[r].pc = "pruning"
    /\ Become(r, "done", {})
    /\ UNCHANGED <<database, dumps>>

\* find -mtime +RETENTION_DAYS -delete
Prune(r) ==
    /\ backup[r].pc = "pruning"
    /\ dumps' = {d \in dumps : d.age <= RetentionDays}
    /\ Become(r, "done", {})
    /\ UNCHANGED database

PruneKilled(r) ==
    /\ backup[r].pc = "pruning"
    /\ Become(r, "done", {})
    /\ UNCHANGED <<database, dumps>>

Aged(d) == Dump(IF d.age = Expired THEN Expired ELSE d.age + 1, d.whole, d.held)

NextDay ==
    /\ \A r \in Run : ~UnderWay(r)
    /\ dumps' = {Aged(d) : d \in dumps}
    /\ backup' = [r \in Run |-> Process("idle", {})]
    /\ UNCHANGED database

BackupRun(r) ==
    \/ StartDump(r)
    \/ DumpWhole(r)
    \/ DumpFails(r)
    \/ Prune(r)
    \/ PruneKilled(r)

BackupNext ==
    \/ \E row \in Row : Store(row) \/ Withdraw(row)
    \/ \E r \in Run : BackupRun(r)
    \/ NextDay

BackupSpec == BackupInit /\ [][BackupNext]_backupVars

\* Runs end and days pass, the timer starts a run every day, and what it tries
\* day after day succeeds in the end.
BackupFairness ==
    /\ WF_backupVars(NextDay)
    /\ \A r \in Run : WF_backupVars(UnderWay(r) /\ BackupRun(r))
    /\ WF_backupVars(StartDump(Nightly))
    /\ SF_backupVars(DumpWhole(Nightly))
    /\ SF_backupVars(Prune(Nightly))

BackupFairSpec == BackupSpec /\ BackupFairness

-----------------------------------------------------------------------------
(* Properties.                                                             *)

\* Runs and files are of their types, a run that prunes has just written a
\* whole dump, and only a pruned directory has none.
BackupInv ==
    /\ database \subseteq Row
    /\ backup \in [Run -> [pc : BackupPhases, snapshot : SUBSET Row]]
    /\ dumps \subseteq Dumps
    /\ (\E r \in Run : backup[r].pc = "pruning") => \E d \in dumps : d.whole /\ d.age = 0

\* Once there is a whole dump there is one for good, however many nights fail
\* and whatever is pruned (backup_db.sh:17 comes before :18 and ends the
\* script when it fails).
WholeDumpStays == [][(\E d \in dumps : d.whole) => \E d \in dumps' : d.whole]_backupVars

Kept(row) ==
    \/ row \in database
    \/ \E d \in dumps : row \in d.held
    \/ \E r \in Run : row \in backup[r].snapshot

\* "it leaves again on request" (waitlist.py:16): a row withdrawn for good is
\* in no dump in the end.
ForgottenInTheEnd == \A row \in Row : []<>(row \in database \/ ~Kept(row))
=============================================================================
