---------------------------- MODULE RecordsProofs ----------------------------
(***************************************************************************)
(* Theorems of Waitlist, Backup, AuthorIdentity, Catalog and Telemetry,    *)
(* and of MCRecords, which puts them side by side.  Each part has an       *)
(* inductive invariant; its other theorems follow from it.                 *)
(***************************************************************************)
EXTENDS MCRecords, FiniteInduction

-----------------------------------------------------------------------------
(* The waitlist.                                                           *)

\* What is marked are rows that wait, and nothing else of the rows changes.
LEMMA MarkInvitedKeeps ==
    ASSUME WaitlistInv, NEW emails, MarkInvited(emails), EndRound,
           \/ emails = sent
           \/ emails = Email /\ sent = printed, round
    PROVE  WaitlistInv'
BY DEF WaitlistInv, MarkInvited, EndRound, Waiting, UnaskedAreLate

\* A step of the waitlist keeps its invariant.
LEMMA WaitlistStep == WaitlistInv /\ [WaitlistNext]_waitlistVars => WaitlistInv'
<1> SUFFICES ASSUME WaitlistInv, [WaitlistNext]_waitlistVars PROVE WaitlistInv'
    OBVIOUS
<1> USE NormalisedKnown, NoEmailIsNone DEF WaitlistInv, Waiting, UnaskedAreLate
<1>1. ASSUME NEW t \in Typed, Join(t) PROVE WaitlistInv'
    BY <1>1 DEF Join
<1>2. ASSUME NEW t \in Typed, Leave(t) PROVE WaitlistInv'
    BY <1>2 DEF Leave
<1>3. ASSUME NEW t \in Typed, Unmark(t) PROVE WaitlistInv'
    BY <1>3 DEF Unmark
<1>4. CASE PrintEmails
    BY <1>4 DEF PrintEmails
<1>5. ASSUME NEW e \in Email, SendMail(e) PROVE WaitlistInv'
    BY <1>5 DEF SendMail
<1>6. CASE Mark
    BY <1>6, MarkInvitedKeeps DEF Mark
<1>7. CASE MarkAllPending
    BY <1>7, MarkInvitedKeeps DEF MarkAllPending
<1>8. CASE UNCHANGED waitlistVars
    BY <1>8 DEF waitlistVars
<1> QED
    BY <1>1, <1>2, <1>3, <1>4, <1>5, <1>6, <1>7, <1>8 DEF WaitlistNext

LEMMA WaitlistStart == WaitlistInit => WaitlistInv
BY DEF WaitlistInit, WaitlistInv, Waiting, UnaskedAreLate

\* The waitlist's columns and the maintainer's list fit together in every
\* behaviour: whoever was mailed and still waits is in this round or has been
\* released from an earlier one.
THEOREM WaitlistHolds == WaitlistSpec => []WaitlistInv
BY WaitlistStart, WaitlistStep, PTL DEF WaitlistSpec

\* Only addresses that signed up during a round are marked without a mail
\* (mark_invited without addresses).
THEOREM UnaskedHolds == WaitlistSpec => []UnaskedAreLate
<1>1. WaitlistInv => UnaskedAreLate
    BY DEF WaitlistInv
<1> QED
    BY <1>1, WaitlistHolds, PTL

\* Nobody is mailed twice without leaving or being unmarked in between.
THEOREM AskedOnceHolds == WaitlistSpec => AskedOnce
<1>1. ASSUME WaitlistInv, [WaitlistNext]_waitlistVars
      PROVE  [\A e \in sent' \ sent : e \in mailed => e \in released]_waitlistVars
    <2> USE DEF WaitlistInv
    <2> SUFFICES ASSUME NEW e \in sent' \ sent, e \in mailed PROVE e \in released
        OBVIOUS
    <2>1. ASSUME NEW f \in Email, SendMail(f) PROVE e \in released
        BY <1>1, <2>1 DEF SendMail
    <2>2. (\A f \in Email : ~SendMail(f)) => sent' \subseteq sent
        BY <1>1 DEF WaitlistNext, Join, Leave, Unmark, PrintEmails, Mark, MarkAllPending,
                    MarkInvited, EndRound, waitlistVars
    <2> QED
        BY <2>1, <2>2
<1> QED
    BY <1>1, WaitlistHolds, PTL DEF WaitlistSpec, AskedOnce

-----------------------------------------------------------------------------
(* The backups.                                                            *)

\* Files grow older within the ages a file can have.
LEMMA AgedIsDump ==
    ASSUME NEW d \in Dumps
    PROVE  Aged(d) \in Dumps /\ Aged(d).whole = d.whole
BY RetentionKnown DEF Aged, Dumps, Dump, Expired

\* What runs and people do keeps the invariant of the backups.
LEMMA BackupStep == BackupInv /\ [BackupNext]_backupVars => BackupInv'
<1> SUFFICES ASSUME BackupInv, [BackupNext]_backupVars PROVE BackupInv'
    OBVIOUS
<1> USE DEF BackupInv
<1>1. ASSUME NEW row \in Row, Store(row) \/ Withdraw(row) PROVE BackupInv'
    BY <1>1 DEF Store, Withdraw
<1>2. ASSUME NEW r \in Run, StartDump(r) PROVE BackupInv'
    BY <1>2 DEF StartDump, Become, Process, BackupPhases
<1>3. ASSUME NEW r \in Run, DumpWhole(r) PROVE BackupInv'
    <2>1. Dump(0, TRUE, backup[r].snapshot) \in Dumps
        BY RetentionKnown DEF Dump, Dumps, Expired
    <2>2. Dump(0, TRUE, backup[r].snapshot).whole /\ Dump(0, TRUE, backup[r].snapshot).age = 0
        BY DEF Dump
    <2>3. backup' \in [Run -> [pc : BackupPhases, snapshot : SUBSET Row]]
        BY <1>3 DEF DumpWhole, Become, Process, BackupPhases
    <2> QED
        BY <1>3, <2>1, <2>2, <2>3 DEF DumpWhole
<1>4. ASSUME NEW r \in Run, DumpFails(r) PROVE BackupInv'
    <2>1. PICK held \in SUBSET backup[r].snapshot : dumps' = dumps \cup {Dump(0, FALSE, held)}
        BY <1>4 DEF DumpFails
    <2>2. Dump(0, FALSE, held) \in Dumps
        BY RetentionKnown DEF Dump, Dumps, Expired
    <2>3. backup' \in [Run -> [pc : BackupPhases, snapshot : SUBSET Row]]
        BY <1>4 DEF DumpFails, Become, Process, BackupPhases
    <2>4. \A s \in Run : backup'[s].pc = "pruning" => backup[s].pc = "pruning"
        BY <1>4 DEF DumpFails, Become, Process
    <2> QED
        BY <1>4, <2>1, <2>2, <2>3, <2>4 DEF DumpFails
<1>5. ASSUME NEW r \in Run, Prune(r) PROVE BackupInv'
    <2>1. backup' \in [Run -> [pc : BackupPhases, snapshot : SUBSET Row]]
        BY <1>5 DEF Prune, Become, Process, BackupPhases
    <2>2. \A s \in Run : backup'[s].pc = "pruning" => backup[s].pc = "pruning"
        BY <1>5 DEF Prune, Become, Process
    <2>3. \A d \in dumps : d.age = 0 => d \in dumps'
        BY <1>5, RetentionKnown DEF Prune
    <2> QED
        BY <1>5, <2>1, <2>2, <2>3 DEF Prune
<1>6. ASSUME NEW r \in Run, PruneKilled(r) PROVE BackupInv'
    BY <1>6 DEF PruneKilled, Become, Process, BackupPhases
<1>7. CASE NextDay
    <2>1. dumps' \subseteq Dumps
        BY <1>7, AgedIsDump DEF NextDay
    <2>2. backup' \in [Run -> [pc : BackupPhases, snapshot : SUBSET Row]]
        BY <1>7 DEF NextDay, Process, BackupPhases
    <2>3. \A s \in Run : backup'[s].pc = "idle"
        BY <1>7 DEF NextDay, Process
    <2> QED
        BY <1>7, <2>1, <2>2, <2>3 DEF NextDay
<1>8. CASE UNCHANGED backupVars
    BY <1>8 DEF backupVars
<1> QED
    BY <1>1, <1>2, <1>3, <1>4, <1>5, <1>6, <1>7, <1>8 DEF BackupNext, BackupRun

LEMMA BackupStart == BackupInit => BackupInv
BY DEF BackupInit, BackupInv, Process, BackupPhases

\* A run that prunes has written a whole dump (set -e and pipefail).
THEOREM BackupHolds == BackupSpec => []BackupInv
BY BackupStart, BackupStep, PTL DEF BackupSpec

\* The last whole dump is never pruned, for any retention, any number of
\* overlapping runs and any failures.
THEOREM WholeDumpHolds == BackupSpec => WholeDumpStays
<1>1. ASSUME BackupInv, [BackupNext]_backupVars
      PROVE  [(\E d \in dumps : d.whole) => \E d \in dumps' : d.whole]_backupVars
    <2> USE DEF BackupInv
    <2> SUFFICES ASSUME NEW d \in dumps, d.whole PROVE \E e \in dumps' : e.whole
        OBVIOUS
    <2>1. ASSUME NEW r \in Run, Prune(r) PROVE \E e \in dumps' : e.whole
        <3>1. PICK e \in dumps : e.whole /\ e.age = 0
            BY <1>1, <2>1 DEF Prune
        <3> QED
            BY <2>1, <3>1, RetentionKnown DEF Prune
    <2>2. CASE NextDay
        <3>1. Aged(d) \in dumps'
            BY <2>2 DEF NextDay
        <3> QED
            BY <1>1, <3>1, AgedIsDump
    <2>3. ASSUME ~NextDay, \A r \in Run : ~Prune(r) PROVE dumps \subseteq dumps'
        BY <1>1, <2>3 DEF BackupNext, BackupRun, Store, Withdraw, StartDump, DumpWhole,
                          DumpFails, PruneKilled, backupVars
    <2> QED
        BY <2>1, <2>2, <2>3
<1> QED
    BY <1>1, BackupHolds, PTL DEF BackupSpec, WholeDumpStays

-----------------------------------------------------------------------------
(* The telemetry.                                                          *)

\* A longer window has what a shorter one has.
LEMMA WindowsWidenSeen ==
    ASSUME hits \subseteq Nat \X (Client \cup {Anonymous}),
           NEW i \in 1..Len(Windows), NEW j \in 1..Len(Windows), i < j, NEW now \in Nat
    PROVE  SeenSince(now - Windows[i]) \subseteq SeenSince(now - Windows[j])
<1>1. Windows[i] \in Nat /\ Windows[j] \in Nat /\ Windows[i] < Windows[j]
    BY WindowsWiden
<1> QED
    BY <1>1 DEF SeenSince

\* Requests and queries keep the invariant of the report.
LEMMA TelemetryStep == TelemetryInv /\ [TelemetryNext]_telemetryVars => TelemetryInv'
<1> SUFFICES ASSUME TelemetryInv, [TelemetryNext]_telemetryVars PROVE TelemetryInv'
    OBVIOUS
<1> USE DEF TelemetryInv
<1>1. ASSUME UNCHANGED report, today' \in Nat, hits \subseteq hits',
             hits' \subseteq Nat \X (Client \cup {Anonymous})
      PROVE  TelemetryInv'
    BY <1>1 DEF WindowsNested, SeenSince, Report
<1>2. CASE ReadWindow
    <2> DEFINE n == Len(report.seen) + 1
               counted == SeenSince(report.now - Windows[n])
    <2>1. report.seen' = Append(report.seen, counted) /\ report.now' = report.now
          /\ UNCHANGED <<hits, today>> /\ n \in 1..Len(Windows)
        BY <1>2, WindowsWiden DEF ReadWindow, Answer, Reading, Report
    <2>2. report' = Report(report.pc, report.now, report.seen, report.total, report.versions)'
        BY <1>2 DEF ReadWindow, Answer, Report
    <2>3. counted \in SUBSET Client
        BY DEF SeenSince
    <2>4. report.seen' \in Seq(SUBSET Client) /\ Len(report.seen') = n
          /\ report.seen'[n] = counted
          /\ \A i \in 1..Len(report.seen) : report.seen'[i] = report.seen[i]
        <3> HIDE DEF counted
        <3> QED
            BY <2>1, <2>3
    <2>5. \A i \in 1..n : report.seen'[i] \subseteq SeenSince(report.now - Windows[i])
        BY <2>4
    <2>6. \A i \in 1..n - 1 : report.seen'[i] \subseteq counted
        <3> TAKE i \in 1..n - 1
        <3>1. i \in 1..Len(Windows) /\ i < n
            BY <2>1
        <3>2. report.seen'[i] \subseteq SeenSince(report.now - Windows[i])
            BY <2>1, <2>5
        <3> QED
            BY <2>1, <3>1, <3>2, WindowsWidenSeen
    <2> HIDE DEF counted
    <2>7. WindowsNested'
        BY <2>1, <2>4, <2>6 DEF WindowsNested
    <2>8. \A i \in 1..n : report.seen'[i] \subseteq SeenSince(report.now - Windows[i])'
        BY <2>1, <2>5 DEF SeenSince
    <2> QED
        BY <2>1, <2>2, <2>4, <2>7, <2>8
<1>3. CASE StartReport
    BY <1>3 DEF StartReport, Answer, Report, NoFigure, Figure, WindowsNested
<1>4. CASE ReadTotal \/ ReadVersions
    <2>1. report.seen' = report.seen /\ report.now' = report.now /\ UNCHANGED <<hits, today>>
        BY <1>4 DEF ReadTotal, ReadVersions, Answer, Report
    <2>2. report' = Report(report.pc, report.now, report.seen, report.total, report.versions)'
        BY <1>4 DEF ReadTotal, ReadVersions, Answer, Report
    <2> QED
        BY <2>1, <2>2 DEF WindowsNested, SeenSince
<1>5. ASSUME NEW c \in Client \cup {Anonymous}, RecordHit(c) PROVE TelemetryInv'
    <2>1. hits \subseteq hits' /\ hits' \subseteq Nat \X (Client \cup {Anonymous})
        BY <1>5 DEF RecordHit
    <2> QED
        BY <1>1, <1>5, <2>1 DEF RecordHit
<1>6. ASSUME NEW v \in Version, RecordCheck(v) PROVE TelemetryInv'
    <2>1. UNCHANGED <<today, hits, report>>
        BY <1>6, Zenon DEF RecordCheck
    <2> QED
        BY <1>1, <2>1
<1>7. CASE Midnight
    BY <1>1, <1>7 DEF Midnight
<1>8. CASE UNCHANGED telemetryVars
    <2>1. UNCHANGED <<today, hits, report>>
        BY <1>8 DEF telemetryVars
    <2> QED
        BY <1>1, <2>1
<1> QED
    BY <1>2, <1>3, <1>4, <1>5, <1>6, <1>7, <1>8 DEF TelemetryNext

LEMMA TelemetryStart == TelemetryInit => TelemetryInv
BY WindowsWiden DEF TelemetryInit, TelemetryInv, Report, WindowsNested

\* The windows of a report are nested although each is a query of its own, for
\* any windows that widen.
THEOREM WindowsHold == TelemetrySpec => []WindowsNested
<1>1. TelemetryInv => WindowsNested
    BY DEF TelemetryInv
<1> QED
    BY <1>1, TelemetryStart, TelemetryStep, PTL DEF TelemetrySpec

-----------------------------------------------------------------------------
(* The checks.                                                             *)

\* What a query of a day adds up when the counters are f.
CountedOf(f, d) == {k \in DOMAIN f : k[1] >= d - CheckDays}
CountedIn(f, d) == SumOver(f, CountedOf(f, d))

LEMMA ChecksAreSums ==
    ASSUME NEW d
    PROVE  /\ ChecksCounted(d) = Figure(d, CountedIn(checks, d))
           /\ ChecksCounted(d)' = Figure(d, CountedIn(checks', d))
<1>1. ChecksCounted(d) = Figure(d, CountedIn(checks, d))
    BY DEF ChecksCounted, CountedIn, CountedOf, SumOver, MapThenSumSet, MapThenFoldSet
<1>2. ChecksCounted(d)' = Figure(d, CountedIn(checks', d))
    BY DEF ChecksCounted, CountedIn, CountedOf, SumOver, MapThenSumSet, MapThenFoldSet, Figure
<1> QED
    BY <1>1, <1>2

\* Counters that grow make the figure of a day grow.
LEMMA CountersGrow ==
    ASSUME NEW f \in [(0..MaxDay) \X Version -> Nat],
           NEW g \in [(0..MaxDay) \X Version -> Nat],
           \A k \in (0..MaxDay) \X Version : f[k] <= g[k],
           NEW d
    PROVE  /\ CountedIn(f, d) \in Nat /\ CountedIn(g, d) \in Nat
           /\ CountedIn(f, d) <= CountedIn(g, d)
<1>1. IsFiniteSet((0..MaxDay) \X Version)
    <2>1. IsFiniteSet(0..MaxDay)
        BY FS_Interval, TelemetryBounds
    <2> QED
        BY <2>1, FS_Product, VersionsFinite
<1>2. CountedOf(f, d) \in SUBSET ((0..MaxDay) \X Version) /\ CountedOf(g, d) = CountedOf(f, d)
    BY DEF CountedOf
<1>3. IsFiniteSet(CountedOf(f, d))
    BY <1>1, <1>2, FS_Subset
<1>4. \A k \in CountedOf(f, d) : f[k] \in Nat /\ g[k] \in Nat /\ f[k] <= g[k]
    BY <1>2
<1> QED
    BY <1>2, <1>3, <1>4, SumGrows DEF CountedIn

\* Checks and queries keep the invariant of the report on checks.
LEMMA ChecksStep == ChecksInv /\ [TelemetryNext]_telemetryVars => ChecksInv'
<1> SUFFICES ASSUME ChecksInv, [TelemetryNext]_telemetryVars PROVE ChecksInv'
    OBVIOUS
<1> DEFINE Counters == [(0..MaxDay) \X Version -> Nat]
           d == report.total.day
           n == report.total.n
<1>1. /\ today \in 0..MaxDay /\ checks \in Counters
      /\ report = Report(report.pc, report.now, report.seen, report.total, report.versions)
      /\ report.pc = "total" =>
            report.total \in [day : 0..MaxDay, n : Nat] /\ n <= CountedIn(checks, d)
      /\ VersionsCoverTotals
    BY ChecksAreSums DEF ChecksInv, Figure
<1>2. ASSUME today' \in 0..MaxDay, checks' \in Counters,
             report' = Report(report.pc, report.now, report.seen, report.total, report.versions)',
             (report.pc = "total")' =>
                 /\ report'.total \in [day : 0..MaxDay, n : Nat]
                 /\ report'.total.n <= CountedIn(checks', report'.total.day),
             VersionsCoverTotals'
      PROVE  ChecksInv'
    <2>1. ChecksCounted(report.total.day)' =
            Figure(report'.total.day, CountedIn(checks', report'.total.day))
        BY DEF ChecksCounted, CountedIn, CountedOf, SumOver, MapThenSumSet, MapThenFoldSet, Figure
    <2>2. (report.pc = "total" => report.total.n <= ChecksCounted(report.total.day).n)'
        BY <1>2, <2>1 DEF Figure
    <2> QED
        BY <1>2, <2>2 DEF ChecksInv
<1>3. ASSUME UNCHANGED report, today' \in 0..MaxDay, checks' \in Counters,
             \A k \in (0..MaxDay) \X Version : checks[k] <= checks'[k]
      PROVE  ChecksInv'
    <2>1. report.pc = "total" => n <= CountedIn(checks', d)
        <3> SUFFICES ASSUME report.pc = "total" PROVE n <= CountedIn(checks', d)
            OBVIOUS
        <3>1. /\ CountedIn(checks, d) \in Nat /\ CountedIn(checks', d) \in Nat
              /\ CountedIn(checks, d) <= CountedIn(checks', d)
            BY <1>1, <1>3, CountersGrow
        <3> QED
            BY <1>1, <3>1
    <2>2. VersionsCoverTotals'
        BY <1>1, <1>3 DEF VersionsCoverTotals
    <2>3. report' = Report(report.pc, report.now, report.seen, report.total, report.versions)'
        BY <1>1, <1>3 DEF Report
    <2> QED
        BY <1>1, <1>2, <1>3, <2>1, <2>2, <2>3
<1>4. CountedIn(checks, today) \in Nat
    BY <1>1, CountersGrow
<1>5. ChecksCounted(today) = Figure(today, CountedIn(checks, today))
    BY ChecksAreSums
<1> HIDE DEF d, n
<1>6. CASE StartReport
    BY <1>1, <1>2, <1>6 DEF StartReport, Answer, Report, VersionsCoverTotals
<1>7. CASE ReadWindow
    BY <1>1, <1>2, <1>7 DEF ReadWindow, Answer, Report, VersionsCoverTotals
<1>8. CASE ReadTotal
    <2>1. /\ report' = [report EXCEPT !.pc = "total", !.total = Figure(today, CountedIn(checks, today))]
          /\ UNCHANGED <<today, checks>>
        BY <1>5, <1>8 DEF ReadTotal, Answer
    <2>2. /\ report'.pc = "total"
          /\ report'.total = Figure(today, CountedIn(checks, today))
          /\ report' = Report(report.pc, report.now, report.seen, report.total, report.versions)'
        BY <1>1, <2>1 DEF Report
    <2>3. /\ report'.total \in [day : 0..MaxDay, n : Nat]
          /\ report'.total.n <= CountedIn(checks, report'.total.day)
        BY <1>1, <1>4, <2>2 DEF Figure
    <2>4. VersionsCoverTotals'
        BY <2>2 DEF VersionsCoverTotals
    <2> QED
        BY <1>1, <1>2, <2>1, <2>2, <2>3, <2>4
<1>9. CASE ReadVersions
    <2>1. /\ report' = [report EXCEPT !.pc = "done", !.versions = Figure(today, CountedIn(checks, today))]
          /\ UNCHANGED <<today, checks>> /\ report.pc = "total"
        BY <1>5, <1>9 DEF ReadVersions, Answer
    <2>2. /\ report'.total = report.total /\ report'.pc = "done"
          /\ report'.versions = Figure(today, CountedIn(checks, today))
          /\ report' = Report(report.pc, report.now, report.seen, report.total, report.versions)'
        BY <1>1, <2>1 DEF Report
    <2>3. report'.versions.day = today /\ report'.versions.n = CountedIn(checks, today)
        BY <2>2 DEF Figure
    <2>4. report.total.day = today => report.total.n <= CountedIn(checks, today)
        BY <1>1, <2>1 DEF d, n
    <2>5. VersionsCoverTotals'
        BY <2>2, <2>3, <2>4 DEF VersionsCoverTotals
    <2> QED
        BY <1>1, <1>2, <2>1, <2>2, <2>5
<1>10. ASSUME NEW c \in Client \cup {Anonymous}, RecordHit(c) PROVE ChecksInv'
    BY <1>1, <1>3, <1>10 DEF RecordHit
<1>11. ASSUME NEW v \in Version, RecordCheck(v) PROVE ChecksInv'
    <2>1. /\ checks' = [checks EXCEPT ![<<today, v>>] = @ + 1]
          /\ UNCHANGED <<today, report>>
        BY <1>11, Zenon DEF RecordCheck
    <2>2. checks' \in Counters /\ \A k \in (0..MaxDay) \X Version : checks[k] <= checks'[k]
        BY <1>1, <2>1
    <2> QED
        BY <1>1, <1>3, <2>1, <2>2
<1>12. CASE Midnight
    BY <1>1, <1>3, <1>12, TelemetryBounds DEF Midnight
<1>13. CASE UNCHANGED telemetryVars
    BY <1>1, <1>3, <1>13 DEF telemetryVars
<1> QED
    BY <1>6, <1>7, <1>8, <1>9, <1>10, <1>11, <1>12, <1>13 DEF TelemetryNext

LEMMA ChecksStart == TelemetryInit => ChecksInv
BY TelemetryBounds DEF TelemetryInit, ChecksInv, Report, NoFigure, Figure, VersionsCoverTotals

\* A report's figures per version account for every check in its totals of the
\* same day, although checks are counted in between, for any finite set of
\* versions: a sum of counters that grow does not shrink.
THEOREM VersionsHold == TelemetrySpec => []VersionsCoverTotals
<1>1. ChecksInv => VersionsCoverTotals
    BY DEF ChecksInv
<1> QED
    BY <1>1, ChecksStart, ChecksStep, PTL DEF TelemetrySpec

-----------------------------------------------------------------------------
(* The names of installs.                                                  *)

\* A thread's new locals are of their types and leave the others alone.
LEMMA LocalsTyped ==
    ASSUME IdentityTypes, NEW t \in Thread, NEW pc \in IdentityPhases,
           NEW i \in Install \cup {None}, NEW publish \in BOOLEAN, NEW name \in Nat,
           request' = [request EXCEPT ![t] = Locals(pc, i, publish, name)]
    PROVE  /\ request' \in [Thread -> [pc : IdentityPhases, install : Install \cup {None},
                                       publish : BOOLEAN, name : Nat]]
           /\ request'[t].pc = pc /\ request'[t].install = i /\ request'[t].name = name
           /\ \A u \in Thread \ {t} : request'[u] = request[u]
BY DEF IdentityTypes, Locals

\* The same for a thread that goes on with its request.
LEMMA ContinueTyped ==
    ASSUME IdentityTypes, NEW t \in Thread, NEW pc \in IdentityPhases, NEW name \in Nat,
           Continue(t, pc, name)
    PROVE  /\ request' \in [Thread -> [pc : IdentityPhases, install : Install \cup {None},
                                       publish : BOOLEAN, name : Nat]]
           /\ request'[t].pc = pc /\ request'[t].install = Author(t) /\ request'[t].name = name
           /\ \A u \in Thread \ {t} : request'[u] = request[u]
<1>1. Author(t) \in Install \cup {None} /\ request[t].publish \in BOOLEAN
    BY DEF IdentityTypes, Author
<1> QED
    BY <1>1, LocalsTyped DEF Continue

\* And for one whose request is over.
LEMMA EndTyped ==
    ASSUME IdentityTypes, NEW t \in Thread, EndRequest(t)
    PROVE  /\ request' \in [Thread -> [pc : IdentityPhases, install : Install \cup {None},
                                       publish : BOOLEAN, name : Nat]]
           /\ request'[t].pc = "idle"
           /\ \A u \in Thread \ {t} : request'[u] = request[u]
BY LocalsTyped DEF EndRequest, Quiet, IdentityPhases

\* A step of one thread that changes nothing but its locals keeps the invariant
\* if they are what the table or the secret says.
LEMMA RequestMoves ==
    ASSUME IdentityInv, NEW t \in Thread,
           UNCHANGED <<configured, losses, rowVars, secretVars, answerVars>>,
           request' \in [Thread -> [pc : IdentityPhases, install : Install \cup {None},
                                   publish : BOOLEAN, name : Nat]],
           \A u \in Thread \ {t} : request'[u] = request[u],
           request'[t].pc # "idle" => request'[t].install \in Install,
           request'[t].pc = "submission" => pseudonym[request'[t].install] = request'[t].name,
           request'[t].pc \notin Making,
           request'[t].pc \in Deriving /\ ~raced => Given(request'[t].name)
    PROVE  IdentityInv'
<1> USE DEF IdentityInv, rowVars, secretVars, answerVars
<1>1. IdentityTypes'
    BY DEF IdentityTypes
<1>2. RequestsOK'
    BY DEF RequestsOK, At, Author
<1>3. (\A i \in Install : perks[i] # <<FALSE, None>> => pseudonym[i] # None)'
    OBVIOUS
<1>4. CreditedAsStored'
    BY DEF CreditedAsStored
<1>5. (~raced => OneSecret)'
    BY DEF OneSecret, Given
<1> QED
    BY <1>1, <1>2, <1>3, <1>4, <1>5

\* A preview's answer ends its request; it is of the table, the secret or a
\* sponsor.
LEMMA PreviewKeeps ==
    ASSUME IdentityInv, NEW t \in Thread, NEW name, Author(t) \in Install, Preview(t, name),
           name \in Nat \cup Custom, ~raced => name \in Custom \/ Given(name),
           UNCHANGED <<configured, losses, rowVars, secretVars, credited>>
    PROVE  IdentityInv'
<1> USE DEF IdentityInv, rowVars, secretVars
<1>1. /\ request' \in [Thread -> [pc : IdentityPhases, install : Install \cup {None},
                                   publish : BOOLEAN, name : Nat]]
      /\ request'[t].pc = "idle"
      /\ \A u \in Thread \ {t} : request'[u] = request[u]
    BY EndTyped DEF Preview
<1>2. shown' = shown \cup {<<Author(t), name>>}
    BY DEF Preview
<1>3. IdentityTypes'
    BY <1>1, <1>2 DEF IdentityTypes
<1>4. RequestsOK'
    BY <1>1 DEF RequestsOK, At, Author, Making
<1>5. CreditedAsStored'
    BY DEF CreditedAsStored
<1>6. (~raced => OneSecret)'
    BY <1>1, <1>2 DEF OneSecret, Given, Making, Deriving
<1> QED
    BY <1>3, <1>4, <1>5, <1>6

\* The steps that only move a request keep the invariant.
LEMMA RequestStep ==
    ASSUME IdentityInv, NEW t \in Thread,
           \/ \E i \in Install, publish \in BOOLEAN : Begin(t, i, publish)
           \/ PreviewUnknown(t)
           \/ FindAuthor(t)
           \/ FailRequest(t)
    PROVE  IdentityInv'
<1> USE DEF IdentityInv
<1>0. \A pc \in IdentityPhases : At(t, pc) /\ pc # "idle" => Author(t) \in Install
    BY DEF RequestsOK, At
<1>1. ASSUME NEW i \in Install, NEW publish \in BOOLEAN, Begin(t, i, publish)
      PROVE  IdentityInv'
    <2>1. PICK pc \in {"secret", "preview"} :
              request' = [request EXCEPT ![t] = Locals(pc, i, publish, 0)]
        BY <1>1 DEF Begin
    <2>2. pc \in IdentityPhases /\ 0 \in Nat /\ i \in Install \cup {None}
        BY DEF IdentityPhases
    <2>3. pc \notin Making \cup Deriving \cup {"submission"}
        BY DEF Making, Deriving
    <2>4. /\ request' \in [Thread -> [pc : IdentityPhases, install : Install \cup {None},
                                      publish : BOOLEAN, name : Nat]]
          /\ request'[t].pc = pc /\ request'[t].install = i
          /\ \A u \in Thread \ {t} : request'[u] = request[u]
        BY <2>1, <2>2 DEF IdentityTypes, Locals
    <2>5. UNCHANGED <<configured, losses, rowVars, secretVars, answerVars>>
        BY <1>1 DEF Begin
    <2> QED
        BY <2>3, <2>4, <2>5, RequestMoves
<1>2. CASE PreviewUnknown(t)
    <2>1. "secret" \in IdentityPhases \ (Making \cup Deriving) /\ 0 \in Nat
        BY DEF IdentityPhases, Making, Deriving
    <2>2. Author(t) \in Install
        BY <1>0, <1>2 DEF PreviewUnknown, IdentityPhases
    <2>3. /\ request' \in [Thread -> [pc : IdentityPhases, install : Install \cup {None},
                                      publish : BOOLEAN, name : Nat]]
          /\ request'[t].pc = "secret" /\ request'[t].install = Author(t)
          /\ \A u \in Thread \ {t} : request'[u] = request[u]
        BY <1>2, <2>1, ContinueTyped DEF PreviewUnknown
    <2>4. UNCHANGED <<configured, losses, rowVars, secretVars, answerVars>>
        BY <1>2 DEF PreviewUnknown
    <2> QED
        BY <2>1, <2>2, <2>3, <2>4, RequestMoves
<1>3. CASE FindAuthor(t)
    <2>1. Author(t) \in Install /\ request[t].name \in Nat
        BY <1>0, <1>3 DEF FindAuthor, IdentityPhases, Deriving, IdentityTypes
    <2>2. pseudonym[Author(t)] \in Nat \cup {None}
        BY <2>1 DEF IdentityTypes
    <2>3. UNCHANGED <<configured, losses, rowVars, secretVars, answerVars>>
        BY <1>3 DEF FindAuthor
    <2>4. CASE pseudonym[Author(t)] # None /\ Continue(t, "submission", pseudonym[Author(t)])
        <3>1. "submission" \in IdentityPhases \ (Making \cup Deriving)
            BY DEF IdentityPhases, Making, Deriving
        <3>2. /\ request' \in [Thread -> [pc : IdentityPhases, install : Install \cup {None},
                                          publish : BOOLEAN, name : Nat]]
              /\ request'[t].pc = "submission" /\ request'[t].install = Author(t)
              /\ request'[t].name = pseudonym[Author(t)]
              /\ \A u \in Thread \ {t} : request'[u] = request[u]
            BY <2>2, <2>4, <3>1, ContinueTyped
        <3> QED
            BY <2>1, <2>3, <3>1, <3>2, RequestMoves
    <2>5. CASE Continue(t, "insert", request[t].name)
        <3>1. "insert" \in IdentityPhases \ Making /\ "insert" # "submission"
            BY DEF IdentityPhases, Making, Deriving
        <3>2. ~raced => Given(request[t].name)
            BY <1>3 DEF FindAuthor, At, OneSecret, Deriving
        <3>3. /\ request' \in [Thread -> [pc : IdentityPhases, install : Install \cup {None},
                                          publish : BOOLEAN, name : Nat]]
              /\ request'[t].pc = "insert" /\ request'[t].install = Author(t)
              /\ request'[t].name = request[t].name
              /\ \A u \in Thread \ {t} : request'[u] = request[u]
            BY <2>1, <2>5, <3>1, ContinueTyped
        <3> QED
            BY <2>1, <2>3, <3>1, <3>2, <3>3, RequestMoves
    <2> QED
        BY <1>3, <2>4, <2>5 DEF FindAuthor
<1>4. CASE FailRequest(t)
    <2>1. "idle" \notin Making \cup Deriving
        BY DEF Making, Deriving
    <2> QED
        BY <1>4, <2>1, EndTyped, RequestMoves DEF FailRequest
<1> QED
    BY <1>1, <1>2, <1>3, <1>4

\* A preview of a stored name and the reading of the secret keep the invariant.
LEMMA ReadStep ==
    ASSUME IdentityInv, NEW t \in Thread, PreviewStored(t) \/ ReadSecret(t)
    PROVE  IdentityInv'
<1> USE DEF IdentityInv
<1>1. Author(t) \in Install
    BY DEF PreviewStored, ReadSecret, RequestsOK, At
<1>2. CASE PreviewStored(t)
    <2>1. pseudonym[Author(t)] \in Nat /\ perks[Author(t)] \in BOOLEAN \X (Custom \cup {None})
        BY <1>1, <1>2 DEF PreviewStored, IdentityTypes
    <2>2. DisplayName(Author(t)) \in Custom \/ DisplayName(Author(t)) = pseudonym[Author(t)]
        BY <2>1 DEF DisplayName
    <2>3. ~raced => Given(pseudonym[Author(t)])
        BY <1>1 DEF OneSecret
    <2> QED
        BY <1>1, <1>2, <2>1, <2>2, <2>3, PreviewKeeps DEF PreviewStored
<1>3. CASE ReadSecret(t)
    <2> DEFINE secret == IF configured THEN 0 ELSE secretFile
    <2>1. secret \in Nat /\ Given(secret)
        BY <1>3 DEF ReadSecret, IdentityTypes, Given
    <2>2. Derive(t, secret) /\ UNCHANGED <<configured, losses, rowVars, secretVars, credited>>
        BY <1>3 DEF ReadSecret
    <2> HIDE DEF secret
    <2>3. CASE Preview(t, secret)
        BY <1>1, <2>1, <2>2, <2>3, PreviewKeeps
    <2>4. CASE Continue(t, "ensure", secret) /\ UNCHANGED shown
        <3>1. "ensure" \in IdentityPhases \ Making /\ "ensure" # "submission"
            BY DEF IdentityPhases, Making, Deriving
        <3>2. UNCHANGED answerVars
            BY <2>2, <2>4 DEF answerVars
        <3>3. /\ request' \in [Thread -> [pc : IdentityPhases, install : Install \cup {None},
                                          publish : BOOLEAN, name : Nat]]
              /\ request'[t].pc = "ensure" /\ request'[t].install = Author(t)
              /\ request'[t].name = secret
              /\ \A u \in Thread \ {t} : request'[u] = request[u]
            BY <2>1, <2>4, <3>1, ContinueTyped
        <3>4. UNCHANGED <<configured, losses, rowVars, secretVars, answerVars>>
            BY <2>2, <3>2
        <3> QED
            BY <1>1, <2>1, <3>1, <3>3, <3>4, RequestMoves
    <2> QED
        BY <2>2, <2>3, <2>4 DEF Derive
<1> QED
    BY <1>2, <1>3

\* Making the secret keeps the invariant: whoever is second has raced.
LEMMA SecretStep ==
    ASSUME IdentityInv, NEW t \in Thread, DrawSecret(t) \/ OpenFile(t) \/ WriteFile(t)
    PROVE  IdentityInv'
<1> USE DEF IdentityInv, rowVars, answerVars
<1>1. Author(t) \in Install /\ request[t].name \in Nat
    BY DEF DrawSecret, OpenFile, WriteFile, RequestsOK, At, IdentityTypes
<1>2. CASE DrawSecret(t)
    <2>1. /\ request' \in [Thread -> [pc : IdentityPhases, install : Install \cup {None},
                                      publish : BOOLEAN, name : Nat]]
          /\ request'[t].pc = "open" /\ request'[t].install = Author(t)
          /\ request'[t].name = drawn + 1
          /\ \A u \in Thread \ {t} : request'[u] = request[u]
        <3>1. drawn + 1 \in Nat /\ "open" \in IdentityPhases
            BY DEF IdentityTypes, IdentityPhases, Making
        <3> QED
            BY <1>2, <3>1, ContinueTyped DEF DrawSecret
    <2>2. IdentityTypes'
        BY <1>2, <2>1 DEF DrawSecret, IdentityTypes
    <2>3. RequestsOK'
        BY <1>1, <1>2, <2>1 DEF DrawSecret, RequestsOK, At, Author, Making, IdentityTypes
    <2>4. CreditedAsStored'
        BY <1>2 DEF DrawSecret, CreditedAsStored
    <2>5. ~raced' => OneSecret'
        BY <1>2, <2>1 DEF DrawSecret, OneSecret, Given, Making, Deriving
    <2> QED
        BY <1>2, <2>2, <2>3, <2>4, <2>5 DEF DrawSecret
<1>3. CASE OpenFile(t)
    <2>1. /\ request' \in [Thread -> [pc : IdentityPhases, install : Install \cup {None},
                                      publish : BOOLEAN, name : Nat]]
          /\ request'[t].pc = "write" /\ request'[t].install = Author(t)
          /\ request'[t].name = request[t].name
          /\ \A u \in Thread \ {t} : request'[u] = request[u]
        <3>1. "write" \in IdentityPhases
            BY DEF IdentityPhases, Making
        <3> QED
            BY <1>1, <1>3, <3>1, ContinueTyped DEF OpenFile
    <2>2. IdentityTypes'
        BY <1>3, <2>1 DEF OpenFile, IdentityTypes
    <2>3. RequestsOK'
        BY <1>1, <1>3, <2>1 DEF OpenFile, RequestsOK, At, Author, Making
    <2>4. CreditedAsStored'
        BY <1>3 DEF OpenFile, CreditedAsStored
    <2>5. ~raced => secretFile = 0
        BY <1>3 DEF OpenFile, OneSecret, At, Making
    <2>6. ~raced' => OneSecret'
        BY <1>3, <2>1, <2>5 DEF OpenFile, OneSecret, Given, Making, Deriving, At
    <2> QED
        BY <1>3, <2>2, <2>3, <2>4, <2>6 DEF OpenFile
<1>4. CASE WriteFile(t)
    <2> DEFINE secret == request[t].name
    <2>1. secret # 0 /\ ~configured /\ secretFile' = secret /\ Derive(t, secret)
          /\ UNCHANGED <<configured, losses, pseudonym, perks, drawn, raced, credited>>
        BY <1>4 DEF WriteFile, RequestsOK, At, Making
    <2>2. /\ request' \in [Thread -> [pc : IdentityPhases, install : Install \cup {None},
                                      publish : BOOLEAN, name : Nat]]
          /\ \/ /\ request'[t].pc = "ensure" /\ request'[t].install = Author(t)
                /\ request'[t].name = secret /\ UNCHANGED shown
             \/ request'[t].pc = "idle" /\ shown' = shown \cup {<<Author(t), secret>>}
          /\ \A u \in Thread \ {t} : request'[u] = request[u]
        <3>1. "ensure" \in IdentityPhases
            BY DEF IdentityPhases, Deriving
        <3>2. CASE Preview(t, secret)
            BY <3>2, EndTyped DEF Preview
        <3>3. CASE Continue(t, "ensure", secret) /\ UNCHANGED shown
            BY <1>1, <3>1, <3>3, ContinueTyped
        <3> QED
            BY <2>1, <3>2, <3>3 DEF Derive
    <2>3. ~raced => /\ secretFile = 0
                    /\ \A u \in Thread : u # t => request[u].pc \notin Making
        BY <1>4 DEF WriteFile, OneSecret, At, Making
    <2> HIDE DEF secret
    <2>4. secret \in Nat
        BY <1>1 DEF secret
    <2>5. IdentityTypes'
        BY <1>1, <2>1, <2>2, <2>4 DEF IdentityTypes
    <2>6. RequestsOK'
        BY <1>1, <2>1, <2>2 DEF RequestsOK, At, Author, Making
    <2>7. CreditedAsStored'
        BY <2>1 DEF CreditedAsStored
    <2>8. ~raced' => OneSecret'
        BY <2>1, <2>2, <2>3 DEF OneSecret, Given, Making, Deriving
    <2> QED
        BY <2>1, <2>5, <2>6, <2>7, <2>8
<1> QED
    BY <1>2, <1>3, <1>4

\* The table's writers and the loss of the data directory keep the invariant: a
\* pseudonym that is stored stays.
LEMMA TableStep ==
    ASSUME IdentityInv,
           \/ \E t \in Thread : InsertAuthor(t) \/ Submit(t)
           \/ \E i \in Install, sponsor \in BOOLEAN, custom \in Custom \cup {None} :
                 SetSponsor(i, sponsor, custom)
           \/ LoseData
    PROVE  IdentityInv'
<1> USE DEF IdentityInv, rowVars, secretVars, answerVars
<1>1. ASSUME NEW t \in Thread, InsertAuthor(t) PROVE IdentityInv'
    <2> DEFINE name == request[t].name
    <2>1. Author(t) \in Install /\ name \in Nat
        BY <1>1 DEF InsertAuthor, RequestsOK, At, IdentityTypes
    <2>2. /\ request' \in [Thread -> [pc : IdentityPhases, install : Install \cup {None},
                                      publish : BOOLEAN, name : Nat]]
          /\ request'[t].pc = "submission" /\ request'[t].install = Author(t)
          /\ request'[t].name = name
          /\ \A u \in Thread \ {t} : request'[u] = request[u]
        <3>1. "submission" \in IdentityPhases
            BY DEF IdentityPhases
        <3> QED
            BY <1>1, <2>1, <3>1, ContinueTyped DEF InsertAuthor
    <2>3. /\ pseudonym[Author(t)] = None
          /\ pseudonym' = [pseudonym EXCEPT ![Author(t)] = name]
          /\ UNCHANGED <<configured, losses, perks, secretFile, drawn, raced, shown, credited>>
        BY <1>1 DEF InsertAuthor
    <2>4. ~raced => Given(name)
        BY <1>1 DEF InsertAuthor, At, OneSecret, Deriving
    <2> HIDE DEF name
    <2>5. /\ pseudonym' \in [Install -> Nat \cup {None}] /\ pseudonym'[Author(t)] = name
          /\ \A i \in Install : pseudonym[i] # None => pseudonym'[i] = pseudonym[i]
          /\ \A i \in Install : pseudonym'[i] \in {pseudonym[i], name}
        BY <2>1, <2>3 DEF IdentityTypes
    <2>6. IdentityTypes'
        BY <2>2, <2>3, <2>5 DEF IdentityTypes
    <2>7. name # None
        BY <2>1, NoneIsNothing
    <2>8. RequestsOK'
        <3>1. \A u \in Thread : At(u, "submission") => Author(u) \in Install /\ request[u].name # None
            BY NoneIsNothing DEF RequestsOK, At, IdentityTypes
        <3> QED
            BY <2>1, <2>2, <2>3, <2>5, <3>1 DEF RequestsOK, At, Author, Making
    <2>9. CreditedAsStored'
        <3>1. \A c \in credited : c[1] \in Install /\ c[2] # None
            BY NoneIsNothing DEF IdentityTypes
        <3> QED
            BY <2>3, <2>5, <3>1 DEF CreditedAsStored
    <2>10. ~raced' => OneSecret'
        BY <2>2, <2>3, <2>4, <2>5 DEF OneSecret, Given, Making, Deriving
    <2>11. (\A i \in Install : perks[i] # <<FALSE, None>> => pseudonym[i] # None)'
        BY <2>3, <2>5
    <2> QED
        BY <2>6, <2>8, <2>9, <2>10, <2>11
<1>2. ASSUME NEW t \in Thread, Submit(t) PROVE IdentityInv'
    <2>1. Author(t) \in Install /\ request[t].name \in Nat
          /\ pseudonym[Author(t)] = request[t].name
        BY <1>2 DEF Submit, RequestsOK, At, IdentityTypes
    <2>2. /\ request' \in [Thread -> [pc : IdentityPhases, install : Install \cup {None},
                                      publish : BOOLEAN, name : Nat]]
          /\ request'[t].pc = "idle"
          /\ \A u \in Thread \ {t} : request'[u] = request[u]
        BY <1>2, EndTyped DEF Submit
    <2>3. IdentityTypes'
        BY <1>2, <2>1, <2>2 DEF Submit, IdentityTypes
    <2>4. RequestsOK'
        BY <1>2, <2>2 DEF Submit, RequestsOK, At, Author, Making
    <2>5. CreditedAsStored'
        BY <1>2, <2>1 DEF Submit, CreditedAsStored
    <2>6. ~raced' => OneSecret'
        BY <1>2, <2>2 DEF Submit, OneSecret, Given, Making, Deriving
    <2> QED
        BY <1>2, <2>3, <2>4, <2>5, <2>6 DEF Submit
<1>3. ASSUME NEW i \in Install, NEW sponsor \in BOOLEAN, NEW custom \in Custom \cup {None},
             SetSponsor(i, sponsor, custom)
      PROVE  IdentityInv'
    <2>1. /\ perks' \in [Install -> BOOLEAN \X (Custom \cup {None})]
          /\ \A j \in Install : perks'[j] = perks[j] \/ pseudonym[j] # None
        BY <1>3 DEF SetSponsor, IdentityTypes
    <2>2. UNCHANGED <<configured, losses, request, pseudonym, secretFile, drawn, raced,
                      shown, credited>>
        BY <1>3 DEF SetSponsor
    <2>3. IdentityTypes'
        BY <2>1, <2>2 DEF IdentityTypes
    <2> QED
        BY <2>1, <2>2, <2>3 DEF RequestsOK, At, Author, CreditedAsStored, OneSecret, Given
<1>4. CASE LoseData
    <2>1. /\ Quiet \in [pc : IdentityPhases, install : Install \cup {None},
                        publish : BOOLEAN, name : Nat]
          /\ Quiet.pc = "idle"
        BY DEF Quiet, Locals, IdentityPhases
    <2>2. /\ request' \in [Thread -> [pc : IdentityPhases, install : Install \cup {None},
                                      publish : BOOLEAN, name : Nat]]
          /\ \A t \in Thread : request'[t].pc = "idle"
        BY <1>4, <2>1 DEF LoseData
    <2>3. IdentityTypes'
        BY <1>4, <2>2 DEF LoseData, IdentityTypes
    <2>4. RequestsOK'
        BY <2>2 DEF RequestsOK, At, Making
    <2>5. CreditedAsStored'
        BY <1>4 DEF LoseData, CreditedAsStored
    <2>6. ~raced' => OneSecret'
        BY <1>4, <2>2 DEF LoseData, OneSecret, Given, Making, Deriving
    <2> QED
        BY <1>4, <2>3, <2>4, <2>5, <2>6 DEF LoseData
<1> QED
    BY <1>1, <1>2, <1>3, <1>4

\* Whatever a thread or the maintainer does keeps the invariant.
LEMMA IdentityStep == IdentityInv /\ [IdentityNext]_identityVars => IdentityInv'
<1> SUFFICES ASSUME IdentityInv, [IdentityNext]_identityVars PROVE IdentityInv'
    OBVIOUS
<1>1. ASSUME NEW t \in Thread, Handle(t) PROVE IdentityInv'
    BY <1>1, RequestStep, ReadStep, SecretStep, TableStep DEF Handle
<1>2. CASE UNCHANGED identityVars
    BY <1>2 DEF identityVars, IdentityInv, IdentityTypes, RequestsOK, CreditedAsStored,
                OneSecret, Given, At, Author
<1> QED
    BY <1>1, <1>2, TableStep DEF IdentityNext

\* At the start nobody has a name.
LEMMA IdentityStart == IdentityInit => IdentityInv
<1> SUFFICES ASSUME IdentityInit PROVE IdentityInv
    OBVIOUS
<1> USE DEF IdentityInit
<1>1. /\ Quiet \in [pc : IdentityPhases, install : Install \cup {None},
                    publish : BOOLEAN, name : Nat]
      /\ Quiet.pc = "idle"
    BY DEF Quiet, Locals, IdentityPhases
<1>2. IdentityTypes
    BY <1>1 DEF IdentityTypes
<1>3. RequestsOK
    BY <1>1 DEF RequestsOK, At, Making
<1>4. CreditedAsStored /\ OneSecret
    BY <1>1 DEF CreditedAsStored, OneSecret, Given, Making, Deriving
<1> QED
    BY <1>2, <1>3, <1>4 DEF IdentityInv

\* What the secret file, the threads and the tables say of a name agrees.
THEOREM IdentityHolds == IdentitySpec => []IdentityInv
BY IdentityStart, IdentityStep, PTL DEF IdentitySpec

\* Every accepted submission was answered with its author's stored pseudonym,
\* for any number of installs and of threads that meet in ensure_author.
THEOREM CreditHolds == IdentitySpec => []CreditedAsStored
<1>1. IdentityInv => CreditedAsStored
    BY DEF IdentityInv
<1> QED
    BY <1>1, IdentityHolds, PTL

\* A previewed name is the published one, unless the secret was made twice or
\* lost.
THEOREM PreviewHolds == IdentitySpec => []PreviewKept
<1>1. ASSUME IdentityInv PROVE PreviewKept
    <2> SUFFICES ASSUME ~raced, NEW p \in shown
                 PROVE  p[2] \in Custom \/ pseudonym[p[1]] \in {None, p[2]}
        BY DEF PreviewKept
    <2>1. p[1] \in Install /\ (p[2] \in Nat \/ p[2] \in Custom)
        BY <1>1 DEF IdentityInv, IdentityTypes
    <2>2. p[2] \in Nat => p[2] # None
        BY NoneIsNothing
    <2> QED
        BY <1>1, <2>1, <2>2 DEF IdentityInv, OneSecret, Given
<1> QED
    BY <1>1, IdentityHolds, PTL

\* Once the requests that make the secret are over, it stays until it is lost.
THEOREM SecretHolds == IdentitySpec => SecretSettles
<1>1. ASSUME IdentityInv, [IdentityNext]_identityVars
      PROVE  [Settled /\ losses' = losses
                  => Settled' /\ secretFile' = secretFile]_identityVars
    <2> SUFFICES ASSUME Settled, losses' = losses, IdentityNext
                 PROVE  Settled' /\ secretFile' = secretFile
        BY <1>1 DEF identityVars
    <2> USE <1>1 DEF Settled
    <2>1. losses \in Nat /\ IdentityTypes
        BY DEF IdentityInv, IdentityTypes
    <2>2. ~LoseData
        BY <2>1 DEF LoseData
    <2>3. ASSUME NEW t \in Thread, Handle(t) PROVE Settled' /\ secretFile' = secretFile
        <3>1. ~DrawSecret(t) /\ ~OpenFile(t) /\ ~WriteFile(t)
            BY DEF DrawSecret, OpenFile, WriteFile, At, Making
        <3>2. secretFile' = secretFile
            BY <2>3, <3>1 DEF Handle, Begin, PreviewStored, PreviewUnknown, ReadSecret,
                              FindAuthor, InsertAuthor, Submit, FailRequest, secretVars
        <3>3. \E name : \E pc \in IdentityPhases \ Making, i \in Install \cup {None},
                            publish \in BOOLEAN :
                  request' = [request EXCEPT ![t] = Locals(pc, i, publish, name)]
            <4>1. Author(t) \in Install \cup {None} /\ request[t].publish \in BOOLEAN
                BY <2>1 DEF IdentityTypes, Author
            <4>2. {"idle", "preview", "secret", "ensure", "insert", "submission"}
                      \subseteq IdentityPhases \ Making
                BY DEF IdentityPhases, Making, Deriving
            <4>3. CASE \E i \in Install, publish \in BOOLEAN : Begin(t, i, publish)
                BY <4>2, <4>3 DEF Begin
            <4>4. CASE \E name : \E pc \in {"secret", "ensure", "insert", "submission"} :
                                     Continue(t, pc, name)
                BY <4>1, <4>2, <4>4 DEF Continue
            <4>5. CASE EndRequest(t)
                BY <4>2, <4>5 DEF EndRequest, Quiet
            <4> QED
                BY <2>3, <3>1, <4>3, <4>4, <4>5
                DEF Handle, PreviewStored, PreviewUnknown, ReadSecret, Derive, Preview,
                    FindAuthor, InsertAuthor, Submit, FailRequest
        <3>4. \A u \in Thread : request'[u].pc \notin Making
            BY <2>1, <3>3 DEF IdentityTypes, Locals
        <3> QED
            BY <3>2, <3>4
    <2>4. ASSUME NEW i \in Install, NEW sponsor, NEW custom, SetSponsor(i, sponsor, custom)
          PROVE  Settled' /\ secretFile' = secretFile
        BY <2>4 DEF SetSponsor, secretVars
    <2> QED
        BY <2>2, <2>3, <2>4 DEF IdentityNext
<1> QED
    BY <1>1, IdentityHolds, PTL DEF IdentitySpec, SecretSettles
-----------------------------------------------------------------------------
(* The catalog, over the names.                                            *)

\* Nobody takes back what a submission was answered with.
LEMMA CreditsStay == [IdentityNext]_identityVars => credited \subseteq credited'
<1> SUFFICES ASSUME [IdentityNext]_identityVars PROVE credited \subseteq credited'
    OBVIOUS
<1> USE DEF answerVars
<1>1. ASSUME NEW t \in Thread, Handle(t) PROVE credited \subseteq credited'
    BY <1>1 DEF Handle, Begin, PreviewStored, PreviewUnknown, ReadSecret, DrawSecret, OpenFile,
                WriteFile, FindAuthor, InsertAuthor, Submit, FailRequest
<1>2. ASSUME NEW i \in Install, NEW sponsor, NEW custom, SetSponsor(i, sponsor, custom)
      PROVE  credited \subseteq credited'
    BY <1>2 DEF SetSponsor
<1>3. CASE LoseData
    BY <1>3 DEF LoseData
<1>4. CASE UNCHANGED identityVars
    BY <1>4 DEF identityVars
<1> QED
    BY <1>1, <1>2, <1>3, <1>4 DEF IdentityNext

\* A name the index is answered with is the author's.
LEMMA NamesKnown ==
    ASSUME IdentityInv, NEW i \in Submitted
    PROVE  DisplayName(i) \in Custom \/ <<i, DisplayName(i)>> \in credited
<1>1. PICK c \in credited : c[1] = i
    BY DEF Submitted
<1>2. i \in Install /\ c = <<i, pseudonym[i]>>
    BY <1>1 DEF Submitted, IdentityInv, IdentityTypes, CreditedAsStored
<1>3. perks[i] \in BOOLEAN \X (Custom \cup {None})
    BY <1>2 DEF IdentityInv, IdentityTypes
<1> QED
    BY <1>2, <1>3 DEF DisplayName

\* Steps that leave what is read and kept alone keep the invariant.
LEMMA KeptStays ==
    ASSUME CatalogInv, CatalogTypes', clock <= clock', credited \subseteq credited',
           \A i \in Install : closedAt'[i] <= clock',
           \A i \in Install : \/ status'[i] = "closed" => closedAt'[i] = clock
                              \/ status'[i] = status[i] /\ closedAt'[i] = closedAt[i],
           UNCHANGED <<fetch, copy>>
    PROVE  CatalogInv'
<1> USE DEF CatalogInv
<1>1. clock' \in Nat
    BY DEF CatalogTypes
<1>2. ASSUME NEW r \in Resource
      PROVE  /\ ReadSoundly(fetch[r].read, fetch[r].entries)'
             /\ ReadSoundly(copy[r].read, copy[r].entries)'
    <2> DEFINE fr == fetch[r].read
               fe == fetch[r].entries
               cr == copy[r].read
               ce == copy[r].entries
    <2>1. ReadSoundly(fr, fe) /\ ReadSoundly(cr, ce)
        OBVIOUS
    <2>2. fr' = fr /\ fe' = fe /\ cr' = cr /\ ce' = ce
        OBVIOUS
    <2> HIDE DEF fr, fe, cr, ce
    <2>3. /\ fr \in 0..clock' /\ cr \in 0..clock'
          /\ fe \subseteq Submitted' /\ ce \subseteq Submitted'
        BY <1>1, <2>1 DEF ReadSoundly, Submitted, CatalogTypes
    <2>4. \A i \in fe : status'[i] = "closed" => closedAt'[i] >= fr
        BY <2>1 DEF ReadSoundly, Submitted, CatalogTypes
    <2>5. \A i \in ce : status'[i] = "closed" => closedAt'[i] >= cr
        BY <2>1 DEF ReadSoundly, Submitted, CatalogTypes
    <2> QED
        BY <2>2, <2>3, <2>4, <2>5 DEF ReadSoundly, fr, fe, cr, ce
<1>3. EntriesCredited'
    BY DEF EntriesCredited
<1> QED
    BY <1>2, <1>3

\* A request for a resource reads what is public now.
LEMMA ReadKeeps ==
    ASSUME CatalogInv, NEW r \in Resource, NEW entries \in SUBSET Submitted,
           \A i \in entries : status[i] # "closed",
           Read(r, entries), UNCHANGED identityVars
    PROVE  CatalogInv'
<1> USE DEF CatalogInv, CatalogTypes, identityVars, Read
<1>1. ReadSoundly(clock, entries)'
    BY DEF ReadSoundly, Submitted
<1>2. CatalogTypes'
    BY DEF Fetch, Submitted
<1>3. \A q \in Resource : ReadSoundly(fetch[q].read, fetch[q].entries)'
    BY <1>1 DEF ReadSoundly, Submitted, Fetch
<1>4. \A q \in Resource : ReadSoundly(copy[q].read, copy[q].entries)'
    BY DEF ReadSoundly, Submitted
<1>5. EntriesCredited'
    BY DEF EntriesCredited
<1> QED
    BY <1>2, <1>3, <1>4, <1>5

\* An answer is kept with what was read and the authors it names.
LEMMA ReceiveKeeps ==
    ASSUME CatalogInv, NEW r \in Resource,
           NEW authors \in SUBSET (Install \X (Nat \cup Custom)),
           r[1] # "picture" =>
               \A i \in fetch[r].entries :
                   \E a \in authors : a[1] = i /\ (a[2] \in Custom \/ a \in credited),
           Receive(r, authors), UNCHANGED identityVars
    PROVE  CatalogInv'
<1> USE DEF CatalogInv, CatalogTypes, identityVars, Receive
<1>1. CatalogTypes'
    BY DEF Copy, NoFetch, Fetch
<1>2. \A q \in Resource : /\ ReadSoundly(fetch[q].read, fetch[q].entries)'
                          /\ ReadSoundly(copy[q].read, copy[q].entries)'
                          /\ (copy[q].read <= copy[q].received)'
    BY DEF ReadSoundly, Submitted, Copy, NoFetch, Fetch
<1>3. EntriesCredited'
    BY DEF EntriesCredited, Copy
<1> QED
    BY <1>1, <1>2, <1>3

\* The index and a document are answered with the authors of their rows.
LEMMA ReceiveNamedKeeps ==
    ASSUME IdentityInv, CatalogInv, NEW r \in Resource, ReceiveNamed(r), UNCHANGED identityVars
    PROVE  CatalogInv'
<1> DEFINE entries == fetch[r].entries
           authors == {<<j, DisplayName(j)>> : j \in entries}
<1>1. entries \subseteq Submitted
    BY DEF ReadSoundly, CatalogInv
<1>2. \A i \in entries : DisplayName(i) \in Custom \/ <<i, DisplayName(i)>> \in credited
    BY <1>1, NamesKnown
<1>3. entries \subseteq Install /\ credited \subseteq Install \X Nat
    BY <1>1 DEF CatalogInv, CatalogTypes, IdentityInv, IdentityTypes
<1>4. authors \in SUBSET (Install \X (Nat \cup Custom))
    BY <1>2, <1>3
<1>5. ASSUME NEW i \in entries
      PROVE  \E a \in authors : a[1] = i /\ (a[2] \in Custom \/ a \in credited)
    <2>1. <<i, DisplayName(i)>> \in authors
        OBVIOUS
    <2>2. <<i, DisplayName(i)>>[1] = i /\ <<i, DisplayName(i)>>[2] = DisplayName(i)
        OBVIOUS
    <2> QED
        BY <1>2, <2>1, <2>2
<1>6. Receive(r, authors)
    BY DEF ReceiveNamed, Authors
<1> HIDE DEF authors
<1> QED
    BY <1>4, <1>5, <1>6, ReceiveKeeps

\* Steps of requests and decisions, over names that are as they should be.
LEMMA CatalogStep ==
    ASSUME IdentityInv, CatalogInv, CatalogNext
    PROVE  CatalogInv'
<1> USE DEF CatalogInv
<1>1. CASE IdentityNext /\ UNCHANGED catalogVars
    <2>1. credited \subseteq credited'
        BY <1>1, CreditsStay
    <2>2. CatalogTypes' /\ clock <= clock' /\ \A i \in Install : closedAt'[i] <= clock'
        BY <1>1 DEF catalogVars, CatalogTypes
    <2> QED
        BY <1>1, <2>1, <2>2, KeptStays DEF catalogVars
<1>2. ASSUME NEW i \in Install, NEW new \in {"approved", "closed"}, Decide(i, new),
             UNCHANGED identityVars
      PROVE  CatalogInv'
    <2> USE <1>2 DEF Decide, CatalogTypes
    <2>1. CatalogTypes' /\ clock <= clock'
        BY DEF Statuses
    <2>2. \A j \in Install : closedAt'[j] <= clock'
        OBVIOUS
    <2>3. \A j \in Install : \/ status'[j] = "closed" => closedAt'[j] = clock
                             \/ status'[j] = status[j] /\ closedAt'[j] = closedAt[j]
        OBVIOUS
    <2> QED
        BY <2>1, <2>2, <2>3, KeptStays DEF identityVars
<1>3. CASE ReadIndex /\ UNCHANGED identityVars
    BY <1>3, ReadKeeps DEF ReadIndex, Listed, Resource
<1>4. ASSUME NEW i \in Install, ReadDocument(i) \/ ReadPicture(i), UNCHANGED identityVars
      PROVE  CatalogInv'
    <2>1. <<"document", i>> \in Resource /\ <<"picture", i>> \in Resource
        BY DEF Resource
    <2>2. CASE ReadDocument(i)
        BY <1>4, <2>1, <2>2, ReadKeeps DEF ReadDocument, Listed
    <2>3. CASE ReadPicture(i)
        BY <1>4, <2>1, <2>3, ReadKeeps DEF ReadPicture, Pictured
    <2> QED
        BY <1>4, <2>2, <2>3
<1>5. ASSUME NEW r \in Resource, ReceiveNamed(r), UNCHANGED identityVars PROVE CatalogInv'
    BY <1>5, ReceiveNamedKeeps
<1>6. ASSUME NEW r \in Resource, ReceivePicture(r), UNCHANGED identityVars PROVE CatalogInv'
    BY <1>6, ReceiveKeeps DEF ReceivePicture
<1>7. CASE Tick /\ UNCHANGED identityVars
    <2> USE <1>7 DEF Tick, CatalogTypes
    <2>1. CatalogTypes' /\ clock <= clock' /\ \A i \in Install : closedAt'[i] <= clock'
        OBVIOUS
    <2> QED
        BY <2>1, KeptStays DEF identityVars
<1> QED
    BY <1>1, <1>2, <1>3, <1>4, <1>5, <1>6, <1>7 DEF CatalogNext, Browse

LEMMA CatalogStart == IdentityInit /\ CatalogInit => IdentityInv /\ CatalogInv
<1> SUFFICES ASSUME IdentityInit, CatalogInit PROVE CatalogInv
    BY IdentityStart
<1> USE DEF CatalogInit
<1>1. CatalogTypes
    BY DEF CatalogTypes, Statuses, NoFetch, Fetch, Copy
<1>2. \A r \in Resource : fetch[r] = NoFetch /\ copy[r] = Copy(0, 0, {}, {})
    OBVIOUS
<1> QED
    BY <1>1, <1>2 DEF CatalogInv, ReadSoundly, NoFetch, Fetch, Copy, EntriesCredited

\* A step of the service, or none, keeps both invariants.
LEMMA CatalogKept ==
    IdentityInv /\ CatalogInv /\ [CatalogNext]_<<identityVars, catalogVars>>
        => IdentityInv' /\ CatalogInv'
<1> SUFFICES ASSUME IdentityInv, CatalogInv, [CatalogNext]_<<identityVars, catalogVars>>
             PROVE  IdentityInv' /\ CatalogInv'
    OBVIOUS
<1>1. [IdentityNext]_identityVars
    BY DEF CatalogNext
<1>2. CASE UNCHANGED <<identityVars, catalogVars>>
    <2>1. credited \subseteq credited'
        BY <1>1, CreditsStay
    <2>2. CatalogTypes' /\ clock <= clock' /\ \A i \in Install : closedAt'[i] <= clock'
        BY <1>2 DEF catalogVars, CatalogInv, CatalogTypes
    <2> QED
        BY <1>1, <1>2, <2>1, <2>2, IdentityStep, KeptStays DEF catalogVars
<1> QED
    BY <1>1, <1>2, IdentityStep, CatalogStep

\* Whatever requests, reviewers and the maintainer do, in any order, the names
\* are one and the catalog has what was public when it was read.
THEOREM CatalogHolds == CatalogSpec => [](IdentityInv /\ CatalogInv)
BY CatalogStart, CatalogKept, PTL DEF CatalogSpec

\* The index and the documents credit every template to its author, whoever asks
\* and whenever.
THEOREM EntriesHold == CatalogSpec => []EntriesCredited
<1>1. IdentityInv /\ CatalogInv => EntriesCredited
    BY DEF CatalogInv
<1> QED
    BY <1>1, CatalogHolds, PTL

\* What was taken down is seen no longer than caches may keep it, for all ages
\* and however long answers take.
THEOREM TakedownHolds == CatalogSpec => []TakedownShows
<1>1. ASSUME CatalogInv PROVE TakedownShows
    <2> SUFFICES ASSUME NEW r \in Resource, Fresh(r), NEW i \in copy[r].entries,
                        status[i] = "closed"
                 PROVE  clock - closedAt[i] <= Lifetime(r) + (copy[r].received - copy[r].read)
        BY DEF TakedownShows
    <2>1. /\ clock \in Nat /\ copy[r].received \in Nat /\ copy[r].read \in Nat
          /\ Lifetime(r) \in Nat
        BY <1>1, AgesKnown DEF CatalogInv, CatalogTypes, Lifetime
    <2>2. closedAt[i] >= copy[r].read /\ i \in Install
        BY <1>1 DEF CatalogInv, ReadSoundly, Submitted
    <2>3. closedAt[i] \in Nat
        BY <1>1, <2>2 DEF CatalogInv, CatalogTypes
    <2>4. clock - copy[r].received <= Lifetime(r)
        BY DEF Fresh
    <2> QED
        BY <2>1, <2>2, <2>3, <2>4
<1>2. IdentityInv /\ CatalogInv => TakedownShows
    BY <1>1
<1> QED
    BY <1>2, CatalogHolds, PTL

-----------------------------------------------------------------------------
(* All parts.                                                              *)

\* What holds of each part by itself holds of them together.
THEOREM RecordsHold == RecordsSpec => []RecordsInv
<1>1. RecordsInit => RecordsInv
    BY WaitlistStart, BackupStart, TelemetryStart, ChecksStart, CatalogStart
    DEF RecordsInit, RecordsInv
<1>2. ASSUME RecordsInv, [RecordsNext]_recordsVars PROVE RecordsInv'
    <2>1. [WaitlistNext]_waitlistVars
        BY <1>2 DEF RecordsNext, recordsVars
    <2>2. [BackupNext]_backupVars
        BY <1>2 DEF RecordsNext, recordsVars
    <2>3. [TelemetryNext]_telemetryVars
        BY <1>2 DEF RecordsNext, recordsVars
    <2>4. [CatalogNext]_<<identityVars, catalogVars>>
        BY <1>2 DEF RecordsNext, recordsVars, CatalogNext
    <2> QED
        BY <1>2, <2>1, <2>2, <2>3, <2>4, WaitlistStep, BackupStep, TelemetryStep, ChecksStep,
           CatalogKept
        DEF RecordsInv
<1> QED
    BY <1>1, <1>2, PTL DEF RecordsSpec
=============================================================================
