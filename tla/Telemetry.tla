------------------------------ MODULE Telemetry ------------------------------
(***************************************************************************)
(* Requests counted by stats/collector.py, the hits of the version         *)
(* endpoint and the checks of one firmware kind, and the report of         *)
(* scripts/dump_stats.py, whose figures are queries of their own while     *)
(* requests go on being counted.                                           *)
(*                                                                         *)
(* The report fixes its time for the windows on hits (summarise), while    *)
(* those on checks end on the day of each query (_since).  What it counts  *)
(* is kept as the set counted; times are days.                             *)
(***************************************************************************)
EXTENDS Integers, Sequences, FiniteSetsExt

CONSTANTS
    Client,     \* install ids
    Anonymous,  \* a hit without one
    Version,    \* versions the checks report, "unknown" among them
    Windows,    \* the windows on hits, in the order they are read
    CheckDays,  \* the window on checks
    MaxDay,     \* bound
    MaxChecks   \* bound: checks of a version on a day

ASSUME AnonymousIsNobody == Anonymous \notin Client
ASSUME WindowsWiden ==
    /\ Windows \in Seq(Nat)
    /\ \A i, j \in 1..Len(Windows) : i < j => Windows[i] < Windows[j]
\* A report adds up rows, and there are finitely many.
ASSUME VersionsFinite == IsFiniteSet(Version)
ASSUME TelemetryBounds == CheckDays \in Nat /\ MaxDay \in Nat /\ MaxChecks \in Nat

VARIABLES
    today,
    hits,    \* <<day, install>>
    checks,  \* firmware_check_stats: per day and version the count
    report   \* the report: the figures read so far

telemetryVars == <<today, hits, checks, report>>

-----------------------------------------------------------------------------

\* now is the day the report began; its two totals come with their days.
Report(pc, now, seen, total, versions) ==
    [pc |-> pc, now |-> now, seen |-> seen, total |-> total, versions |-> versions]
Figure(day, n) == [day |-> day, n |-> n]
NoFigure == Figure(0, 0)

TelemetryInit ==
    /\ today = 0
    /\ hits = {}
    /\ checks = [k \in (0..MaxDay) \X Version |-> 0]
    /\ report = Report("done", 0, <<>>, NoFigure, NoFigure)

RecordHit(c) ==
    /\ hits' = hits \cup {<<today, c>>}
    /\ UNCHANGED <<today, checks, report>>

\* One upsert on (day, version).
RecordCheck(v) ==
    /\ checks[<<today, v>>] < MaxChecks
    /\ checks' = [checks EXCEPT ![<<today, v>>] = @ + 1]
    /\ UNCHANGED <<today, hits, report>>

Midnight ==
    /\ today < MaxDay
    /\ today' = today + 1
    /\ UNCHANGED <<hits, checks, report>>

-----------------------------------------------------------------------------
(* summarise.                                                              *)

Answer(r) == report' = r /\ UNCHANGED <<today, hits, checks>>

\* The figures before the first window are compared with none and left out.
StartReport ==
    /\ report.pc = "done"
    /\ Answer(Report("windows", today, <<>>, NoFigure, NoFigure))

SeenSince(day) == {c \in Client : \E h \in hits : h[2] = c /\ h[1] >= day}
Reading == Len(report.seen) + 1

\* Mutation: the longest window comes first.
ReadWindowLongestFirst ==
    /\ report.pc = "windows"
    /\ Reading <= Len(Windows)
    /\ LET longest == Windows[Len(Windows) + 1 - Reading]
       IN  Answer([report EXCEPT !.seen = <<SeenSince(report.now - longest)>> \o @])

\* _seen_in_last
ReadWindow ==
    /\ report.pc = "windows"
    /\ Reading <= Len(Windows)
    /\ Answer([report EXCEPT !.seen =
                  Append(@, SeenSince(report.now - Windows[Reading]))])

\* The counts that a query of this day adds up: the checks of CheckDays.
ChecksCounted(day) ==
    Figure(day, MapThenSumSet(LAMBDA k : checks[k],
                              {k \in DOMAIN checks : k[1] >= day - CheckDays}))

\* Mutation: the total goes back a day more.
ReadTotalDayMore ==
    /\ report.pc = "windows"
    /\ Reading > Len(Windows)
    /\ Answer([report EXCEPT !.pc = "total",
                             !.total = Figure(today, ChecksCounted(today - 1).n)])

\* firmware_check_totals
ReadTotal ==
    /\ report.pc = "windows"
    /\ Reading > Len(Windows)
    /\ Answer([report EXCEPT !.pc = "total", !.total = ChecksCounted(today)])

\* firmware_check_versions, the counts of all versions together
ReadVersions ==
    /\ report.pc = "total"
    /\ Answer([report EXCEPT !.pc = "done", !.versions = ChecksCounted(today)])

TelemetryNext ==
    \/ \E c \in Client \cup {Anonymous} : RecordHit(c)
    \/ \E v \in Version : RecordCheck(v)
    \/ Midnight
    \/ StartReport \/ ReadWindow \/ ReadTotal \/ ReadVersions

TelemetrySpec == TelemetryInit /\ [][TelemetryNext]_telemetryVars

-----------------------------------------------------------------------------
(* Properties.                                                             *)

\* An install counted in a window is counted in the longer ones a report
\* prints after it (dump_stats.py:119), although hits arrive in between.
WindowsNested ==
    \A i, j \in 1..Len(report.seen) : i < j => report.seen[i] \subseteq report.seen[j]

\* A report's figures per kind and version (dump_stats.py:191) account for
\* every check in its total per kind, unless a day ends between the two.
VersionsCoverTotals ==
    report.pc = "done" /\ report.total.day = report.versions.day
        => report.total.n <= report.versions.n

\* The inductive invariant of the report on hits: what a window has counted is
\* what it would still count.
TelemetryInv ==
    /\ today \in Nat
    /\ hits \subseteq Nat \X (Client \cup {Anonymous})
    /\ report = Report(report.pc, report.now, report.seen, report.total, report.versions)
    /\ report.now \in Nat
    /\ report.seen \in Seq(SUBSET Client)
    /\ Len(report.seen) <= Len(Windows)
    /\ \A i \in 1..Len(report.seen) : report.seen[i] \subseteq SeenSince(report.now - Windows[i])
    /\ WindowsNested

\* The inductive invariant of the report on checks: the total it has read is no
\* more than the same query would count now, as counters only grow.
ChecksInv ==
    /\ today \in 0..MaxDay
    /\ checks \in [(0..MaxDay) \X Version -> Nat]
    /\ report = Report(report.pc, report.now, report.seen, report.total, report.versions)
    /\ report.pc = "total" =>
          /\ report.total \in [day : 0..MaxDay, n : Nat]
          /\ report.total.n <= ChecksCounted(report.total.day).n
    /\ VersionsCoverTotals
=============================================================================
