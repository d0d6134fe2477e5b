--------------------------- MODULE TemplatesStore ---------------------------
(***************************************************************************)
(* The marketplace tables of templates_store.py, one operator per          *)
(* transaction.  A row that has not been inserted has status "absent".     *)
(*                                                                         *)
(* Columns that no operation branches on (title, doc, preview, geo, lint   *)
(* result, reason texts) are left out.  created_at is reduced to the one   *)
(* question asked of it, "is this row younger than a day?" (recent), and   *)
(* discord_message_id to the index of the message in the review channel,   *)
(* 0 standing for NULL.                                                    *)
(***************************************************************************)
EXTENDS Naturals, FiniteSets

CONSTANTS
    Submission,   \* submission ids (uuid4, never reused)
    Report,       \* takedown request ids
    Install,      \* install ids, the reserved test prefix excluded
    NoInstall,    \* a report sent without an install id
    Decider,      \* who may appear in reviewed_by: the CLI and Discord users
    Nobody,       \* reviewed_by IS NULL
    NoSubmission  \* no submission (a report row not inserted, an idle handler)

VARIABLES
    submission,   \* template_submissions: id -> row
    report        \* template_reports: id -> row

\* STATUSES names "superseded" as well, for a second version of the marketplace;
\* no code sets it.
Statuses == {"pending", "approved", "rejected", "revoked"}
ReportStatuses == {"open", "actioned", "dismissed"}

SubmissionRow == [status : Statuses \cup {"absent"},
                  install : Install \cup {NoInstall},
                  reviewedBy : Decider \cup {Nobody},
                  message : Nat,
                  recent : BOOLEAN]

ReportRow == [status : ReportStatuses \cup {"absent"},
              about : Submission \cup {NoSubmission},
              install : Install \cup {NoInstall},
              message : Nat,
              recent : BOOLEAN]

NoSubmissionRow == [status |-> "absent", install |-> NoInstall,
                    reviewedBy |-> Nobody, message |-> 0, recent |-> FALSE]
NoReportRow == [status |-> "absent", about |-> NoSubmission,
                install |-> NoInstall, message |-> 0, recent |-> FALSE]

StoreInit == /\ submission = [s \in Submission |-> NoSubmissionRow]
             /\ report = [r \in Report |-> NoReportRow]

Exists(s) == submission[s].status # "absent"
ReportExists(r) == report[r].status # "absent"
Pending(s) == submission[s].status = "pending"
Open(r) == report[r].status = "open"

-----------------------------------------------------------------------------
(* Queries.                                                                *)

PendingOf(i) == {s \in Submission : /\ submission[s].install = i
                                    /\ submission[s].status = "pending"}
PendingCount(i) == Cardinality(PendingOf(i))

RecentOf(i) == {s \in Submission : /\ submission[s].install = i
                                   /\ submission[s].recent}
DailyCount(i) == Cardinality(RecentOf(i))

RecentReportsOf(i) == {r \in Report : report[r].install = i /\ report[r].recent}
\* A report without an install id is never counted.
DailyReportCount(i) == IF i = NoInstall THEN 0 ELSE Cardinality(RecentReportsOf(i))

PendingWithoutMessage == {s \in Submission : /\ submission[s].status = "pending"
                                             /\ submission[s].message = 0}
OpenReportsWithoutMessage == {r \in Report : /\ report[r].status = "open"
                                             /\ report[r].message = 0}

ListApproved == {s \in Submission : submission[s].status = "approved"}

-----------------------------------------------------------------------------
(* Transactions.  A definition headed "Mutation" is no part of the system: *)
(* it is the next definition with a bug that a property must notice.       *)

CreateSubmission(s, i) ==
    submission' = [submission EXCEPT ![s] =
        [status |-> "pending", install |-> i, reviewedBy |-> Nobody,
         message |-> 0, recent |-> TRUE]]

\* UPDATE without a condition on the current status.
SetStatus(s, status, by) ==
    submission' = [submission EXCEPT ![s].status = status,
                                     ![s].reviewedBy = by]

SetDiscordMessage(s, m) == submission' = [submission EXCEPT ![s].message = m]

CreateReport(r, s, i) ==
    report' = [report EXCEPT ![r] =
        [status |-> "open", about |-> s, install |-> i,
         message |-> 0, recent |-> TRUE]]

SetReportStatus(r, status) == report' = [report EXCEPT ![r].status = status]

CloseReportsForSubmission(s) ==
    report' = [r \in Report |->
        IF report[r].status = "open" /\ report[r].about = s
        THEN [report[r] EXCEPT !.status = "actioned"]
        ELSE report[r]]

SetReportDiscordMessage(r, m) == report' = [report EXCEPT ![r].message = m]

\* The day-long window of daily_count and daily_report_count slides past a row.
SubmissionAges(s) == /\ submission[s].recent
                     /\ submission' = [submission EXCEPT ![s].recent = FALSE]
                     /\ UNCHANGED report
ReportAges(r) == /\ report[r].recent
                 /\ report' = [report EXCEPT ![r].recent = FALSE]
                 /\ UNCHANGED submission

StoreTypeOK == /\ submission \in [Submission -> SubmissionRow]
               /\ report \in [Report -> ReportRow]
=============================================================================
