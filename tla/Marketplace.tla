---------------------------- MODULE Marketplace ----------------------------
(***************************************************************************)
(* The template marketplace: the HTTP handlers of routes/templates.py, the *)
(* Discord review channel with its buttons (discord_client.py), the        *)
(* interactions endpoint of routes/discord.py, the repair job              *)
(* scripts/notify_pending.py and the maintainer's scripts/moderate.py,     *)
(* all working on the tables of TemplatesStore.                            *)
(*                                                                         *)
(* Every database transaction and every call to Discord is a step of its   *)
(* own.  submit and report are sync handlers and run concurrently on       *)
(* threads (Worker); the interactions handler is async and never awaits    *)
(* after it has read its body, so the event loop runs one at a time.       *)
(***************************************************************************)
EXTENDS TemplatesStore, Sequences

CONSTANTS
    Worker,       \* threads that run the sync handlers
    Job,          \* concurrent runs of notify_pending (timer, by hand)
    User,         \* Discord users in the channel
    Reviewer,     \* discord_reviewer_id_set
    Cli,          \* reviewed_by of scripts/moderate.py
    NoReport,
    MaxPending,   \* template_max_pending_per_install
    MaxDaily,     \* template_daily_submissions_per_install
    MaxReports,   \* _MAX_REPORTS_PER_DAY
    Ageing,       \* bound: FALSE for behaviours within one day
    MaxMessages,  \* bound: messages in the channel
    MaxInFlight,  \* bound: presses and open modals not yet handled
    MaxFaults     \* bound: lost acknowledgements, killed jobs and restarts

ASSUME QuotasArePositive == /\ MaxPending \in Nat \ {0}
                            /\ MaxDaily \in Nat \ {0}
                            /\ MaxReports \in Nat \ {0}
ASSUME ReviewersAreUsers == Reviewer \subseteq User
ASSUME DecidersAreKnown == Decider = User \cup {Cli}
ASSUME NullsAreDistinct == /\ NoInstall \notin Install
                           /\ Nobody \notin Decider
                           /\ NoSubmission \notin Submission
                           /\ NoReport \notin Report
ASSUME WorkersAreFinite == IsFiniteSet(Worker) /\ IsFiniteSet(Submission)
                           /\ IsFiniteSet(Report)

VARIABLES
    channel,      \* the review channel: a sequence of messages
    inflight,     \* presses sent and modals open, not yet handled
    worker,       \* the handler each thread runs, with its locals
    handler,      \* the interaction handler between its two transactions
    repair,       \* the runs of notify_pending, with their locals
    faults

vars == <<submission, report, channel, inflight, worker, handler, repair, faults>>

-----------------------------------------------------------------------------
(* The review channel.                                                     *)

Faces == {"review", "report", "approved", "closed"}
Message == [face : Faces, about : Submission, report : Report \cup {NoReport}]

Buttons(m) ==
    CASE channel[m].face = "review"   -> {"approve", "reject"}
      [] channel[m].face = "report"   -> {"revoke", "dismiss"}
      [] channel[m].face = "approved" -> {"revoke"}
      [] channel[m].face = "closed"   -> {}

ReviewMessage(s) == [face |-> "review", about |-> s, report |-> NoReport]
ReportMessage(r, s) == [face |-> "report", about |-> s, report |-> r]

Post(message) == /\ Len(channel) < MaxMessages
                 /\ channel' = Append(channel, message)

Fault == /\ faults < MaxFaults
         /\ faults' = faults + 1

\* The message was created but the answer never reached the poster.
PostUnacknowledged(message) == Post(message) /\ Fault

\* Discord was unreachable or refused.
PostFails == UNCHANGED <<channel, faults>>

\* The type-7 answer rewrites the message that was acted on, if it arrives
\* within the time Discord gives it.
Answer(m, face) == channel' \in {channel, [channel EXCEPT ![m].face = face]}

-----------------------------------------------------------------------------
(* POST /templates/submit and POST /templates/{slug}/report.               *)

SubmitPhases == {"daily", "create", "announce", "record"}
ReportPhases == {"reportDaily", "reportCreate", "reportAnnounce", "reportRecord"}
WorkerState == [pc : {"idle"} \cup SubmitPhases \cup ReportPhases,
                install : Install \cup {NoInstall},
                sub : Submission \cup {NoSubmission},
                rep : Report \cup {NoReport},
                msg : Nat]
IdleWorker == [pc |-> "idle", install |-> NoInstall, sub |-> NoSubmission,
               rep |-> NoReport, msg |-> 0]

Become(w, state) == worker' = [worker EXCEPT ![w] = state]
Finish(w) == Become(w, IdleWorker)
Step(w, pc) == Become(w, [worker[w] EXCEPT !.pc = pc])

\* Mutation: one pending submission too many passes the check.
SubmitBeginOffByOne(w, i) ==
    /\ worker[w].pc = "idle"
    /\ PendingCount(i) <= MaxPending
    /\ Become(w, [worker[w] EXCEPT !.pc = "daily", !.install = i])
    /\ UNCHANGED <<submission, report, channel, inflight, handler, repair, faults>>

\* Size, envelope and lint have passed; the first quota is read.  A body that
\* fails them, a blocked version and a test install change nothing.
SubmitBegin(w, i) ==
    /\ worker[w].pc = "idle"
    /\ PendingCount(i) < MaxPending
    /\ Become(w, [worker[w] EXCEPT !.pc = "daily", !.install = i])
    /\ UNCHANGED <<submission, report, channel, inflight, handler, repair, faults>>

SubmitCheckDaily(w) ==
    /\ worker[w].pc = "daily"
    /\ \/ DailyCount(worker[w].install) < MaxDaily /\ Step(w, "create")
       \/ DailyCount(worker[w].install) >= MaxDaily /\ Finish(w)
    /\ UNCHANGED <<submission, report, channel, inflight, handler, repair, faults>>

\* The image is refused, or the first contact of an install collides with
\* itself in ensure_author: the request ends without a row.
SubmitAbort(w) ==
    /\ worker[w].pc = "create"
    /\ Finish(w)
    /\ UNCHANGED <<submission, report, channel, inflight, handler, repair, faults>>

SubmitCreate(w) ==
    /\ worker[w].pc = "create"
    /\ \E s \in Submission :
          /\ ~Exists(s)
          /\ CreateSubmission(s, worker[w].install)
          /\ Become(w, [worker[w] EXCEPT !.pc = "announce", !.sub = s])
    /\ UNCHANGED <<report, channel, inflight, handler, repair, faults>>

SubmitAnnounce(w) ==
    LET message == ReviewMessage(worker[w].sub) IN
    /\ worker[w].pc = "announce"
    /\ \/ /\ Post(message)
          /\ Become(w, [worker[w] EXCEPT !.pc = "record", !.msg = Len(channel')])
          /\ UNCHANGED faults
       \/ PostUnacknowledged(message) /\ Finish(w)
       \/ PostFails /\ Finish(w)
    /\ UNCHANGED <<submission, report, inflight, handler, repair>>

SubmitRecord(w) ==
    /\ worker[w].pc = "record"
    /\ SetDiscordMessage(worker[w].sub, worker[w].msg)
    /\ Finish(w)
    /\ UNCHANGED <<report, channel, inflight, handler, repair, faults>>

\* get_by_slug; a template that is gone answers already_removed.
ReportBegin(w, i, s) ==
    /\ worker[w].pc = "idle"
    /\ submission[s].status \in {"approved", "pending"}
    /\ Become(w, [worker[w] EXCEPT !.pc = "reportDaily", !.install = i, !.sub = s])
    /\ UNCHANGED <<submission, report, channel, inflight, handler, repair, faults>>

\* Mutation: one takedown request too many passes the check.
ReportCheckDailyOffByOne(w) ==
    /\ worker[w].pc = "reportDaily"
    /\ \/ DailyReportCount(worker[w].install) <= MaxReports /\ Step(w, "reportCreate")
       \/ DailyReportCount(worker[w].install) > MaxReports /\ Finish(w)
    /\ UNCHANGED <<submission, report, channel, inflight, handler, repair, faults>>

ReportCheckDaily(w) ==
    /\ worker[w].pc = "reportDaily"
    /\ \/ DailyReportCount(worker[w].install) < MaxReports /\ Step(w, "reportCreate")
       \/ DailyReportCount(worker[w].install) >= MaxReports /\ Finish(w)
    /\ UNCHANGED <<submission, report, channel, inflight, handler, repair, faults>>

ReportCreate(w) ==
    /\ worker[w].pc = "reportCreate"
    /\ \E r \in Report :
          /\ ~ReportExists(r)
          /\ CreateReport(r, worker[w].sub, worker[w].install)
          /\ Become(w, [worker[w] EXCEPT !.pc = "reportAnnounce", !.rep = r])
    /\ UNCHANGED <<submission, channel, inflight, handler, repair, faults>>

ReportAnnounce(w) ==
    LET message == ReportMessage(worker[w].rep, worker[w].sub) IN
    /\ worker[w].pc = "reportAnnounce"
    /\ \/ /\ Post(message)
          /\ Become(w, [worker[w] EXCEPT !.pc = "reportRecord", !.msg = Len(channel')])
          /\ UNCHANGED faults
       \/ PostUnacknowledged(message) /\ Finish(w)
       \/ PostFails /\ Finish(w)
    /\ UNCHANGED <<submission, report, inflight, handler, repair>>

ReportRecord(w) ==
    /\ worker[w].pc = "reportRecord"
    /\ SetReportDiscordMessage(worker[w].rep, worker[w].msg)
    /\ Finish(w)
    /\ UNCHANGED <<submission, channel, inflight, handler, repair, faults>>

-----------------------------------------------------------------------------
(* POST /discord/interactions.  A press was sent while the message showed  *)
(* the button; it may be handled after the message has been rewritten.     *)

Actions == {"approve", "reject", "rejectm", "revoke", "dismiss"}
Interaction == [actor : User, msg : Nat, action : Actions]

HandlerState == [pc : {"idle", "closing"}, msg : Nat]
IdleHandler == [pc |-> "idle", msg |-> 0]

Press(u, m, b) ==
    /\ b \in Buttons(m)
    /\ Cardinality(inflight) < MaxInFlight
    /\ inflight' = inflight \cup {[actor |-> u, msg |-> m, action |-> b]}
    /\ UNCHANGED <<submission, report, channel, worker, handler, repair, faults>>

\* The request is lost, or the reviewer closes the modal.
Abandon(x) ==
    /\ inflight' = inflight \ {x}
    /\ UNCHANGED <<submission, report, channel, worker, handler, repair, faults>>

\* Mutation: the reviewer list is not consulted.
AnyoneAuthorised(x) == handler.pc = "idle"

\* The handler is free and the actor is on the reviewer list; anyone else is
\* told so and nothing changes (Abandon).
Authorised(x) == /\ handler.pc = "idle"
                 /\ x.actor \in Reviewer

Take(x) == inflight' = inflight \ {x}

HandleApprove(x) ==
    /\ x.action = "approve"
    /\ Authorised(x)
    /\ SetStatus(channel[x.msg].about, "approved", x.actor)
    /\ Answer(x.msg, "approved")
    /\ Take(x)
    /\ UNCHANGED <<report, worker, handler, repair, faults>>

\* Mutation: the message loses its buttons when the modal opens.
HandleRejectEarly(x) ==
    /\ x.action = "reject"
    /\ Authorised(x)
    /\ inflight' = (inflight \ {x}) \cup {[x EXCEPT !.action = "rejectm"]}
    /\ Answer(x.msg, "closed")
    /\ UNCHANGED <<submission, report, worker, handler, repair, faults>>

\* No state changes; the answer opens the modal, whose submission comes later.
HandleReject(x) ==
    /\ x.action = "reject"
    /\ Authorised(x)
    /\ inflight' = (inflight \ {x}) \cup {[x EXCEPT !.action = "rejectm"]}
    /\ UNCHANGED <<submission, report, channel, worker, handler, repair, faults>>

HandleRejectModal(x) ==
    /\ x.action = "rejectm"
    /\ Authorised(x)
    /\ SetStatus(channel[x.msg].about, "rejected", x.actor)
    /\ Answer(x.msg, "closed")
    /\ Take(x)
    /\ UNCHANGED <<report, worker, handler, repair, faults>>

\* First of the two transactions of a takedown.
HandleRevoke(x) ==
    /\ x.action = "revoke"
    /\ Authorised(x)
    /\ SetStatus(channel[x.msg].about, "revoked", x.actor)
    /\ handler' = [pc |-> "closing", msg |-> x.msg]
    /\ Take(x)
    /\ UNCHANGED <<report, channel, worker, repair, faults>>

\* Mutation: the takedown leaves its reports open.
RevokeWithoutClosing ==
    /\ handler.pc = "closing"
    /\ Answer(handler.msg, "closed")
    /\ handler' = IdleHandler
    /\ UNCHANGED <<submission, report, inflight, worker, repair, faults>>

\* Second transaction, then the answer.
RevokeCloseReports ==
    /\ handler.pc = "closing"
    /\ CloseReportsForSubmission(channel[handler.msg].about)
    /\ Answer(handler.msg, "closed")
    /\ handler' = IdleHandler
    /\ UNCHANGED <<submission, inflight, worker, repair, faults>>

\* Mutation: the message is rewritten and the row forgotten.
HandleDismissAnswerOnly(x) ==
    /\ x.action = "dismiss"
    /\ Authorised(x)
    /\ Answer(x.msg, "closed")
    /\ Take(x)
    /\ UNCHANGED <<submission, report, worker, handler, repair, faults>>

HandleDismiss(x) ==
    /\ x.action = "dismiss"
    /\ Authorised(x)
    /\ SetReportStatus(channel[x.msg].report, "dismissed")
    /\ Answer(x.msg, "closed")
    /\ Take(x)
    /\ UNCHANGED <<submission, worker, handler, repair, faults>>

-----------------------------------------------------------------------------
(* scripts/moderate.py approve | reject | revoke: one transaction, no      *)
(* reports are settled and no message is rewritten.                        *)

Moderate(s, status) ==
    /\ Exists(s)
    /\ SetStatus(s, status, Cli)
    /\ UNCHANGED <<report, channel, inflight, worker, handler, repair, faults>>

-----------------------------------------------------------------------------
(* scripts/notify_pending.py, started by a timer every 15 minutes.         *)

JobState == [pc : {"idle", "subs", "subRecord", "reps", "repRecord"},
             todo : SUBSET Submission, todoReps : SUBSET Report,
             sub : Submission \cup {NoSubmission},
             rep : Report \cup {NoReport}, msg : Nat]
IdleJob == [pc |-> "idle", todo |-> {}, todoReps |-> {},
            sub |-> NoSubmission, rep |-> NoReport, msg |-> 0]

Proceed(j, state) == repair' = [repair EXCEPT ![j] = state]

RepairRead(j) ==
    /\ repair[j].pc = "idle"
    /\ Proceed(j, [repair[j] EXCEPT !.pc = "subs", !.todo = PendingWithoutMessage])
    /\ UNCHANGED <<submission, report, channel, inflight, worker, handler, faults>>

RepairAnnounce(j, s) ==
    /\ repair[j].pc = "subs"
    /\ s \in repair[j].todo
    /\ Post(ReviewMessage(s))
    /\ Proceed(j, [repair[j] EXCEPT !.pc = "subRecord", !.todo = @ \ {s},
                                    !.sub = s, !.msg = Len(channel')])
    /\ UNCHANGED <<submission, report, inflight, worker, handler, faults>>

\* Counted as a failure; the next row is tried.
RepairAnnounceFails(j, s) ==
    /\ repair[j].pc = "subs"
    /\ s \in repair[j].todo
    /\ PostFails \/ PostUnacknowledged(ReviewMessage(s))
    /\ Proceed(j, [repair[j] EXCEPT !.todo = @ \ {s}])
    /\ UNCHANGED <<submission, report, inflight, worker, handler>>

\* Mutation: the message id is not stored.
RepairForget(j) ==
    /\ repair[j].pc = "subRecord"
    /\ Proceed(j, [repair[j] EXCEPT !.pc = "subs", !.sub = NoSubmission, !.msg = 0])
    /\ UNCHANGED <<submission, report, channel, inflight, worker, handler, faults>>

RepairRecord(j) ==
    /\ repair[j].pc = "subRecord"
    /\ SetDiscordMessage(repair[j].sub, repair[j].msg)
    /\ Proceed(j, [repair[j] EXCEPT !.pc = "subs", !.sub = NoSubmission, !.msg = 0])
    /\ UNCHANGED <<report, channel, inflight, worker, handler, faults>>

\* Mutation: requests against templates that still wait are passed over.
RepairReadReportsOfApproved(j) ==
    /\ repair[j].pc = "subs"
    /\ repair[j].todo = {}
    /\ Proceed(j, [repair[j] EXCEPT !.pc = "reps",
                 !.todoReps = {r \in OpenReportsWithoutMessage :
                                  report[r].about \in ListApproved}])
    /\ UNCHANGED <<submission, report, channel, inflight, worker, handler, faults>>

RepairReadReports(j) ==
    /\ repair[j].pc = "subs"
    /\ repair[j].todo = {}
    /\ Proceed(j, [repair[j] EXCEPT !.pc = "reps", !.todoReps = OpenReportsWithoutMessage])
    /\ UNCHANGED <<submission, report, channel, inflight, worker, handler, faults>>

RepairAnnounceReport(j, r) ==
    /\ repair[j].pc = "reps"
    /\ r \in repair[j].todoReps
    /\ Post(ReportMessage(r, report[r].about))
    /\ Proceed(j, [repair[j] EXCEPT !.pc = "repRecord", !.todoReps = @ \ {r},
                                    !.rep = r, !.msg = Len(channel')])
    /\ UNCHANGED <<submission, report, inflight, worker, handler, faults>>

RepairAnnounceReportFails(j, r) ==
    /\ repair[j].pc = "reps"
    /\ r \in repair[j].todoReps
    /\ PostFails \/ PostUnacknowledged(ReportMessage(r, report[r].about))
    /\ Proceed(j, [repair[j] EXCEPT !.todoReps = @ \ {r}])
    /\ UNCHANGED <<submission, report, inflight, worker, handler>>

RepairRecordReport(j) ==
    /\ repair[j].pc = "repRecord"
    /\ SetReportDiscordMessage(repair[j].rep, repair[j].msg)
    /\ Proceed(j, [repair[j] EXCEPT !.pc = "reps", !.rep = NoReport, !.msg = 0])
    /\ UNCHANGED <<submission, channel, inflight, worker, handler, faults>>

RepairDone(j) ==
    /\ repair[j].pc = "reps"
    /\ repair[j].todoReps = {}
    /\ Proceed(j, IdleJob)
    /\ UNCHANGED <<submission, report, channel, inflight, worker, handler, faults>>

-----------------------------------------------------------------------------
(* Failures.  Only the tables and the channel survive a restart of the     *)
(* container, in which the repair job runs too.                            *)

JobKilled(j) ==
    /\ repair[j].pc # "idle"
    /\ Fault
    /\ Proceed(j, IdleJob)
    /\ UNCHANGED <<submission, report, channel, inflight, worker, handler>>

Restart ==
    /\ Fault
    /\ worker' = [w \in Worker |-> IdleWorker]
    /\ handler' = IdleHandler
    /\ repair' = [j \in Job |-> IdleJob]
    /\ UNCHANGED <<submission, report, channel, inflight>>

-----------------------------------------------------------------------------
Init == /\ StoreInit
        /\ channel = <<>>
        /\ inflight = {}
        /\ worker = [w \in Worker |-> IdleWorker]
        /\ handler = IdleHandler
        /\ repair = [j \in Job |-> IdleJob]
        /\ faults = 0

WorkerNext(w) ==
    \/ \E i \in Install : SubmitBegin(w, i)
    \/ SubmitCheckDaily(w) \/ SubmitAbort(w) \/ SubmitCreate(w)
    \/ SubmitAnnounce(w) \/ SubmitRecord(w)
    \/ \E i \in Install \cup {NoInstall}, s \in Submission : ReportBegin(w, i, s)
    \/ ReportCheckDaily(w) \/ ReportCreate(w)
    \/ ReportAnnounce(w) \/ ReportRecord(w)

ReviewNext ==
    \/ \E u \in User, m \in DOMAIN channel, b \in Actions : Press(u, m, b)
    \/ \E x \in inflight : \/ HandleApprove(x) \/ HandleReject(x)
                           \/ HandleRejectModal(x) \/ HandleRevoke(x)
                           \/ HandleDismiss(x) \/ Abandon(x)
    \/ RevokeCloseReports

RepairNext(j) ==
    \/ RepairRead(j) \/ RepairRecord(j) \/ RepairReadReports(j)
    \/ RepairRecordReport(j) \/ RepairDone(j) \/ JobKilled(j)
    \/ \E s \in Submission : RepairAnnounce(j, s) \/ RepairAnnounceFails(j, s)
    \/ \E r \in Report : RepairAnnounceReport(j, r) \/ RepairAnnounceReportFails(j, r)

RowsAge == /\ Ageing
           /\ \/ \E s \in Submission : SubmissionAges(s)
              \/ \E r \in Report : ReportAges(r)
           /\ UNCHANGED <<channel, inflight, worker, handler, repair, faults>>

Next ==
    \/ \E w \in Worker : WorkerNext(w)
    \/ ReviewNext
    \/ \E s \in Submission, status \in Statuses \ {"pending"} : Moderate(s, status)
    \/ \E j \in Job : RepairNext(j)
    \/ RowsAge
    \/ Restart

Spec == Init /\ [][Next]_vars

\* Scheduling: the timer keeps starting the job, a started job keeps running,
\* and an announcement that is tried over and over is acknowledged in the end
\* (Discord recovers).
Fairness ==
    /\ \A j \in Job :
          /\ WF_vars(RepairRead(j))
          /\ WF_vars(RepairRecord(j) \/ RepairReadReports(j)
                     \/ RepairRecordReport(j) \/ RepairDone(j)
                     \/ (\E s \in Submission : RepairAnnounce(j, s) \/ RepairAnnounceFails(j, s))
                     \/ (\E r \in Report : RepairAnnounceReport(j, r) \/ RepairAnnounceReportFails(j, r)))
          /\ \A s \in Submission : SF_vars(RepairAnnounce(j, s))
          /\ \A r \in Report : SF_vars(RepairAnnounceReport(j, r))

FairSpec == Spec /\ Fairness

-----------------------------------------------------------------------------
(* The tables as Moderation sees them.                                     *)

Stage(s) == CASE submission[s].status = "absent"  -> "none"
              [] submission[s].status = "pending" -> "waiting"
              [] s \in ListApproved               -> "up"
              [] OTHER                            -> "down"

Complaint(r) == CASE report[r].status = "absent" -> "none"
                  [] report[r].status = "open"   -> "open"
                  [] OTHER                       -> "settled"

Promise == INSTANCE Moderation
    WITH stage     <- [s \in Submission |-> Stage(s)],
         decidedBy <- [s \in Submission |-> submission[s].reviewedBy],
         complaint <- [r \in Report |-> Complaint(r)],
         about     <- [r \in Report |-> report[r].about],
         Decider   <- Reviewer \cup {Cli}

-----------------------------------------------------------------------------
(* Properties.                                                             *)

\* Every variable keeps its type.
TypeOK == /\ StoreTypeOK
          /\ channel \in Seq(Message)
          /\ \A x \in inflight : x \in Interaction /\ x.msg \in DOMAIN channel
          /\ worker \in [Worker -> WorkerState]
          /\ handler \in HandlerState
          /\ repair \in [Job -> JobState]
          /\ faults \in Nat

\* Threads that have passed the pending check and may still insert a row.
PastPendingCheck(i) == {w \in Worker : /\ worker[w].pc \in {"daily", "create"}
                                       /\ worker[w].install = i}

\* Threads that have passed both checks.
PastDailyCheck(i) == {w \in Worker : /\ worker[w].pc = "create"
                                     /\ worker[w].install = i}

\* Threads that have passed the quota on takedown requests.
PastReportCheck(i) == {w \in Worker : /\ worker[w].pc = "reportCreate"
                                      /\ worker[w].install = i}

\* The checks of submit_template and its insert are separate transactions, so
\* the quota on pending submissions is not exact; but an install overshoots it
\* by less than the number of threads, however its requests interleave with
\* each other and with review, takedown, repair and restarts.
PendingQuotaBound ==
    \A i \in Install : PendingCount(i) < MaxPending + Cardinality(Worker)

\* The same for the daily quota on submissions.
DailyQuotaBound ==
    \A i \in Install : DailyCount(i) < MaxDaily + Cardinality(Worker)

\* The same for the daily quota on takedown requests that carry an install id.
ReportQuotaBound ==
    \A i \in Install : DailyReportCount(i) < MaxReports + Cardinality(Worker)

\* A pending row that the repair job will not announce any more, because a
\* message id is recorded, has that message in the channel: it is about this
\* row and still carries Approve and Reject.  Otherwise the row would wait for
\* a review that nobody can give.
AnnouncedIsActionable ==
    \A s \in Submission :
        LET m == submission[s].message IN
        submission[s].status = "pending" /\ m # 0 =>
            /\ m \in DOMAIN channel
            /\ channel[m].about = s
            /\ {"approve", "reject"} \subseteq Buttons(m)

\* The same for a takedown request: while it is open and counts as announced,
\* its message carries Take down and Dismiss for this report.
OpenReportIsActionable ==
    \A r \in Report :
        LET m == report[r].message IN
        report[r].status = "open" /\ m # 0 =>
            /\ m \in DOMAIN channel
            /\ channel[m].report = r
            /\ channel[m].about = report[r].about
            /\ {"revoke", "dismiss"} \subseteq Buttons(m)

\* The marketplace implements Moderation with the reviewers and the maintainer
\* as the only deciders: no thread, duplicated message, stale press, repair run
\* or restart moves a template or a takedown request on its own.
ImplementsModeration == Promise!Spec

\* "A Discord outage must not lose the submission": a pending row is announced
\* or decided in the end.
EventuallyAnnounced ==
    \A s \in Submission :
        submission[s].status = "pending" ~>
            submission[s].status # "pending" \/ submission[s].message # 0

\* The same for takedown requests.
ReportEventuallyAnnounced ==
    \A r \in Report :
        report[r].status = "open" ~>
            report[r].status # "open" \/ report[r].message # 0

-----------------------------------------------------------------------------
(* The inductive invariant behind TypeOK and the two actionability         *)
(* properties, in named parts.                                             *)

IsReviewMessage(m, s) == /\ m \in DOMAIN channel
                         /\ channel[m].about = s
                         /\ channel[m].report = NoReport
IsReportMessage(m, r) == /\ m \in DOMAIN channel
                         /\ channel[m].report = r

ReportRowsOK ==
    \A r \in Report :
        /\ ReportExists(r) => report[r].about \in Submission /\ Exists(report[r].about)
        /\ report[r].message # 0 => /\ ReportExists(r)
                                    /\ IsReportMessage(report[r].message, r)

SubmissionRowsOK ==
    \A s \in Submission :
        submission[s].message # 0 => /\ Exists(s)
                                     /\ IsReviewMessage(submission[s].message, s)

\* The locals k of a thread, or of a run of the repair job, fit the tables.
WorkerOK(k) ==
    /\ k.pc \in SubmitPhases => k.install \in Install
    /\ k.pc \in {"announce", "record"} \cup ReportPhases =>
           k.sub \in Submission /\ Exists(k.sub)
    /\ k.pc \in {"reportAnnounce", "reportRecord"} =>
           /\ k.rep \in Report
           /\ ReportExists(k.rep)
           /\ report[k.rep].about = k.sub
    /\ k.pc = "record" => IsReviewMessage(k.msg, k.sub)
    /\ k.pc = "reportRecord" => IsReportMessage(k.msg, k.rep)

WorkersOK == \A w \in Worker : WorkerOK(worker[w])

JobOK(k) ==
    /\ \A s \in k.todo : Exists(s)
    /\ \A r \in k.todoReps : ReportExists(r)
    /\ k.pc = "subRecord" => /\ k.sub \in Submission
                             /\ Exists(k.sub)
                             /\ IsReviewMessage(k.msg, k.sub)
    /\ k.pc = "repRecord" => /\ k.rep \in Report
                             /\ ReportExists(k.rep)
                             /\ IsReportMessage(k.msg, k.rep)

JobsOK == \A j \in Job : JobOK(repair[j])

\* A message keeps its buttons for as long as its row waits for somebody.
ChannelOK ==
    \A m \in DOMAIN channel :
        LET c == channel[m] IN
        /\ Exists(c.about)
        /\ c.report = NoReport => /\ c.face # "report"
                                  /\ Pending(c.about) => c.face = "review"
        /\ c.report # NoReport => /\ c.face \in {"report", "closed"}
                                  /\ ReportExists(c.report)
                                  /\ report[c.report].about = c.about
                                  /\ Open(c.report) => c.face = "report"

InteractionsOK ==
    /\ \A x \in inflight :
          /\ x.msg \in DOMAIN channel
          /\ x.action \in {"approve", "reject", "rejectm"} =>
                channel[x.msg].report = NoReport
          /\ x.action = "dismiss" => channel[x.msg].report \in Report
    /\ handler.pc = "closing" => /\ handler.msg \in DOMAIN channel
                                 /\ ~Pending(channel[handler.msg].about)

\* The inductive invariant: rows, messages, presses and the locals of every
\* handler agree about which row each message and each step is for.
IInv == /\ TypeOK
        /\ ReportRowsOK
        /\ SubmissionRowsOK
        /\ WorkersOK
        /\ JobsOK
        /\ ChannelOK
        /\ InteractionsOK

\* The inductive invariant behind the quota bounds: rows that count and threads
\* that may still add one are together fewer than the quota plus the threads.
\* The bound on the rows alone is not inductive: it forgets the threads that
\* have passed the check and not inserted yet.
QuotaInv ==
    \A i \in Install :
        /\ Cardinality(PendingOf(i)) + Cardinality(PastPendingCheck(i))
               < MaxPending + Cardinality(Worker)
        /\ Cardinality(RecentOf(i)) + Cardinality(PastDailyCheck(i))
               < MaxDaily + Cardinality(Worker)
        /\ Cardinality(RecentReportsOf(i)) + Cardinality(PastReportCheck(i))
               < MaxReports + Cardinality(Worker)

-----------------------------------------------------------------------------
(* What a comment, a doc or a test says of the program, and the program    *)
(* does not do.                                                            *)

Lifecycle == {<<"absent", "pending">>, <<"pending", "approved">>,
              <<"pending", "rejected">>, <<"approved", "revoked">>}

\* No message about a decided template still offers the decision: every answer
\* that rewrites one has arrived, and there was no second message.
ShowsDecision(s) ==
    submission[s].status # "pending" =>
        \A m \in DOMAIN channel : channel[m].about = s => channel[m].face # "review"

\* templates_store.py:16: "Status lifecycle: pending -> approved | rejected;
\* approved -> revoked", here for templates the maintainer has not touched and
\* whose messages show what was decided, so that only what a reviewer had opened
\* or pressed before can still arrive.
ReviewFollowsLifecycle ==
    [][\A s \in Submission :
          /\ submission'[s].status # submission[s].status
          /\ Cli \notin {submission[s].reviewedBy, submission'[s].reviewedBy}
          /\ ShowsDecision(s)
          => <<submission[s].status, submission'[s].status>> \in Lifecycle]_vars

\* discord.py:142: "acting from either message (the original review post or a
\* takedown request) settles both": once a takedown by a reviewer is over, no
\* report about the template is open.
TakedownSettlesReports ==
    \A s \in Submission :
        /\ submission[s].status = "revoked"
        /\ submission[s].reviewedBy \in Reviewer
        /\ handler.pc = "idle"
        => ~\E r \in Report : report[r].status = "open" /\ report[r].about = s
=============================================================================
