------------------------- MODULE MarketplaceProofs -------------------------
(* What holds of Marketplace for every number of threads, jobs, templates, *)
(* reports and quotas.                                                     *)
EXTENDS Marketplace, FiniteSetTheorems, SequenceTheorems, TLAPS

-----------------------------------------------------------------------------
(* The channel: posting adds a message at the end, an answer changes only  *)
(* the face of the message that was acted on.                              *)

LEMMA PostGrows ==
  ASSUME channel \in Seq(Message), NEW c \in Message, Post(c)
  PROVE  /\ channel' \in Seq(Message)
         /\ Len(channel') \in Nat
         /\ Len(channel') \in DOMAIN channel'
         /\ Len(channel') # 0
         /\ channel'[Len(channel')] = c
         /\ \A m \in DOMAIN channel : m \in DOMAIN channel' /\ channel'[m] = channel[m]
         /\ \A m \in DOMAIN channel' : m \in DOMAIN channel \/ m = Len(channel')
  BY AppendProperties DEF Post

LEMMA AnswerKeeps ==
  ASSUME channel \in Seq(Message), NEW n \in DOMAIN channel, NEW f \in Faces,
         Answer(n, f)
  PROVE  /\ channel' \in Seq(Message)
         /\ DOMAIN channel' = DOMAIN channel
         /\ \A m \in DOMAIN channel : /\ channel'[m].about = channel[m].about
                                      /\ channel'[m].report = channel[m].report
                                      /\ m # n => channel'[m].face = channel[m].face
                                      /\ channel'[m].face \in {f, channel[m].face}
  <1> DEFINE answered == [channel EXCEPT ![n].face = f]
  <1>1. [channel[n] EXCEPT !.face = f] \in Message
    <2>1. channel[n] \in Message
      BY ElementOfSeq
    <2> QED
      BY <2>1 DEF Message
  <1>2. answered \in Seq(Message) /\ DOMAIN answered = DOMAIN channel
    BY <1>1, ExceptSeq
  <1>3. channel' = channel \/ channel' = answered
    BY DEF Answer
  <1>4. \A m \in DOMAIN channel : channel[m] \in Message
    BY ElementOfSeq
  <1> QED
    BY <1>2, <1>3, <1>4 DEF Message

LEMMA MessageTypes ==
  /\ \A s \in Submission : ReviewMessage(s) \in Message
  /\ \A r \in Report, s \in Submission : ReportMessage(r, s) \in Message
  BY DEF ReviewMessage, ReportMessage, Message, Faces

-----------------------------------------------------------------------------
(* Type correctness, variable by variable.                                 *)

LEMMA WorkerType ==
  ASSUME IInv, NEW w \in Worker, WorkerNext(w)
  PROVE  worker' \in [Worker -> WorkerState]
  <1>1. /\ worker \in [Worker -> WorkerState]
        /\ channel \in Seq(Message)
        /\ worker[w] \in WorkerState
    BY DEF IInv, TypeOK
  <1>2. ASSUME NEW k \in WorkerState, Become(w, k)
        PROVE  worker' \in [Worker -> WorkerState]
    BY <1>1, <1>2 DEF Become
  <1>3. IdleWorker \in WorkerState
    BY DEF IdleWorker, WorkerState
  <1>4. Finish(w) => worker' \in [Worker -> WorkerState]
    BY <1>2, <1>3 DEF Finish
  <1>5. ASSUME NEW pc \in SubmitPhases \cup ReportPhases, Step(w, pc)
        PROVE  worker' \in [Worker -> WorkerState]
    <2>1. [worker[w] EXCEPT !.pc = pc] \in WorkerState
      BY <1>1, <1>5 DEF WorkerState
    <2> QED
      BY <1>2, <1>5, <2>1 DEF Step
  <1>6. ASSUME NEW i \in Install, SubmitBegin(w, i)
        PROVE  worker' \in [Worker -> WorkerState]
    <2>1. [worker[w] EXCEPT !.pc = "daily", !.install = i] \in WorkerState
      BY <1>1 DEF WorkerState, SubmitPhases
    <2> QED
      BY <1>2, <1>6, <2>1 DEF SubmitBegin
  <1>7. CASE SubmitCheckDaily(w)
    BY <1>4, <1>5, <1>7 DEF SubmitCheckDaily, SubmitPhases
  <1>8. CASE SubmitAbort(w)
    BY <1>4, <1>8 DEF SubmitAbort
  <1>9. CASE SubmitCreate(w)
    <2>1. PICK s \in Submission :
             Become(w, [worker[w] EXCEPT !.pc = "announce", !.sub = s])
      BY <1>9 DEF SubmitCreate
    <2>2. [worker[w] EXCEPT !.pc = "announce", !.sub = s] \in WorkerState
      BY <1>1 DEF WorkerState, SubmitPhases
    <2> QED
      BY <1>2, <2>1, <2>2
  <1>10. CASE SubmitAnnounce(w)
    <2>1. ASSUME Post(ReviewMessage(worker[w].sub)),
                 Become(w, [worker[w] EXCEPT !.pc = "record", !.msg = Len(channel')])
          PROVE  worker' \in [Worker -> WorkerState]
      <3>1. worker[w].sub \in Submission
        BY <1>10 DEF IInv, WorkersOK, WorkerOK, SubmitAnnounce
      <3>2. Len(channel') \in Nat
        BY <1>1, <2>1, <3>1, PostGrows, MessageTypes
      <3>3. [worker[w] EXCEPT !.pc = "record", !.msg = Len(channel')] \in WorkerState
        BY <1>1, <3>2 DEF WorkerState, SubmitPhases
      <3> QED
        BY <1>2, <2>1, <3>3
    <2> QED
      BY <1>4, <1>10, <2>1 DEF SubmitAnnounce
  <1>11. CASE SubmitRecord(w)
    BY <1>4, <1>11 DEF SubmitRecord
  <1>12. ASSUME NEW i \in Install \cup {NoInstall}, NEW s \in Submission,
                ReportBegin(w, i, s)
         PROVE  worker' \in [Worker -> WorkerState]
    <2>1. [worker[w] EXCEPT !.pc = "reportDaily", !.install = i, !.sub = s]
             \in WorkerState
      BY <1>1 DEF WorkerState, ReportPhases
    <2> QED
      BY <1>2, <1>12, <2>1 DEF ReportBegin
  <1>13. CASE ReportCheckDaily(w)
    BY <1>4, <1>5, <1>13 DEF ReportCheckDaily, ReportPhases
  <1>14. CASE ReportCreate(w)
    <2>1. PICK r \in Report :
             Become(w, [worker[w] EXCEPT !.pc = "reportAnnounce", !.rep = r])
      BY <1>14 DEF ReportCreate
    <2>2. [worker[w] EXCEPT !.pc = "reportAnnounce", !.rep = r] \in WorkerState
      BY <1>1 DEF WorkerState, ReportPhases
    <2> QED
      BY <1>2, <2>1, <2>2
  <1>15. CASE ReportAnnounce(w)
    <2>1. ASSUME Post(ReportMessage(worker[w].rep, worker[w].sub)),
                 Become(w, [worker[w] EXCEPT !.pc = "reportRecord", !.msg = Len(channel')])
          PROVE  worker' \in [Worker -> WorkerState]
      <3>1. worker[w].sub \in Submission /\ worker[w].rep \in Report
        BY <1>15 DEF IInv, WorkersOK, WorkerOK, ReportAnnounce, ReportPhases
      <3>2. Len(channel') \in Nat
        BY <1>1, <2>1, <3>1, PostGrows, MessageTypes
      <3>3. [worker[w] EXCEPT !.pc = "reportRecord", !.msg = Len(channel')] \in WorkerState
        BY <1>1, <3>2 DEF WorkerState, ReportPhases
      <3> QED
        BY <1>2, <2>1, <3>3
    <2> QED
      BY <1>4, <1>15, <2>1 DEF ReportAnnounce
  <1>16. CASE ReportRecord(w)
    BY <1>4, <1>16 DEF ReportRecord
  <1> QED
    BY <1>6, <1>7, <1>8, <1>9, <1>10, <1>11, <1>12, <1>13, <1>14, <1>15, <1>16
    DEF WorkerNext

LEMMA JobType ==
  ASSUME IInv, NEW j \in Job, RepairNext(j)
  PROVE  repair' \in [Job -> JobState]
  <1>1. /\ repair \in [Job -> JobState]
        /\ channel \in Seq(Message)
        /\ repair[j] \in JobState
    BY DEF IInv, TypeOK
  <1>2. ASSUME NEW k \in JobState, Proceed(j, k)
        PROVE  repair' \in [Job -> JobState]
    BY <1>1, <1>2 DEF Proceed
  <1>3. IdleJob \in JobState
    BY DEF IdleJob, JobState
  <1>4. CASE RepairRead(j)
    <2>1. PendingWithoutMessage \in SUBSET Submission
      BY DEF PendingWithoutMessage
    <2>2. [repair[j] EXCEPT !.pc = "subs", !.todo = PendingWithoutMessage] \in JobState
      BY <1>1, <2>1 DEF JobState
    <2> QED
      BY <1>2, <1>4, <2>2 DEF RepairRead
  <1>5. CASE RepairRecord(j)
    <2>1. [repair[j] EXCEPT !.pc = "subs", !.sub = NoSubmission, !.msg = 0] \in JobState
      BY <1>1 DEF JobState
    <2> QED
      BY <1>2, <1>5, <2>1 DEF RepairRecord
  <1>6. CASE RepairReadReports(j)
    <2>1. OpenReportsWithoutMessage \in SUBSET Report
      BY DEF OpenReportsWithoutMessage
    <2>2. [repair[j] EXCEPT !.pc = "reps", !.todoReps = OpenReportsWithoutMessage]
             \in JobState
      BY <1>1, <2>1 DEF JobState
    <2> QED
      BY <1>2, <1>6, <2>2 DEF RepairReadReports
  <1>7. CASE RepairRecordReport(j)
    <2>1. [repair[j] EXCEPT !.pc = "reps", !.rep = NoReport, !.msg = 0] \in JobState
      BY <1>1 DEF JobState
    <2> QED
      BY <1>2, <1>7, <2>1 DEF RepairRecordReport
  <1>8. CASE RepairDone(j)
    BY <1>2, <1>3, <1>8 DEF RepairDone
  <1>9. CASE JobKilled(j)
    BY <1>2, <1>3, <1>9 DEF JobKilled
  <1>10. ASSUME NEW s \in Submission, RepairAnnounce(j, s)
         PROVE  repair' \in [Job -> JobState]
    <2>1. Len(channel') \in Nat
      BY <1>1, <1>10, PostGrows, MessageTypes DEF RepairAnnounce
    <2>2. [repair[j] EXCEPT !.pc = "subRecord", !.todo = @ \ {s}, !.sub = s,
                            !.msg = Len(channel')] \in JobState
      BY <1>1, <2>1 DEF JobState
    <2> QED
      BY <1>2, <1>10, <2>2 DEF RepairAnnounce
  <1>11. ASSUME NEW s \in Submission, RepairAnnounceFails(j, s)
         PROVE  repair' \in [Job -> JobState]
    <2>1. [repair[j] EXCEPT !.todo = @ \ {s}] \in JobState
      BY <1>1 DEF JobState
    <2> QED
      BY <1>2, <1>11, <2>1 DEF RepairAnnounceFails
  <1>12. ASSUME NEW r \in Report, RepairAnnounceReport(j, r)
         PROVE  repair' \in [Job -> JobState]
    <2>1. report[r].about \in Submission
      BY <1>12 DEF IInv, JobsOK, JobOK, ReportRowsOK, RepairAnnounceReport
    <2>2. Len(channel') \in Nat
      BY <1>1, <1>12, <2>1, PostGrows, MessageTypes DEF RepairAnnounceReport
    <2>3. [repair[j] EXCEPT !.pc = "repRecord", !.todoReps = @ \ {r}, !.rep = r,
                            !.msg = Len(channel')] \in JobState
      BY <1>1, <2>2 DEF JobState
    <2> QED
      BY <1>2, <1>12, <2>3 DEF RepairAnnounceReport
  <1>13. ASSUME NEW r \in Report, RepairAnnounceReportFails(j, r)
         PROVE  repair' \in [Job -> JobState]
    <2>1. [repair[j] EXCEPT !.todoReps = @ \ {r}] \in JobState
      BY <1>1 DEF JobState
    <2> QED
      BY <1>2, <1>13, <2>1 DEF RepairAnnounceReportFails
  <1> QED
    BY <1>4, <1>5, <1>6, <1>7, <1>8, <1>9, <1>10, <1>11, <1>12, <1>13 DEF RepairNext

-----------------------------------------------------------------------------
(* The tables: what each transaction keeps.  A row is never deleted, a     *)
(* decided submission is never pending again, a report keeps the template  *)
(* it is about and is never reopened.                                      *)

SubmissionsTyped == submission \in [Submission -> SubmissionRow]
ReportsTyped == report \in [Report -> ReportRow]

SubmissionsPersist ==
    \A s \in Submission :
        Exists(s) => Exists(s)' /\ (~Pending(s) => ~Pending(s)')

ReportsPersist ==
    \A r \in Report :
        ReportExists(r) => /\ ReportExists(r)'
                           /\ report'[r].about = report[r].about
                           /\ ~Open(r) => ~Open(r)'

LEMMA CreateSubmissionKeeps ==
  ASSUME SubmissionsTyped, NEW s \in Submission, ~Exists(s), NEW i \in Install,
         CreateSubmission(s, i)
  PROVE  /\ SubmissionsTyped'
         /\ SubmissionsPersist
         /\ Exists(s)'
         /\ submission'[s].message = 0
         /\ \A t \in Submission \ {s} : submission'[t] = submission[t]
  BY DEF SubmissionsTyped, SubmissionsPersist, CreateSubmission, SubmissionRow,
         Statuses, Exists, Pending

LEMMA SetStatusKeeps ==
  ASSUME SubmissionsTyped, NEW s \in Submission, Exists(s),
         NEW status \in Statuses \ {"pending"}, NEW by \in Decider,
         SetStatus(s, status, by)
  PROVE  /\ SubmissionsTyped'
         /\ SubmissionsPersist
         /\ ~Pending(s)'
         /\ \A t \in Submission : submission'[t].message = submission[t].message
  BY DEF SubmissionsTyped, SubmissionsPersist, SetStatus, SubmissionRow,
         Statuses, Exists, Pending

LEMMA SetMessageKeeps ==
  ASSUME SubmissionsTyped, NEW s \in Submission, NEW m \in Nat,
         SetDiscordMessage(s, m)
  PROVE  /\ SubmissionsTyped'
         /\ SubmissionsPersist
         /\ submission'[s].message = m
         /\ \A t \in Submission : submission'[t].status = submission[t].status
         /\ \A t \in Submission \ {s} : submission'[t] = submission[t]
  BY DEF SubmissionsTyped, SubmissionsPersist, SetDiscordMessage, SubmissionRow,
         Exists, Pending

LEMMA CreateReportKeeps ==
  ASSUME ReportsTyped, NEW r \in Report, ~ReportExists(r), NEW s \in Submission,
         NEW i \in Install \cup {NoInstall}, CreateReport(r, s, i)
  PROVE  /\ ReportsTyped'
         /\ ReportsPersist
         /\ ReportExists(r)'
         /\ report'[r].about = s
         /\ report'[r].message = 0
         /\ \A t \in Report \ {r} : report'[t] = report[t]
  BY DEF ReportsTyped, ReportsPersist, CreateReport, ReportRow, ReportStatuses,
         ReportExists, Open

LEMMA DismissKeeps ==
  ASSUME ReportsTyped, NEW r \in Report, ReportExists(r),
         SetReportStatus(r, "dismissed")
  PROVE  /\ ReportsTyped'
         /\ ReportsPersist
         /\ ~Open(r)'
         /\ \A t \in Report : /\ report'[t].message = report[t].message
                              /\ ReportExists(t) <=> ReportExists(t)'
                              /\ report'[t].about = report[t].about
  BY DEF ReportsTyped, ReportsPersist, SetReportStatus, ReportRow, ReportStatuses,
         ReportExists, Open

LEMMA CloseReportsKeeps ==
  ASSUME ReportsTyped, NEW s \in Submission, CloseReportsForSubmission(s)
  PROVE  /\ ReportsTyped'
         /\ ReportsPersist
         /\ \A t \in Report : /\ report'[t].message = report[t].message
                              /\ report[t].about = s => ~Open(t)'
                              /\ ReportExists(t) <=> ReportExists(t)'
                              /\ report'[t].about = report[t].about
  <1>1. \A t \in Report :
           report'[t] = IF report[t].status = "open" /\ report[t].about = s
                        THEN [report[t] EXCEPT !.status = "actioned"]
                        ELSE report[t]
    BY DEF CloseReportsForSubmission
  <1>2. \A t \in Report : report[t] \in ReportRow
    BY DEF ReportsTyped
  <1>3. ReportsTyped'
    <2>1. \A t \in Report : report'[t] \in ReportRow
      BY <1>1, <1>2 DEF ReportRow, ReportStatuses
    <2> QED
      BY <2>1 DEF ReportsTyped, CloseReportsForSubmission
  <1> QED
    BY <1>1, <1>2, <1>3 DEF ReportsPersist, ReportRow, ReportExists, Open

LEMMA SetReportMessageKeeps ==
  ASSUME ReportsTyped, NEW r \in Report, NEW m \in Nat,
         SetReportDiscordMessage(r, m)
  PROVE  /\ ReportsTyped'
         /\ ReportsPersist
         /\ report'[r].message = m
         /\ \A t \in Report : /\ ReportExists(t) <=> ReportExists(t)'
                              /\ report'[t].about = report[t].about
         /\ \A t \in Report \ {r} : report'[t] = report[t]
  BY DEF ReportsTyped, ReportsPersist, SetReportDiscordMessage, ReportRow,
         ReportExists, Open

LEMMA AgeingKeeps ==
  ASSUME SubmissionsTyped, ReportsTyped, RowsAge
  PROVE  /\ SubmissionsTyped' /\ ReportsTyped'
         /\ SubmissionsPersist /\ ReportsPersist
         /\ \A t \in Submission : /\ submission'[t].message = submission[t].message
                                  /\ submission'[t].status = submission[t].status
         /\ \A t \in Report : /\ report'[t].message = report[t].message
                              /\ report'[t].status = report[t].status
                              /\ report'[t].about = report[t].about
  <1>1. ASSUME NEW s \in Submission, SubmissionAges(s)
        PROVE  /\ SubmissionsTyped' /\ SubmissionsPersist /\ UNCHANGED report
               /\ \A t \in Submission : /\ submission'[t].message = submission[t].message
                                        /\ submission'[t].status = submission[t].status
    BY <1>1 DEF SubmissionsTyped, SubmissionAges, SubmissionRow, SubmissionsPersist,
                Exists, Pending
  <1>2. ASSUME NEW r \in Report, ReportAges(r)
        PROVE  /\ ReportsTyped' /\ ReportsPersist /\ UNCHANGED submission
               /\ \A t \in Report : /\ report'[t].message = report[t].message
                                    /\ report'[t].status = report[t].status
                                    /\ report'[t].about = report[t].about
    BY <1>2 DEF ReportsTyped, ReportAges, ReportRow, ReportsPersist,
                ReportExists, Open
  <1> QED
    BY <1>1, <1>2 DEF RowsAge, SubmissionsTyped, ReportsTyped, SubmissionsPersist,
                      ReportsPersist, Exists, Pending, ReportExists, Open

-----------------------------------------------------------------------------
(* Every step keeps the types of the tables and the channel, loses no row  *)
(* and no message.                                                         *)

ChannelGrows ==
    /\ channel' \in Seq(Message)
    /\ \A m \in DOMAIN channel : /\ m \in DOMAIN channel'
                                 /\ channel'[m].about = channel[m].about
                                 /\ channel'[m].report = channel[m].report

Keeps == /\ SubmissionsTyped' /\ SubmissionsPersist
         /\ ReportsTyped' /\ ReportsPersist
         /\ ChannelGrows

LEMMA Typed ==
  ASSUME IInv
  PROVE  /\ SubmissionsTyped /\ ReportsTyped
         /\ channel \in Seq(Message)
         /\ \A m \in DOMAIN channel : /\ channel[m] \in Message
                                      /\ channel[m].about \in Submission
                                      /\ Exists(channel[m].about)
  <1>1. /\ SubmissionsTyped /\ ReportsTyped
        /\ channel \in Seq(Message)
    BY DEF IInv, TypeOK, StoreTypeOK, SubmissionsTyped, ReportsTyped
  <1>2. \A m \in DOMAIN channel : channel[m] \in Message
    BY <1>1, ElementOfSeq
  <1> QED
    BY <1>1, <1>2 DEF IInv, ChannelOK, Message

\* What an untouched table or channel keeps, and the two ways the channel moves.
LEMMA Frames ==
  ASSUME IInv
  PROVE  /\ UNCHANGED submission => SubmissionsTyped' /\ SubmissionsPersist
         /\ UNCHANGED report => ReportsTyped' /\ ReportsPersist
         /\ UNCHANGED channel => ChannelGrows
         /\ \A c \in Message : Post(c) => ChannelGrows
         /\ \A n \in DOMAIN channel, f \in Faces : Answer(n, f) => ChannelGrows
  <1>1. UNCHANGED submission => SubmissionsTyped' /\ SubmissionsPersist
    BY Typed DEF SubmissionsTyped, SubmissionsPersist, Exists, Pending
  <1>2. UNCHANGED report => ReportsTyped' /\ ReportsPersist
    BY Typed DEF ReportsTyped, ReportsPersist, ReportExists, Open
  <1>3. UNCHANGED channel => ChannelGrows
    BY Typed DEF ChannelGrows
  <1>4. \A c \in Message : Post(c) => ChannelGrows
    BY Typed, PostGrows DEF ChannelGrows
  <1>5. \A n \in DOMAIN channel, f \in Faces : Answer(n, f) => ChannelGrows
    BY Typed, AnswerKeeps DEF ChannelGrows
  <1> QED
    BY <1>1, <1>2, <1>3, <1>4, <1>5

LEMMA WorkerKeeps ==
  ASSUME IInv, NEW w \in Worker, WorkerNext(w)
  PROVE  Keeps
  <1> USE Frames, Typed DEF Keeps
  <1>0. worker[w] \in WorkerState
    BY DEF IInv, TypeOK
  <1>1. ASSUME UNCHANGED <<submission, report, channel>>
        PROVE  Keeps
    BY <1>1
  <1>2. CASE SubmitCreate(w)
    <2>1. PICK s \in Submission : ~Exists(s) /\ CreateSubmission(s, worker[w].install)
      BY <1>2 DEF SubmitCreate
    <2>2. worker[w].install \in Install
      BY <1>2 DEF IInv, WorkersOK, WorkerOK, SubmitCreate, SubmitPhases
    <2> QED
      BY <1>2, <2>1, <2>2, CreateSubmissionKeeps DEF SubmitCreate
  <1>3. CASE SubmitAnnounce(w)
    <2>1. ReviewMessage(worker[w].sub) \in Message
      BY <1>3, MessageTypes DEF IInv, WorkersOK, WorkerOK, SubmitAnnounce
    <2> QED
      BY <1>3, <2>1 DEF SubmitAnnounce, PostUnacknowledged, PostFails
  <1>4. CASE SubmitRecord(w)
    <2>1. worker[w].sub \in Submission /\ worker[w].msg \in Nat
      BY <1>0, <1>4 DEF IInv, WorkersOK, WorkerOK, SubmitRecord, WorkerState
    <2> QED
      BY <1>4, <2>1, SetMessageKeeps DEF SubmitRecord
  <1>5. CASE ReportCreate(w)
    <2>1. PICK r \in Report : /\ ~ReportExists(r)
                              /\ CreateReport(r, worker[w].sub, worker[w].install)
      BY <1>5 DEF ReportCreate
    <2>2. worker[w].sub \in Submission
      BY <1>5 DEF IInv, WorkersOK, WorkerOK, ReportCreate, ReportPhases
    <2>3. worker[w].install \in Install \cup {NoInstall}
      BY <1>0 DEF WorkerState
    <2> QED
      BY <1>5, <2>1, <2>2, <2>3, CreateReportKeeps DEF ReportCreate
  <1>6. CASE ReportAnnounce(w)
    <2>1. ReportMessage(worker[w].rep, worker[w].sub) \in Message
      BY <1>6, MessageTypes DEF IInv, WorkersOK, WorkerOK, ReportAnnounce, ReportPhases
    <2> QED
      BY <1>6, <2>1 DEF ReportAnnounce, PostUnacknowledged, PostFails
  <1>7. CASE ReportRecord(w)
    <2>1. worker[w].rep \in Report /\ worker[w].msg \in Nat
      BY <1>0, <1>7 DEF IInv, WorkersOK, WorkerOK, ReportRecord, WorkerState
    <2> QED
      BY <1>7, <2>1, SetReportMessageKeeps DEF ReportRecord
  <1> QED
    BY <1>1, <1>2, <1>3, <1>4, <1>5, <1>6, <1>7
    DEF WorkerNext, SubmitBegin, SubmitCheckDaily, SubmitAbort, ReportBegin, ReportCheckDaily

LEMMA ReviewKeeps ==
  ASSUME IInv, ReviewNext
  PROVE  Keeps
  <1> USE Frames, Typed DEF Keeps
  <1>0. \A x \in inflight : /\ x.msg \in DOMAIN channel
                            /\ x \in Interaction
    BY DEF IInv, TypeOK
  <1>1. ASSUME UNCHANGED <<submission, report, channel>>
        PROVE  Keeps
    BY <1>1
  <1>2. ASSUME NEW x \in inflight, Authorised(x)
        PROVE  x.actor \in Decider
    BY <1>2, DecidersAreKnown, ReviewersAreUsers DEF Authorised
  <1>3. ASSUME NEW x \in inflight, HandleApprove(x)
        PROVE  Keeps
    <2>1. SetStatus(channel[x.msg].about, "approved", x.actor) /\ x.actor \in Decider
      BY <1>2, <1>3 DEF HandleApprove
    <2>2. SubmissionsTyped' /\ SubmissionsPersist
      BY <1>0, <2>1, SetStatusKeeps DEF Statuses
    <2> QED
      BY <1>0, <1>3, <2>2 DEF HandleApprove, Faces
  <1>4. ASSUME NEW x \in inflight, HandleRejectModal(x)
        PROVE  Keeps
    <2>1. SetStatus(channel[x.msg].about, "rejected", x.actor) /\ x.actor \in Decider
      BY <1>2, <1>4 DEF HandleRejectModal
    <2>2. SubmissionsTyped' /\ SubmissionsPersist
      BY <1>0, <2>1, SetStatusKeeps DEF Statuses
    <2> QED
      BY <1>0, <1>4, <2>2 DEF HandleRejectModal, Faces
  <1>5. ASSUME NEW x \in inflight, HandleRevoke(x)
        PROVE  Keeps
    <2>1. SetStatus(channel[x.msg].about, "revoked", x.actor) /\ x.actor \in Decider
      BY <1>2, <1>5 DEF HandleRevoke
    <2>2. SubmissionsTyped' /\ SubmissionsPersist
      BY <1>0, <2>1, SetStatusKeeps DEF Statuses
    <2> QED
      BY <1>5, <2>2 DEF HandleRevoke
  <1>6. ASSUME NEW x \in inflight, HandleDismiss(x)
        PROVE  Keeps
    <2>1. channel[x.msg].report \in Report /\ ReportExists(channel[x.msg].report)
      BY <1>0, <1>6, NullsAreDistinct DEF IInv, InteractionsOK, ChannelOK, HandleDismiss
    <2>2. ReportsTyped' /\ ReportsPersist
      BY <1>6, <2>1, DismissKeeps DEF HandleDismiss
    <2> QED
      BY <1>0, <1>6, <2>2 DEF HandleDismiss, Faces
  <1>7. CASE RevokeCloseReports
    <2>1. handler.msg \in DOMAIN channel
      BY <1>7 DEF IInv, InteractionsOK, RevokeCloseReports
    <2>2. ReportsTyped' /\ ReportsPersist
      BY <1>7, <2>1, CloseReportsKeeps DEF RevokeCloseReports
    <2> QED
      BY <1>7, <2>1, <2>2 DEF RevokeCloseReports, Faces
  <1> QED
    BY <1>1, <1>3, <1>4, <1>5, <1>6, <1>7
    DEF ReviewNext, Press, Abandon, HandleReject

LEMMA RepairKeeps ==
  ASSUME IInv, NEW j \in Job, RepairNext(j)
  PROVE  Keeps
  <1> USE Frames, Typed DEF Keeps
  <1>0. repair[j] \in JobState
    BY DEF IInv, TypeOK
  <1>1. ASSUME UNCHANGED <<submission, report, channel>>
        PROVE  Keeps
    BY <1>1
  <1>2. CASE RepairRecord(j)
    <2>1. repair[j].sub \in Submission /\ repair[j].msg \in Nat
      BY <1>0, <1>2 DEF IInv, JobsOK, JobOK, RepairRecord, JobState
    <2> QED
      BY <1>2, <2>1, SetMessageKeeps DEF RepairRecord
  <1>3. CASE RepairRecordReport(j)
    <2>1. repair[j].rep \in Report /\ repair[j].msg \in Nat
      BY <1>0, <1>3 DEF IInv, JobsOK, JobOK, RepairRecordReport, JobState
    <2> QED
      BY <1>3, <2>1, SetReportMessageKeeps DEF RepairRecordReport
  <1>4. ASSUME NEW s \in Submission, RepairAnnounce(j, s) \/ RepairAnnounceFails(j, s)
        PROVE  Keeps
    <2>1. ReviewMessage(s) \in Message
      BY MessageTypes
    <2> QED
      BY <1>4, <2>1 DEF RepairAnnounce, RepairAnnounceFails, PostUnacknowledged, PostFails
  <1>5. ASSUME NEW r \in Report,
               RepairAnnounceReport(j, r) \/ RepairAnnounceReportFails(j, r)
        PROVE  Keeps
    <2>1. report[r].about \in Submission
      BY <1>5 DEF IInv, JobsOK, JobOK, ReportRowsOK, RepairAnnounceReport, RepairAnnounceReportFails
    <2>2. ReportMessage(r, report[r].about) \in Message
      BY <2>1, MessageTypes
    <2> QED
      BY <1>5, <2>2
      DEF RepairAnnounceReport, RepairAnnounceReportFails, PostUnacknowledged, PostFails
  <1> QED
    BY <1>1, <1>2, <1>3, <1>4, <1>5
    DEF RepairNext, RepairRead, RepairReadReports, RepairDone, JobKilled

LEMMA StepKeeps ==
  ASSUME IInv, [Next]_vars
  PROVE  Keeps
  <1>1. ASSUME UNCHANGED <<submission, report, channel>>
        PROVE  Keeps
    BY <1>1, Frames DEF Keeps
  <1>2. ASSUME NEW s \in Submission, NEW status \in Statuses \ {"pending"},
               Moderate(s, status)
        PROVE  Keeps
    <2>1. SubmissionsTyped' /\ SubmissionsPersist
      BY <1>2, Typed, SetStatusKeeps, DecidersAreKnown DEF Moderate
    <2> QED
      BY <1>2, <2>1, Frames DEF Moderate, Keeps
  <1>3. CASE RowsAge
    BY <1>3, Typed, Frames, AgeingKeeps DEF RowsAge, Keeps
  <1>4. CASE Restart
    BY <1>1, <1>4 DEF Restart
  <1>5. CASE UNCHANGED vars
    BY <1>1, <1>5 DEF vars
  <1> QED
    BY <1>2, <1>3, <1>4, <1>5, WorkerKeeps, ReviewKeeps, RepairKeeps DEF Next

-----------------------------------------------------------------------------
(* Which actions change which variable.                                    *)

LEMMA SubmissionChanges ==
  ASSUME [Next]_vars
  PROVE  \/ UNCHANGED submission
         \/ \E w \in Worker : SubmitCreate(w) \/ SubmitRecord(w)
         \/ \E x \in inflight : HandleApprove(x) \/ HandleRejectModal(x) \/ HandleRevoke(x)
         \/ \E s \in Submission, status \in Statuses \ {"pending"} : Moderate(s, status)
         \/ \E j \in Job : RepairRecord(j)
         \/ RowsAge
  BY DEF Next, vars, WorkerNext, ReviewNext, RepairNext, Restart,
         SubmitBegin, SubmitCheckDaily, SubmitAbort, SubmitAnnounce,
         ReportBegin, ReportCheckDaily, ReportCreate, ReportAnnounce, ReportRecord,
         Press, Abandon, HandleReject, HandleDismiss, RevokeCloseReports,
         RepairRead, RepairReadReports, RepairRecordReport, RepairDone, JobKilled,
         RepairAnnounce, RepairAnnounceFails, RepairAnnounceReport,
         RepairAnnounceReportFails

LEMMA ReportChanges ==
  ASSUME [Next]_vars
  PROVE  \/ UNCHANGED report
         \/ \E w \in Worker : ReportCreate(w) \/ ReportRecord(w)
         \/ \E x \in inflight : HandleDismiss(x)
         \/ RevokeCloseReports
         \/ \E j \in Job : RepairRecordReport(j)
         \/ RowsAge
  BY DEF Next, vars, WorkerNext, ReviewNext, RepairNext, Restart, Moderate,
         SubmitBegin, SubmitCheckDaily, SubmitAbort, SubmitCreate, SubmitAnnounce,
         SubmitRecord, ReportBegin, ReportCheckDaily, ReportAnnounce,
         Press, Abandon, HandleApprove, HandleReject, HandleRejectModal, HandleRevoke,
         RepairRead, RepairReadReports, RepairRecord, RepairDone, JobKilled,
         RepairAnnounce, RepairAnnounceFails, RepairAnnounceReport,
         RepairAnnounceReportFails

LEMMA WorkerChanges ==
  ASSUME [Next]_vars
  PROVE  \/ UNCHANGED worker
         \/ \E w \in Worker : WorkerNext(w)
         \/ Restart
  BY DEF Next, vars, ReviewNext, RepairNext, RowsAge, Moderate,
         Press, Abandon, HandleApprove, HandleReject, HandleRejectModal, HandleRevoke,
         HandleDismiss, RevokeCloseReports,
         RepairRead, RepairReadReports, RepairRecord, RepairRecordReport, RepairDone,
         JobKilled, RepairAnnounce, RepairAnnounceFails, RepairAnnounceReport,
         RepairAnnounceReportFails

LEMMA RepairChanges ==
  ASSUME [Next]_vars
  PROVE  \/ UNCHANGED repair
         \/ \E j \in Job : RepairNext(j)
         \/ Restart
  BY DEF Next, vars, WorkerNext, ReviewNext, RowsAge, Moderate,
         SubmitBegin, SubmitCheckDaily, SubmitAbort, SubmitCreate, SubmitAnnounce,
         SubmitRecord, ReportBegin, ReportCheckDaily, ReportCreate, ReportAnnounce,
         ReportRecord,
         Press, Abandon, HandleApprove, HandleReject, HandleRejectModal, HandleRevoke,
         HandleDismiss, RevokeCloseReports

LEMMA InflightChanges ==
  ASSUME [Next]_vars
  PROVE  \/ UNCHANGED <<inflight, handler>>
         \/ ReviewNext
         \/ Restart
  BY DEF Next, vars, WorkerNext, RepairNext, RowsAge, Moderate,
         SubmitBegin, SubmitCheckDaily, SubmitAbort, SubmitCreate, SubmitAnnounce,
         SubmitRecord, ReportBegin, ReportCheckDaily, ReportCreate, ReportAnnounce,
         ReportRecord,
         RepairRead, RepairReadReports, RepairRecord, RepairRecordReport, RepairDone,
         JobKilled, RepairAnnounce, RepairAnnounceFails, RepairAnnounceReport,
         RepairAnnounceReportFails

\* A message that is new is about a row that exists; a message that loses its
\* buttons is about a row that no longer waits.
NewMessage(c) ==
    \/ \E s \in Submission : Exists(s) /\ c = ReviewMessage(s)
    \/ \E r \in Report : ReportExists(r) /\ c = ReportMessage(r, report[r].about)

ChannelUnchanged ==
    /\ \A m \in DOMAIN channel' : m \in DOMAIN channel
    /\ \A m \in DOMAIN channel : channel'[m] = channel[m]

MessageAdded ==
    /\ UNCHANGED <<submission, report>>
    /\ \A m \in DOMAIN channel : channel'[m] = channel[m]
    /\ \A m \in DOMAIN channel' : m \in DOMAIN channel \/ NewMessage(channel'[m])

Rewritten(m) ==
    \/ channel'[m].face = channel[m].face
    \/ /\ channel[m].report = NoReport
       /\ channel'[m].face \in {"approved", "closed"}
       /\ submission'[channel[m].about].status # "pending"
    \/ /\ channel[m].report # NoReport
       /\ channel'[m].face = "closed"
       /\ report'[channel[m].report].status # "open"

MessageAnswered ==
    /\ DOMAIN channel' = DOMAIN channel
    /\ \A m \in DOMAIN channel : Rewritten(m)

LEMMA PostAdds ==
  ASSUME IInv, UNCHANGED <<submission, report>>, NEW c \in Message, NewMessage(c), Post(c)
  PROVE  MessageAdded
  BY Typed, PostGrows DEF MessageAdded

LEMMA WorkerPosts ==
  ASSUME IInv, NEW w \in Worker, SubmitAnnounce(w) \/ ReportAnnounce(w)
  PROVE  MessageAdded \/ ChannelUnchanged
  <1>1. CASE SubmitAnnounce(w)
    <2>1. worker[w].sub \in Submission /\ Exists(worker[w].sub)
      BY <1>1 DEF IInv, WorkersOK, WorkerOK, SubmitAnnounce
    <2>2. /\ ReviewMessage(worker[w].sub) \in Message
          /\ NewMessage(ReviewMessage(worker[w].sub))
      BY <2>1, MessageTypes DEF NewMessage
    <2> QED
      BY <1>1, <2>2, PostAdds
      DEF SubmitAnnounce, PostUnacknowledged, PostFails, ChannelUnchanged
  <1>2. CASE ReportAnnounce(w)
    <2>1. /\ worker[w].sub \in Submission
          /\ worker[w].rep \in Report
          /\ ReportExists(worker[w].rep)
          /\ report[worker[w].rep].about = worker[w].sub
      BY <1>2 DEF IInv, WorkersOK, WorkerOK, ReportAnnounce, ReportPhases
    <2>2. /\ ReportMessage(worker[w].rep, worker[w].sub) \in Message
          /\ NewMessage(ReportMessage(worker[w].rep, worker[w].sub))
      BY <2>1, MessageTypes DEF NewMessage
    <2> QED
      BY <1>2, <2>2, PostAdds
      DEF ReportAnnounce, PostUnacknowledged, PostFails, ChannelUnchanged
  <1> QED
    BY <1>1, <1>2

LEMMA RepairPosts ==
  ASSUME IInv, NEW j \in Job, RepairNext(j)
  PROVE  MessageAdded \/ ChannelUnchanged
  <1>1. ASSUME NEW s \in Submission, RepairAnnounce(j, s) \/ RepairAnnounceFails(j, s)
        PROVE  MessageAdded \/ ChannelUnchanged
    <2>1. Exists(s)
      BY <1>1 DEF IInv, JobsOK, JobOK, RepairAnnounce, RepairAnnounceFails
    <2>2. ReviewMessage(s) \in Message /\ NewMessage(ReviewMessage(s))
      BY <2>1, MessageTypes DEF NewMessage
    <2> QED
      BY <1>1, <2>2, PostAdds
      DEF RepairAnnounce, RepairAnnounceFails, PostUnacknowledged, PostFails, ChannelUnchanged
  <1>2. ASSUME NEW r \in Report,
               RepairAnnounceReport(j, r) \/ RepairAnnounceReportFails(j, r)
        PROVE  MessageAdded \/ ChannelUnchanged
    <2>1. ReportExists(r) /\ report[r].about \in Submission
      BY <1>2
      DEF IInv, JobsOK, JobOK, ReportRowsOK, RepairAnnounceReport, RepairAnnounceReportFails
    <2>2. /\ ReportMessage(r, report[r].about) \in Message
          /\ NewMessage(ReportMessage(r, report[r].about))
      BY <2>1, MessageTypes DEF NewMessage
    <2> QED
      BY <1>2, <2>2, PostAdds
      DEF RepairAnnounceReport, RepairAnnounceReportFails, PostUnacknowledged, PostFails,
          ChannelUnchanged
  <1> QED
    BY <1>1, <1>2
    DEF RepairNext, RepairRead, RepairReadReports, RepairRecord, RepairRecordReport,
        RepairDone, JobKilled, ChannelUnchanged

LEMMA ReviewAnswers ==
  ASSUME IInv, ReviewNext
  PROVE  MessageAnswered
  <1>0. /\ channel \in Seq(Message)
        /\ \A x \in inflight : x.msg \in DOMAIN channel
    BY Typed DEF IInv, TypeOK
  <1>1. ASSUME UNCHANGED channel
        PROVE  MessageAnswered
    BY <1>1 DEF MessageAnswered, Rewritten
  <1>2. ASSUME NEW n \in DOMAIN channel, NEW f \in {"approved", "closed"}, Answer(n, f),
               channel'[n].face = f => Rewritten(n)
        PROVE  MessageAnswered
    <2>1. f \in Faces
      BY <1>2 DEF Faces
    <2>2. /\ DOMAIN channel' = DOMAIN channel
          /\ \A m \in DOMAIN channel : /\ m # n => channel'[m].face = channel[m].face
                                       /\ channel'[m].face \in {f, channel[m].face}
      BY <1>0, <1>2, <2>1, AnswerKeeps
    <2> QED
      BY <1>2, <2>2 DEF MessageAnswered, Rewritten
  <1>3. ASSUME NEW x \in inflight, HandleApprove(x)
        PROVE  MessageAnswered
    <2>1. channel[x.msg].report = NoReport
      BY <1>3 DEF IInv, InteractionsOK, HandleApprove
    <2>2. submission'[channel[x.msg].about].status # "pending"
      BY <1>0, <1>3, Typed DEF HandleApprove, SetStatus, Pending, SubmissionsTyped, SubmissionRow
    <2> QED
      BY <1>0, <1>2, <1>3, <2>1, <2>2 DEF HandleApprove, Rewritten
  <1>4. ASSUME NEW x \in inflight, HandleRejectModal(x)
        PROVE  MessageAnswered
    <2>1. channel[x.msg].report = NoReport
      BY <1>4 DEF IInv, InteractionsOK, HandleRejectModal
    <2>2. submission'[channel[x.msg].about].status # "pending"
      BY <1>0, <1>4, Typed DEF HandleRejectModal, SetStatus, Pending, SubmissionsTyped, SubmissionRow
    <2> QED
      BY <1>0, <1>2, <1>4, <2>1, <2>2 DEF HandleRejectModal, Rewritten
  <1>5. ASSUME NEW x \in inflight, HandleDismiss(x)
        PROVE  MessageAnswered
    <2>1. channel[x.msg].report \in Report
      BY <1>5 DEF IInv, InteractionsOK, HandleDismiss
    <2>2. report'[channel[x.msg].report].status # "open"
      BY <1>5, <2>1, Typed DEF HandleDismiss, SetReportStatus, Open, ReportsTyped, ReportRow
    <2> QED
      BY <1>0, <1>2, <1>5, <2>1, <2>2, NullsAreDistinct DEF HandleDismiss, Rewritten
  <1>6. CASE RevokeCloseReports
    <2>1. handler.msg \in DOMAIN channel /\ ~Pending(channel[handler.msg].about)
      BY <1>6 DEF IInv, InteractionsOK, RevokeCloseReports
    <2>2. submission'[channel[handler.msg].about].status # "pending"
      BY <1>6, <2>1, Typed DEF RevokeCloseReports, Pending
    <2>3. ASSUME channel[handler.msg].report # NoReport
          PROVE  report'[channel[handler.msg].report].status # "open"
      <3>1. /\ channel[handler.msg].report \in Report
            /\ report[channel[handler.msg].report].about = channel[handler.msg].about
        BY <2>1, <2>3, Typed DEF IInv, ChannelOK, Message
      <3> QED
        BY <1>6, <2>1, <3>1, Typed, CloseReportsKeeps DEF RevokeCloseReports, Open
    <2> QED
      BY <1>2, <1>6, <2>1, <2>2, <2>3 DEF RevokeCloseReports, Rewritten
  <1> QED
    BY <1>1, <1>3, <1>4, <1>5, <1>6
    DEF ReviewNext, Press, Abandon, HandleReject, HandleRevoke

LEMMA ChannelChanges ==
  ASSUME IInv, [Next]_vars
  PROVE  MessageAdded \/ MessageAnswered
  <1>1. UNCHANGED channel => MessageAnswered
    BY DEF MessageAnswered, Rewritten
  <1>2. ChannelUnchanged /\ ChannelGrows => MessageAnswered
    BY Typed DEF ChannelUnchanged, ChannelGrows, MessageAnswered, Rewritten
  <1> QED
    BY <1>1, <1>2, StepKeeps, WorkerPosts, RepairPosts, ReviewAnswers
    DEF Keeps, Next, vars, WorkerNext, RowsAge, Moderate, Restart, SubmitBegin,
        SubmitCheckDaily, SubmitAbort, SubmitCreate, SubmitRecord, ReportBegin,
        ReportCheckDaily, ReportCreate, ReportRecord

-----------------------------------------------------------------------------
(* The inductive invariant, part by part.                                  *)

LEMMA MessagesStay ==
  ASSUME IInv, Keeps
  PROVE  /\ \A m, s : IsReviewMessage(m, s) => IsReviewMessage(m, s)'
         /\ \A m, r : IsReportMessage(m, r) => IsReportMessage(m, r)'
  BY DEF Keeps, ChannelGrows, IsReviewMessage, IsReportMessage

LEMMA ChannelOKStep ==
  ASSUME IInv, [Next]_vars
  PROVE  ChannelOK'
  <1> SUFFICES ASSUME NEW m \in DOMAIN channel'
               PROVE  /\ submission'[channel'[m].about].status # "absent"
                      /\ channel'[m].report = NoReport =>
                           /\ channel'[m].face # "report"
                           /\ submission'[channel'[m].about].status = "pending" =>
                                 channel'[m].face = "review"
                      /\ channel'[m].report # NoReport =>
                           /\ channel'[m].face \in {"report", "closed"}
                           /\ report'[channel'[m].report].status # "absent"
                           /\ report'[channel'[m].report].about = channel'[m].about
                           /\ report'[channel'[m].report].status = "open" =>
                                 channel'[m].face = "report"
    BY DEF ChannelOK, Pending, Open, Exists, ReportExists
  <1>1. Keeps
    BY StepKeeps
  <1>2. ASSUME m \in DOMAIN channel, Rewritten(m)
        PROVE  /\ channel'[m].about = channel[m].about
               /\ channel'[m].report = channel[m].report
               /\ channel[m].about \in Submission
               /\ Exists(channel[m].about)
               /\ Exists(channel[m].about)'
               /\ channel[m].report # NoReport =>
                     /\ channel[m].report \in Report
                     /\ report'[channel[m].report].about = channel[m].about
    BY <1>1, <1>2, Typed
    DEF Keeps, ChannelGrows, SubmissionsPersist, ReportsPersist, IInv, ChannelOK, Message,
        Exists
  <1>3. ASSUME m \in DOMAIN channel, Rewritten(m), channel[m].report = NoReport
        PROVE  /\ channel'[m].face # "report"
               /\ submission'[channel[m].about].status = "pending" =>
                     channel'[m].face = "review"
    BY <1>1, <1>2, <1>3
    DEF Rewritten, Keeps, SubmissionsPersist, IInv, ChannelOK, Pending
  <1>4. ASSUME m \in DOMAIN channel, Rewritten(m), channel[m].report # NoReport
        PROVE  /\ channel'[m].face \in {"report", "closed"}
               /\ report'[channel[m].report].status # "absent"
               /\ report'[channel[m].report].status = "open" =>
                     channel'[m].face = "report"
    BY <1>1, <1>2, <1>4
    DEF Rewritten, Keeps, ReportsPersist, IInv, ChannelOK, Open, ReportExists
  <1>5. CASE m \in DOMAIN channel /\ Rewritten(m)
    BY <1>2, <1>3, <1>4, <1>5 DEF Exists, ReportExists
  <1>6. CASE NewMessage(channel'[m]) /\ UNCHANGED <<submission, report>>
    <2>1. ASSUME NEW s \in Submission, Exists(s), channel'[m] = ReviewMessage(s)
          PROVE  /\ submission'[channel'[m].about].status # "absent"
                 /\ channel'[m].report = NoReport
                 /\ channel'[m].face = "review"
      BY <1>6, <2>1 DEF ReviewMessage, Exists
    <2>2. ASSUME NEW r \in Report, ReportExists(r),
                 channel'[m] = ReportMessage(r, report[r].about)
          PROVE  /\ submission'[channel'[m].about].status # "absent"
                 /\ channel'[m].report = r
                 /\ channel'[m].about = report[r].about
                 /\ channel'[m].face = "report"
      BY <1>6, <2>2 DEF ReportMessage, Exists, IInv, ReportRowsOK
    <2> QED
      BY <1>6, <2>1, <2>2, NullsAreDistinct DEF NewMessage, ReportExists
  <1>7. CASE m \in DOMAIN channel /\ channel'[m] = channel[m] /\ UNCHANGED <<submission, report>>
    BY <1>5, <1>7 DEF Rewritten
  <1> QED
    BY <1>5, <1>6, <1>7, ChannelChanges DEF MessageAdded, MessageAnswered

LEMMA SubmissionRowsOKStep ==
  ASSUME IInv, [Next]_vars
  PROVE  SubmissionRowsOK'
  <1>1. Keeps
    BY StepKeeps
  <1>2. ASSUME \A s \in Submission :
                  \/ submission'[s].message = submission[s].message
                  \/ submission'[s].message = 0
                  \/ /\ Exists(s)
                     /\ IsReviewMessage(submission'[s].message, s)
        PROVE  SubmissionRowsOK'
    <2> SUFFICES ASSUME NEW s \in Submission, submission'[s].message # 0
                 PROVE  Exists(s)' /\ IsReviewMessage(submission[s].message, s)'
      BY DEF SubmissionRowsOK
    <2>1. Exists(s) /\ IsReviewMessage(submission'[s].message, s)
      BY <1>2 DEF IInv, SubmissionRowsOK
    <2> QED
      BY <1>1, <2>1 DEF Keeps, ChannelGrows, SubmissionsPersist, IsReviewMessage
  <1>3. CASE UNCHANGED submission
    BY <1>2, <1>3
  <1>4. ASSUME NEW w \in Worker, SubmitCreate(w)
        PROVE  SubmissionRowsOK'
    <2>1. PICK s \in Submission : ~Exists(s) /\ CreateSubmission(s, worker[w].install)
      BY <1>4 DEF SubmitCreate
    <2>2. worker[w].install \in Install
      BY <1>4 DEF IInv, WorkersOK, WorkerOK, SubmitCreate, SubmitPhases
    <2> QED
      BY <1>2, <2>1, <2>2, Typed, CreateSubmissionKeeps
  <1>5. ASSUME NEW s \in Submission, NEW m \in Nat, SetDiscordMessage(s, m),
               Exists(s), IsReviewMessage(m, s)
        PROVE  SubmissionRowsOK'
    BY <1>2, <1>5, Typed, SetMessageKeeps
  <1>6. ASSUME NEW w \in Worker, SubmitRecord(w)
        PROVE  SubmissionRowsOK'
    <2>1. /\ worker[w].sub \in Submission /\ Exists(worker[w].sub)
          /\ worker[w].msg \in Nat
          /\ IsReviewMessage(worker[w].msg, worker[w].sub)
      BY <1>6 DEF IInv, TypeOK, WorkersOK, WorkerOK, SubmitRecord, WorkerState
    <2> QED
      BY <1>5, <1>6, <2>1 DEF SubmitRecord
  <1>7. ASSUME NEW j \in Job, RepairRecord(j)
        PROVE  SubmissionRowsOK'
    <2>1. /\ repair[j].sub \in Submission /\ Exists(repair[j].sub)
          /\ repair[j].msg \in Nat
          /\ IsReviewMessage(repair[j].msg, repair[j].sub)
      BY <1>7 DEF IInv, TypeOK, JobsOK, JobOK, RepairRecord, JobState
    <2> QED
      BY <1>5, <1>7, <2>1 DEF RepairRecord
  <1>8. ASSUME NEW s \in Submission, NEW status, NEW by, SetStatus(s, status, by)
        PROVE  SubmissionRowsOK'
    <2>1. \A t \in Submission : submission'[t].message = submission[t].message
      BY <1>8, Typed DEF SetStatus, SubmissionsTyped, SubmissionRow
    <2> QED
      BY <1>2, <2>1
  <1>9. ASSUME NEW x \in inflight,
               HandleApprove(x) \/ HandleRejectModal(x) \/ HandleRevoke(x)
        PROVE  SubmissionRowsOK'
    <2>1. channel[x.msg].about \in Submission
      BY Typed DEF IInv, TypeOK
    <2> QED
      BY <1>8, <1>9, <2>1 DEF HandleApprove, HandleRejectModal, HandleRevoke
  <1>10. ASSUME NEW s \in Submission, NEW status \in Statuses \ {"pending"},
                Moderate(s, status)
         PROVE  SubmissionRowsOK'
    BY <1>8, <1>10 DEF Moderate
  <1>11. CASE RowsAge
    BY <1>2, <1>11, Typed, AgeingKeeps
  <1> QED
    BY <1>3, <1>4, <1>6, <1>7, <1>9, <1>10, <1>11, SubmissionChanges

LEMMA ReportRowsOKStep ==
  ASSUME IInv, [Next]_vars
  PROVE  ReportRowsOK'
  <1>1. Keeps
    BY StepKeeps
  <1>2. ASSUME \A r \in Report : ReportExists(r)' => ReportExists(r),
               \A r \in Report : \/ report'[r].message = report[r].message
                                 \/ /\ ReportExists(r)
                                    /\ IsReportMessage(report'[r].message, r)
        PROVE  ReportRowsOK'
    <2> SUFFICES ASSUME NEW r \in Report
                 PROVE  /\ ReportExists(r)' => /\ report'[r].about \in Submission
                                              /\ submission'[report'[r].about].status # "absent"
                        /\ report'[r].message # 0 =>
                              ReportExists(r)' /\ IsReportMessage(report[r].message, r)'
      BY DEF ReportRowsOK, Exists
    <2>1. ReportExists(r)' => report'[r].about \in Submission /\ submission'[report'[r].about].status # "absent"
      BY <1>1, <1>2
      DEF Keeps, SubmissionsPersist, ReportsPersist, IInv, ReportRowsOK, Exists
    <2>2. report'[r].message # 0 =>
             ReportExists(r) /\ IsReportMessage(report'[r].message, r)
      BY <1>2 DEF IInv, ReportRowsOK
    <2>3. report'[r].message # 0 =>
             ReportExists(r)' /\ IsReportMessage(report[r].message, r)'
      BY <1>1, <2>2 DEF Keeps, ChannelGrows, ReportsPersist, IsReportMessage
    <2> QED
      BY <2>1, <2>3
  <1>3. CASE UNCHANGED report
    BY <1>2, <1>3 DEF ReportExists
  <1>4. ASSUME NEW w \in Worker, ReportCreate(w)
        PROVE  ReportRowsOK'
    <2>1. PICK r \in Report : /\ ~ReportExists(r)
                              /\ CreateReport(r, worker[w].sub, worker[w].install)
      BY <1>4 DEF ReportCreate
    <2>2. /\ worker[w].sub \in Submission /\ Exists(worker[w].sub)
          /\ worker[w].install \in Install \cup {NoInstall}
      BY <1>4 DEF IInv, TypeOK, WorkersOK, WorkerOK, ReportCreate, ReportPhases, WorkerState
    <2>3. /\ report'[r].about = worker[w].sub
          /\ report'[r].message = 0
          /\ \A t \in Report \ {r} : report'[t] = report[t]
      BY <2>1, <2>2, Typed, CreateReportKeeps
    <2>4. UNCHANGED <<submission, channel>>
      BY <1>4 DEF ReportCreate
    <2> QED
      BY <2>2, <2>3, <2>4
      DEF IInv, ReportRowsOK, ReportExists, Exists, IsReportMessage
  <1>5. ASSUME NEW r \in Report, NEW m \in Nat, SetReportDiscordMessage(r, m),
               ReportExists(r), IsReportMessage(m, r)
        PROVE  ReportRowsOK'
    BY <1>2, <1>5, Typed, SetReportMessageKeeps
  <1>6. ASSUME NEW w \in Worker, ReportRecord(w)
        PROVE  ReportRowsOK'
    <2>1. /\ worker[w].rep \in Report /\ ReportExists(worker[w].rep)
          /\ worker[w].msg \in Nat
          /\ IsReportMessage(worker[w].msg, worker[w].rep)
      BY <1>6 DEF IInv, TypeOK, WorkersOK, WorkerOK, ReportRecord, WorkerState
    <2> QED
      BY <1>5, <1>6, <2>1 DEF ReportRecord
  <1>7. ASSUME NEW j \in Job, RepairRecordReport(j)
        PROVE  ReportRowsOK'
    <2>1. /\ repair[j].rep \in Report /\ ReportExists(repair[j].rep)
          /\ repair[j].msg \in Nat
          /\ IsReportMessage(repair[j].msg, repair[j].rep)
      BY <1>7 DEF IInv, TypeOK, JobsOK, JobOK, RepairRecordReport, JobState
    <2> QED
      BY <1>5, <1>7, <2>1 DEF RepairRecordReport
  <1>8. ASSUME NEW x \in inflight, HandleDismiss(x)
        PROVE  ReportRowsOK'
    <2>1. channel[x.msg].report \in Report /\ ReportExists(channel[x.msg].report)
      BY <1>8, NullsAreDistinct DEF IInv, TypeOK, InteractionsOK, ChannelOK, HandleDismiss
    <2> QED
      BY <1>2, <1>8, <2>1, Typed, DismissKeeps DEF HandleDismiss
  <1>9. CASE RevokeCloseReports
    <2>1. channel[handler.msg].about \in Submission
      BY <1>9, Typed DEF IInv, InteractionsOK, RevokeCloseReports
    <2> QED
      BY <1>2, <1>9, <2>1, Typed, CloseReportsKeeps DEF RevokeCloseReports
  <1>10. CASE RowsAge
    BY <1>2, <1>10, Typed, AgeingKeeps DEF ReportExists
  <1> QED
    BY <1>3, <1>4, <1>6, <1>7, <1>8, <1>9, <1>10, ReportChanges

\* Locals that fit the tables fit them after a step.
LEMMA WorkerOKStays ==
  ASSUME IInv, Keeps, NEW w \in Worker, WorkerOK(worker'[w])
  PROVE  WorkerOK(worker[w])'
  BY MessagesStay
  DEF WorkerOK, Keeps, ChannelGrows, SubmissionsPersist, ReportsPersist,
      IsReviewMessage, IsReportMessage, SubmitPhases, ReportPhases

LEMMA WorkersOKStep ==
  ASSUME IInv, [Next]_vars
  PROVE  WorkersOK'
  <1>1. Keeps
    BY StepKeeps
  <1>2. ASSUME NEW w \in Worker, worker'[w] = worker[w]
        PROVE  WorkerOK(worker[w])'
    BY <1>1, <1>2, WorkerOKStays DEF IInv, WorkersOK
  <1>3. CASE UNCHANGED worker
    BY <1>2, <1>3 DEF WorkersOK
  <1>4. WorkerOK(IdleWorker)
    BY DEF WorkerOK, IdleWorker, SubmitPhases, ReportPhases
  <1>5. CASE Restart
    <2>1. \A w \in Worker : worker'[w] = IdleWorker
      BY <1>5 DEF Restart
    <2> QED
      BY <1>1, <1>4, <2>1, WorkerOKStays DEF WorkersOK
  <1>6. ASSUME NEW w \in Worker, WorkerNext(w)
        PROVE  WorkersOK'
    <2>1. /\ worker \in [Worker -> WorkerState]
          /\ worker[w] \in WorkerState
          /\ WorkerOK(worker[w])
      BY DEF IInv, TypeOK, WorkersOK
    <2>2. ASSUME NEW k, Become(w, k), WorkerOK(worker[w])'
          PROVE  WorkersOK'
      <3>1. \A v \in Worker \ {w} : worker'[v] = worker[v]
        BY <2>1, <2>2 DEF Become
      <3> QED
        BY <1>2, <2>2, <3>1 DEF WorkersOK
    <2>3. ASSUME NEW k, Become(w, k), WorkerOK(k)
          PROVE  WorkersOK'
      <3>1. worker'[w] = k
        BY <2>1, <2>3 DEF Become
      <3> QED
        BY <1>1, <2>2, <2>3, <3>1, WorkerOKStays
    <2>4. Finish(w) => WorkersOK'
      BY <1>4, <2>3 DEF Finish
    <2>5. ASSUME NEW i \in Install, SubmitBegin(w, i)
          PROVE  WorkersOK'
      <3>1. WorkerOK([worker[w] EXCEPT !.pc = "daily", !.install = i])
        BY <2>1 DEF WorkerOK, WorkerState, SubmitPhases, ReportPhases
      <3> QED
        BY <2>3, <2>5, <3>1 DEF SubmitBegin
    <2>6. CASE SubmitCheckDaily(w)
      <3>1. WorkerOK([worker[w] EXCEPT !.pc = "create"])
        BY <2>1, <2>6 DEF WorkerOK, WorkerState, SubmitPhases, ReportPhases, SubmitCheckDaily
      <3> QED
        BY <2>3, <2>4, <2>6, <3>1 DEF SubmitCheckDaily, Step
    <2>7. CASE SubmitAbort(w)
      BY <2>4, <2>7 DEF SubmitAbort
    <2>8. CASE SubmitCreate(w)
      <3>1. PICK s \in Submission :
              /\ ~Exists(s)
              /\ CreateSubmission(s, worker[w].install)
              /\ Become(w, [worker[w] EXCEPT !.pc = "announce", !.sub = s])
        BY <2>8 DEF SubmitCreate
      <3>2. worker[w].install \in Install
        BY <2>1, <2>8 DEF WorkerOK, SubmitCreate, SubmitPhases
      <3>3. Exists(s)'
        BY <3>1, <3>2, Typed, CreateSubmissionKeeps
      <3>4. worker'[w] = [worker[w] EXCEPT !.pc = "announce", !.sub = s]
        BY <2>1, <3>1 DEF Become
      <3>5. /\ worker'[w].pc = "announce"
            /\ worker'[w].sub = s
            /\ worker'[w].install = worker[w].install
        BY <2>1, <3>4 DEF WorkerState
      <3>6. WorkerOK(worker[w])'
        BY <3>2, <3>3, <3>5 DEF WorkerOK, SubmitPhases, ReportPhases, Exists
      <3> QED
        BY <2>2, <3>1, <3>6
    <2>9. CASE SubmitAnnounce(w)
      <3>1. ASSUME Post(ReviewMessage(worker[w].sub)),
                   Become(w, [worker[w] EXCEPT !.pc = "record", !.msg = Len(channel')])
            PROVE  WorkersOK'
        <4>1. /\ worker[w].sub \in Submission /\ Exists(worker[w].sub)
              /\ worker[w].install \in Install
          BY <2>1, <2>9 DEF WorkerOK, SubmitAnnounce, SubmitPhases
        <4>2. /\ Len(channel') \in DOMAIN channel'
              /\ channel'[Len(channel')] = ReviewMessage(worker[w].sub)
          BY <3>1, <4>1, Typed, PostGrows, MessageTypes
        <4>3. worker'[w] = [worker[w] EXCEPT !.pc = "record", !.msg = Len(channel')]
          BY <2>1, <3>1 DEF Become
        <4>4. /\ worker'[w].pc = "record"
              /\ worker'[w].sub = worker[w].sub
              /\ worker'[w].install = worker[w].install
              /\ worker'[w].msg = Len(channel')
          BY <2>1, <4>3 DEF WorkerState
        <4>5. submission' = submission
          BY <2>9 DEF SubmitAnnounce
        <4>6. WorkerOK(worker[w])'
          BY <4>1, <4>2, <4>4, <4>5
          DEF WorkerOK, SubmitPhases, ReportPhases, Exists, IsReviewMessage, ReviewMessage
        <4> QED
          BY <2>2, <3>1, <4>6
      <3> QED
        BY <2>4, <2>9, <3>1 DEF SubmitAnnounce
    <2>10. CASE SubmitRecord(w)
      BY <2>4, <2>10 DEF SubmitRecord
    <2>11. ASSUME NEW i \in Install \cup {NoInstall}, NEW s \in Submission,
                  ReportBegin(w, i, s)
           PROVE  WorkersOK'
      <3>1. WorkerOK([worker[w] EXCEPT !.pc = "reportDaily", !.install = i, !.sub = s])
        BY <2>1, <2>11
        DEF WorkerOK, WorkerState, SubmitPhases, ReportPhases, ReportBegin, Exists
      <3> QED
        BY <2>3, <2>11, <3>1 DEF ReportBegin
    <2>12. CASE ReportCheckDaily(w)
      <3>1. WorkerOK([worker[w] EXCEPT !.pc = "reportCreate"])
        BY <2>1, <2>12 DEF WorkerOK, WorkerState, SubmitPhases, ReportPhases, ReportCheckDaily
      <3> QED
        BY <2>3, <2>4, <2>12, <3>1 DEF ReportCheckDaily, Step
    <2>13. CASE ReportCreate(w)
      <3>1. PICK r \in Report :
              /\ ~ReportExists(r)
              /\ CreateReport(r, worker[w].sub, worker[w].install)
              /\ Become(w, [worker[w] EXCEPT !.pc = "reportAnnounce", !.rep = r])
        BY <2>13 DEF ReportCreate
      <3>2. /\ worker[w].sub \in Submission /\ Exists(worker[w].sub)
            /\ worker[w].install \in Install \cup {NoInstall}
        BY <2>1, <2>13 DEF WorkerOK, WorkerState, ReportCreate, ReportPhases
      <3>3. ReportExists(r)' /\ report'[r].about = worker[w].sub
        BY <3>1, <3>2, Typed, CreateReportKeeps
      <3>4. worker'[w] = [worker[w] EXCEPT !.pc = "reportAnnounce", !.rep = r]
        BY <2>1, <3>1 DEF Become
      <3>5. /\ worker'[w].pc = "reportAnnounce"
            /\ worker'[w].sub = worker[w].sub
            /\ worker'[w].rep = r
        BY <2>1, <3>4 DEF WorkerState
      <3>6. submission' = submission
        BY <2>13 DEF ReportCreate
      <3>7. WorkerOK(worker[w])'
        BY <3>2, <3>3, <3>5, <3>6
        DEF WorkerOK, SubmitPhases, ReportPhases, Exists, ReportExists
      <3> QED
        BY <2>2, <3>1, <3>7
    <2>14. CASE ReportAnnounce(w)
      <3>1. ASSUME Post(ReportMessage(worker[w].rep, worker[w].sub)),
                   Become(w, [worker[w] EXCEPT !.pc = "reportRecord", !.msg = Len(channel')])
            PROVE  WorkersOK'
        <4>1. /\ worker[w].sub \in Submission /\ Exists(worker[w].sub)
              /\ worker[w].rep \in Report /\ ReportExists(worker[w].rep)
              /\ report[worker[w].rep].about = worker[w].sub
          BY <2>1, <2>14 DEF WorkerOK, ReportAnnounce, ReportPhases
        <4>2. /\ Len(channel') \in DOMAIN channel'
              /\ channel'[Len(channel')] = ReportMessage(worker[w].rep, worker[w].sub)
          BY <3>1, <4>1, Typed, PostGrows, MessageTypes
        <4>3. worker'[w] = [worker[w] EXCEPT !.pc = "reportRecord", !.msg = Len(channel')]
          BY <2>1, <3>1 DEF Become
        <4>4. /\ worker'[w].pc = "reportRecord"
              /\ worker'[w].sub = worker[w].sub
              /\ worker'[w].rep = worker[w].rep
              /\ worker'[w].msg = Len(channel')
          BY <2>1, <4>3 DEF WorkerState
        <4>5. UNCHANGED <<submission, report>>
          BY <2>14 DEF ReportAnnounce
        <4>6. WorkerOK(worker[w])'
          BY <4>1, <4>2, <4>4, <4>5
          DEF WorkerOK, SubmitPhases, ReportPhases, Exists, ReportExists,
              IsReportMessage, ReportMessage
        <4> QED
          BY <2>2, <3>1, <4>6
      <3> QED
        BY <2>4, <2>14, <3>1 DEF ReportAnnounce
    <2>15. CASE ReportRecord(w)
      BY <2>4, <2>15 DEF ReportRecord
    <2> QED
      BY <1>6, <2>5, <2>6, <2>7, <2>8, <2>9, <2>10, <2>11, <2>12, <2>13, <2>14, <2>15
      DEF WorkerNext
  <1> QED
    BY <1>3, <1>5, <1>6, WorkerChanges

LEMMA JobOKStays ==
  ASSUME IInv, Keeps, NEW j \in Job, repair'[j] \in JobState, JobOK(repair'[j])
  PROVE  JobOK(repair[j])'
  BY DEF JobOK, JobState, Keeps, ChannelGrows, SubmissionsPersist, ReportsPersist,
         IsReviewMessage, IsReportMessage

LEMMA JobsOKStep ==
  ASSUME IInv, [Next]_vars
  PROVE  JobsOK'
  <1>1. Keeps
    BY StepKeeps
  <1>2. \A j \in Job : repair[j] \in JobState /\ JobOK(repair[j])
    BY DEF IInv, TypeOK, JobsOK
  <1>3. ASSUME NEW j \in Job, repair'[j] = repair[j]
        PROVE  JobOK(repair[j])'
    BY <1>1, <1>2, <1>3, JobOKStays
  <1>4. CASE UNCHANGED repair
    BY <1>3, <1>4 DEF JobsOK
  <1>5. IdleJob \in JobState /\ JobOK(IdleJob)
    BY DEF JobOK, JobState, IdleJob
  <1>6. CASE Restart
    <2>1. \A j \in Job : repair'[j] = IdleJob
      BY <1>6 DEF Restart
    <2> QED
      BY <1>1, <1>5, <2>1, JobOKStays DEF JobsOK
  <1>7. ASSUME NEW j \in Job, RepairNext(j)
        PROVE  JobsOK'
    <2>1. repair \in [Job -> JobState]
      BY DEF IInv, TypeOK
    <2>2. ASSUME NEW k, Proceed(j, k), JobOK(repair[j])'
          PROVE  JobsOK'
      <3>1. \A i \in Job \ {j} : repair'[i] = repair[i]
        BY <2>1, <2>2 DEF Proceed
      <3> QED
        BY <1>3, <2>2, <3>1 DEF JobsOK
    <2>3. ASSUME NEW k, Proceed(j, k), JobOK(k)
          PROVE  JobsOK'
      <3>1. repair'[j] = k /\ repair'[j] \in JobState
        BY <1>7, <2>1, <2>3, JobType DEF Proceed
      <3>2. JobOK(repair[j])'
        BY <1>1, <2>3, <3>1, JobOKStays
      <3> QED
        BY <2>2, <2>3, <3>2
    <2>4. CASE RepairRead(j)
      <3>1. JobOK([repair[j] EXCEPT !.pc = "subs", !.todo = PendingWithoutMessage])
        BY <1>2 DEF JobOK, JobState, PendingWithoutMessage, Exists
      <3> QED
        BY <2>3, <2>4, <3>1 DEF RepairRead
    <2>5. CASE RepairRecord(j)
      <3>1. JobOK([repair[j] EXCEPT !.pc = "subs", !.sub = NoSubmission, !.msg = 0])
        BY <1>2 DEF JobOK, JobState
      <3> QED
        BY <2>3, <2>5, <3>1 DEF RepairRecord
    <2>6. CASE RepairReadReports(j)
      <3>1. JobOK([repair[j] EXCEPT !.pc = "reps", !.todoReps = OpenReportsWithoutMessage])
        BY <1>2 DEF JobOK, JobState, OpenReportsWithoutMessage, ReportExists
      <3> QED
        BY <2>3, <2>6, <3>1 DEF RepairReadReports
    <2>7. CASE RepairRecordReport(j)
      <3>1. JobOK([repair[j] EXCEPT !.pc = "reps", !.rep = NoReport, !.msg = 0])
        BY <1>2 DEF JobOK, JobState
      <3> QED
        BY <2>3, <2>7, <3>1 DEF RepairRecordReport
    <2>8. CASE RepairDone(j)
      BY <1>5, <2>3, <2>8 DEF RepairDone
    <2>9. CASE JobKilled(j)
      BY <1>5, <2>3, <2>9 DEF JobKilled
    <2>10. ASSUME NEW s \in Submission, RepairAnnounce(j, s)
           PROVE  JobsOK'
      <3> DEFINE k == [repair[j] EXCEPT !.pc = "subRecord", !.todo = @ \ {s},
                                        !.sub = s, !.msg = Len(channel')]
      <3>1. /\ s \in repair[j].todo
            /\ Post(ReviewMessage(s))
            /\ Proceed(j, k)
            /\ UNCHANGED <<submission, report>>
        BY <2>10 DEF RepairAnnounce
      <3>2. /\ Len(channel') \in DOMAIN channel'
            /\ channel'[Len(channel')] = ReviewMessage(s)
        BY <3>1, Typed, PostGrows, MessageTypes
      <3>3. repair'[j] = k
        BY <2>1, <3>1 DEF Proceed
      <3>4. /\ repair'[j].pc = "subRecord"
            /\ repair'[j].todo = repair[j].todo \ {s}
            /\ repair'[j].todoReps = repair[j].todoReps
            /\ repair'[j].sub = s
            /\ repair'[j].msg = Len(channel')
        BY <1>2, <3>3 DEF JobState
      <3>5. JobOK(repair[j])'
        BY <1>2, <3>1, <3>2, <3>4
        DEF JobOK, JobState, Exists, ReportExists, IsReviewMessage, ReviewMessage
      <3> QED
        BY <2>2, <3>1, <3>5
    <2>11. ASSUME NEW s \in Submission, RepairAnnounceFails(j, s)
           PROVE  JobsOK'
      <3>1. JobOK([repair[j] EXCEPT !.todo = @ \ {s}])
        BY <1>2 DEF JobOK, JobState
      <3> QED
        BY <2>3, <2>11, <3>1 DEF RepairAnnounceFails
    <2>12. ASSUME NEW r \in Report, RepairAnnounceReport(j, r)
           PROVE  JobsOK'
      <3> DEFINE k == [repair[j] EXCEPT !.pc = "repRecord", !.todoReps = @ \ {r},
                                        !.rep = r, !.msg = Len(channel')]
      <3>1. /\ r \in repair[j].todoReps
            /\ Post(ReportMessage(r, report[r].about))
            /\ Proceed(j, k)
            /\ UNCHANGED <<submission, report>>
        BY <2>12 DEF RepairAnnounceReport
      <3>2. ReportExists(r) /\ report[r].about \in Submission
        BY <1>2, <3>1 DEF JobOK, IInv, ReportRowsOK
      <3>3. /\ Len(channel') \in DOMAIN channel'
            /\ channel'[Len(channel')] = ReportMessage(r, report[r].about)
        BY <3>1, <3>2, Typed, PostGrows, MessageTypes
      <3>4. repair'[j] = k
        BY <2>1, <3>1 DEF Proceed
      <3>5. /\ repair'[j].pc = "repRecord"
            /\ repair'[j].todo = repair[j].todo
            /\ repair'[j].todoReps = repair[j].todoReps \ {r}
            /\ repair'[j].rep = r
            /\ repair'[j].msg = Len(channel')
        BY <1>2, <3>4 DEF JobState
      <3>6. JobOK(repair[j])'
        BY <1>2, <3>1, <3>2, <3>3, <3>5
        DEF JobOK, JobState, Exists, ReportExists, IsReportMessage, ReportMessage
      <3> QED
        BY <2>2, <3>1, <3>6
    <2>13. ASSUME NEW r \in Report, RepairAnnounceReportFails(j, r)
           PROVE  JobsOK'
      <3>1. JobOK([repair[j] EXCEPT !.todoReps = @ \ {r}])
        BY <1>2 DEF JobOK, JobState
      <3> QED
        BY <2>3, <2>13, <3>1 DEF RepairAnnounceReportFails
    <2> QED
      BY <1>7, <2>4, <2>5, <2>6, <2>7, <2>8, <2>9, <2>10, <2>11, <2>12, <2>13 DEF RepairNext
  <1> QED
    BY <1>4, <1>6, <1>7, RepairChanges

LEMMA InteractionsOKStep ==
  ASSUME IInv, [Next]_vars
  PROVE  InteractionsOK'
  <1> DEFINE Fits(x) ==
        /\ x.msg \in DOMAIN channel
        /\ x.action \in {"approve", "reject", "rejectm"} => channel[x.msg].report = NoReport
        /\ x.action = "dismiss" => channel[x.msg].report \in Report
  <1> DEFINE HandlerFits ==
        handler.pc = "closing" => /\ handler.msg \in DOMAIN channel
                                  /\ ~Pending(channel[handler.msg].about)
  <1> HIDE DEF Fits, HandlerFits
  <1>1. Keeps
    BY StepKeeps
  <1>2. (\A x \in inflight : Fits(x)) /\ HandlerFits
    BY DEF IInv, InteractionsOK, Fits, HandlerFits
  <1>3. ASSUME \A x \in inflight' : Fits(x), HandlerFits'
        PROVE  InteractionsOK'
    BY <1>1, <1>3
    DEF InteractionsOK, Keeps, ChannelGrows, Fits, HandlerFits
  <1>4. UNCHANGED handler => HandlerFits'
    BY <1>1, <1>2, Typed
    DEF HandlerFits, Keeps, ChannelGrows, SubmissionsPersist, Pending, Exists
  <1>5. handler' = IdleHandler => HandlerFits'
    BY DEF HandlerFits, IdleHandler
  <1>6. ASSUME NEW u \in User, NEW m \in DOMAIN channel, NEW b \in Actions, Press(u, m, b)
        PROVE  InteractionsOK'
    <2> DEFINE x == [actor |-> u, msg |-> m, action |-> b]
    <2>1. channel[m] \in Message
      BY Typed
    <2>2. b \in {"approve", "reject", "rejectm"} => channel[m].face = "review"
      BY <1>6, <2>1 DEF Press, Buttons, Message, Faces
    <2>3. b = "dismiss" => channel[m].face = "report"
      BY <1>6, <2>1 DEF Press, Buttons, Message, Faces
    <2>4. Fits(x)
      BY <2>1, <2>2, <2>3 DEF Fits, IInv, ChannelOK, Message
    <2> QED
      BY <1>2, <1>3, <1>4, <1>6, <2>4 DEF Press
  <1>7. ASSUME NEW x \in inflight, HandleReject(x)
        PROVE  InteractionsOK'
    <2>1. Fits([x EXCEPT !.action = "rejectm"])
      BY <1>2, <1>7 DEF Fits, HandleReject, IInv, TypeOK, Interaction
    <2> QED
      BY <1>2, <1>3, <1>4, <1>7, <2>1 DEF HandleReject
  <1>8. ASSUME NEW x \in inflight, HandleRevoke(x)
        PROVE  InteractionsOK'
    <2>1. x.msg \in DOMAIN channel /\ channel[x.msg].about \in Submission
      BY Typed DEF IInv, TypeOK
    <2>2. /\ handler'.msg = x.msg
          /\ channel' = channel
          /\ submission'[channel[x.msg].about].status = "revoked"
      BY <1>8, <2>1, Typed DEF HandleRevoke, SetStatus, SubmissionsTyped, SubmissionRow
    <2>3. HandlerFits'
      BY <2>1, <2>2 DEF HandlerFits, Pending
    <2> QED
      BY <1>2, <1>3, <1>8, <2>3 DEF HandleRevoke, Take
  <1>9. ASSUME NEW x \in inflight,
               HandleApprove(x) \/ HandleRejectModal(x) \/ HandleDismiss(x) \/ Abandon(x)
        PROVE  InteractionsOK'
    <2>1. inflight' \subseteq inflight /\ UNCHANGED handler
      BY <1>9 DEF HandleApprove, HandleRejectModal, HandleDismiss, Abandon, Take
    <2> QED
      BY <1>2, <1>3, <1>4, <2>1
  <1>10. CASE RevokeCloseReports
    BY <1>2, <1>3, <1>5, <1>10 DEF RevokeCloseReports
  <1>11. CASE ReviewNext
    BY <1>6, <1>7, <1>8, <1>9, <1>10, <1>11 DEF ReviewNext
  <1>12. CASE Restart
    BY <1>2, <1>3, <1>5, <1>12 DEF Restart
  <1>13. CASE UNCHANGED <<inflight, handler>>
    BY <1>2, <1>3, <1>4, <1>13
  <1> QED
    BY <1>11, <1>12, <1>13, InflightChanges

LEMMA TypeOKStep ==
  ASSUME IInv, [Next]_vars
  PROVE  TypeOK'
  <1>1. Keeps
    BY StepKeeps
  <1>2. worker' \in [Worker -> WorkerState]
    <2>1. IdleWorker \in WorkerState
      BY DEF IdleWorker, WorkerState
    <2>2. Restart => worker' \in [Worker -> WorkerState]
      BY <2>1 DEF Restart
    <2> QED
      BY <2>2, WorkerType, WorkerChanges DEF IInv, TypeOK
  <1>3. repair' \in [Job -> JobState]
    <2>1. IdleJob \in JobState
      BY DEF IdleJob, JobState
    <2>2. Restart => repair' \in [Job -> JobState]
      BY <2>1 DEF Restart
    <2> QED
      BY <2>2, JobType, RepairChanges DEF IInv, TypeOK
  <1>4. faults' \in Nat
    <2>1. faults' = faults \/ faults' = faults + 1
      BY DEF Next, vars, WorkerNext, ReviewNext, RepairNext, RowsAge, Moderate, Restart, Fault,
         PostUnacknowledged, PostFails,
         SubmitBegin, SubmitCheckDaily, SubmitAbort, SubmitCreate, SubmitAnnounce,
         SubmitRecord, ReportBegin, ReportCheckDaily, ReportCreate, ReportAnnounce,
         ReportRecord,
         Press, Abandon, HandleApprove, HandleReject, HandleRejectModal, HandleRevoke,
         HandleDismiss, RevokeCloseReports,
         RepairRead, RepairReadReports, RepairRecord, RepairRecordReport, RepairDone,
         JobKilled, RepairAnnounce, RepairAnnounceFails, RepairAnnounceReport,
         RepairAnnounceReportFails
    <2> QED
      BY <2>1 DEF IInv, TypeOK
  <1>5. /\ \A x \in inflight' : x \in Interaction
        /\ handler' \in HandlerState
    <2>1. /\ \A x \in inflight : x \in Interaction /\ x.msg \in DOMAIN channel
          /\ handler \in HandlerState
          /\ DOMAIN channel \subseteq Nat
      BY Typed, LenProperties DEF IInv, TypeOK
    <2>2. IdleHandler \in HandlerState
      BY DEF IdleHandler, HandlerState
    <2>3. ASSUME NEW u \in User, NEW m \in DOMAIN channel, NEW b \in Actions, Press(u, m, b)
          PROVE  /\ \A x \in inflight' : x \in Interaction
                 /\ handler' \in HandlerState
      BY <2>1, <2>3 DEF Press, Interaction
    <2>4. ASSUME NEW x \in inflight, HandleReject(x)
          PROVE  /\ \A y \in inflight' : y \in Interaction
                 /\ handler' \in HandlerState
      <3>1. [x EXCEPT !.action = "rejectm"] \in Interaction
        BY <2>1 DEF Interaction, Actions
      <3> QED
        BY <2>1, <2>4, <3>1 DEF HandleReject
    <2>5. ASSUME NEW x \in inflight, HandleRevoke(x)
          PROVE  /\ \A y \in inflight' : y \in Interaction
                 /\ handler' \in HandlerState
      BY <2>1, <2>5 DEF HandleRevoke, Take, HandlerState
    <2>6. ASSUME NEW x \in inflight,
                 HandleApprove(x) \/ HandleRejectModal(x) \/ HandleDismiss(x) \/ Abandon(x)
          PROVE  /\ \A y \in inflight' : y \in Interaction
                 /\ handler' \in HandlerState
      BY <2>1, <2>6 DEF HandleApprove, HandleRejectModal, HandleDismiss, Abandon, Take
    <2>7. RevokeCloseReports \/ Restart => /\ \A y \in inflight' : y \in Interaction
                                           /\ handler' \in HandlerState
      BY <2>1, <2>2 DEF RevokeCloseReports, Restart
    <2> QED
      BY <2>1, <2>3, <2>4, <2>5, <2>6, <2>7, InflightChanges DEF ReviewNext
  <1>6. \A x \in inflight' : x.msg \in DOMAIN channel'
    BY InteractionsOKStep DEF InteractionsOK
  <1> QED
    BY <1>1, <1>2, <1>3, <1>4, <1>5, <1>6
    DEF TypeOK, StoreTypeOK, Keeps, ChannelGrows, SubmissionsTyped, ReportsTyped

-----------------------------------------------------------------------------
\* IInv holds initially and every step of any handler, button, repair run,
\* maintainer command or restart keeps it.
THEOREM Invariance == Spec => []IInv
  <1>1. Init => IInv
    <2> SUFFICES ASSUME Init PROVE IInv
      OBVIOUS
    <2>1. TypeOK
      BY EmptySeq
      DEF Init, StoreInit, TypeOK, StoreTypeOK, NoSubmissionRow, NoReportRow,
          SubmissionRow, ReportRow, IdleWorker, WorkerState, IdleHandler, HandlerState,
          IdleJob, JobState
    <2> QED
      BY <2>1
      DEF Init, StoreInit, IInv, ReportRowsOK, SubmissionRowsOK, WorkersOK, WorkerOK,
          JobsOK, JobOK, ChannelOK, InteractionsOK, NoSubmissionRow, NoReportRow,
          IdleWorker, IdleHandler, IdleJob, ReportExists, SubmitPhases, ReportPhases
  <1>2. IInv /\ [Next]_vars => IInv'
    BY TypeOKStep, ReportRowsOKStep, SubmissionRowsOKStep, WorkersOKStep, JobsOKStep,
       ChannelOKStep, InteractionsOKStep
    DEF IInv
  <1> QED
    BY <1>1, <1>2, PTL DEF Spec

\* Every variable keeps its type.
THEOREM TypeCorrect == Spec => []TypeOK
  <1>1. IInv => TypeOK
    BY DEF IInv
  <1> QED
    BY <1>1, Invariance, PTL

\* A pending row that counts as announced has its message in the channel, with
\* both buttons, for every number of threads, repair runs, duplicates and faults.
THEOREM AnnouncedStaysActionable == Spec => []AnnouncedIsActionable
  <1>1. IInv => AnnouncedIsActionable
    <2> SUFFICES ASSUME IInv, NEW s \in Submission,
                        submission[s].status = "pending", submission[s].message # 0
                 PROVE  LET m == submission[s].message IN
                        /\ m \in DOMAIN channel
                        /\ channel[m].about = s
                        /\ {"approve", "reject"} \subseteq Buttons(m)
      BY DEF AnnouncedIsActionable
    <2>1. IsReviewMessage(submission[s].message, s)
      BY DEF IInv, SubmissionRowsOK
    <2>2. channel[submission[s].message].face = "review"
      BY <2>1 DEF IInv, ChannelOK, IsReviewMessage, Pending
    <2> QED
      BY <2>1, <2>2 DEF IsReviewMessage, Buttons
  <1> QED
    BY <1>1, Invariance, PTL

\* An open takedown request that counts as announced can still be settled from
\* its message.
THEOREM OpenReportStaysActionable == Spec => []OpenReportIsActionable
  <1>1. IInv => OpenReportIsActionable
    <2> SUFFICES ASSUME IInv, NEW r \in Report,
                        report[r].status = "open", report[r].message # 0
                 PROVE  LET m == report[r].message IN
                        /\ m \in DOMAIN channel
                        /\ channel[m].report = r
                        /\ channel[m].about = report[r].about
                        /\ {"revoke", "dismiss"} \subseteq Buttons(m)
      BY DEF OpenReportIsActionable
    <2>1. IsReportMessage(report[r].message, r)
      BY DEF IInv, ReportRowsOK
    <2>2. /\ channel[report[r].message].face = "report"
          /\ channel[report[r].message].about = report[r].about
      BY <2>1, NullsAreDistinct DEF IInv, ChannelOK, IsReportMessage, Open
    <2> QED
      BY <2>1, <2>2 DEF IsReportMessage, Buttons
  <1> QED
    BY <1>1, Invariance, PTL

-----------------------------------------------------------------------------
(* Marketplace implements Moderation: the initial states map to initial    *)
(* states, and every step maps to a decision, a filing, a settlement or a  *)
(* stutter.                                                                *)

(* A row that has not been inserted names no decider.                      *)

Undecided == \A s \in Submission : ~Exists(s) => submission[s].reviewedBy = Nobody

SameRows == \A s \in Submission : /\ submission'[s].status = submission[s].status
                                  /\ submission'[s].reviewedBy = submission[s].reviewedBy

SameReports == \A r \in Report : /\ report'[r].status = report[r].status
                                 /\ report'[r].about = report[r].about

\* A decision of somebody entitled to it, as the tables see it.
Decision(s, status, by) == /\ s \in Submission
                           /\ Exists(s)
                           /\ status \in Statuses \ {"pending"}
                           /\ by \in Reviewer \cup {Cli}
                           /\ SetStatus(s, status, by)

\* What one step does to the submissions.
LEMMA SubmissionStep ==
  ASSUME IInv, [Next]_vars
  PROVE  \/ SameRows
         \/ /\ UNCHANGED report
            /\ \/ \E s \in Submission, i \in Install : ~Exists(s) /\ CreateSubmission(s, i)
               \/ \E s, status, by : Decision(s, status, by)
  <1>0. /\ SubmissionsTyped
        /\ worker \in [Worker -> WorkerState]
        /\ repair \in [Job -> JobState]
    BY Typed DEF IInv, TypeOK
  <1>1. ASSUME NEW s, NEW m, SetDiscordMessage(s, m)
        PROVE  SameRows
    BY <1>0, <1>1 DEF SameRows, SetDiscordMessage, SubmissionsTyped, SubmissionRow
  <1>2. CASE UNCHANGED submission
    BY <1>2 DEF SameRows
  <1>3. ASSUME NEW w \in Worker, SubmitCreate(w)
        PROVE  /\ UNCHANGED report
               /\ \E s \in Submission, i \in Install : ~Exists(s) /\ CreateSubmission(s, i)
    <2>1. worker[w].install \in Install
      BY <1>3 DEF IInv, WorkersOK, WorkerOK, SubmitCreate, SubmitPhases
    <2> QED
      BY <1>3, <2>1 DEF SubmitCreate
  <1>4. ASSUME NEW w \in Worker, SubmitRecord(w)
        PROVE  SameRows
    BY <1>1, <1>4 DEF SubmitRecord
  <1>5. ASSUME NEW x \in inflight,
               HandleApprove(x) \/ HandleRejectModal(x) \/ HandleRevoke(x)
        PROVE  /\ UNCHANGED report
               /\ \E s, status, by : Decision(s, status, by)
    <2>1. /\ channel[x.msg].about \in Submission
          /\ Exists(channel[x.msg].about)
      BY Typed DEF IInv, TypeOK
    <2>2. x.actor \in Reviewer
      BY <1>5 DEF HandleApprove, HandleRejectModal, HandleRevoke, Authorised
    <2>3. /\ UNCHANGED report
          /\ \E status \in Statuses \ {"pending"} :
                SetStatus(channel[x.msg].about, status, x.actor)
      BY <1>5 DEF HandleApprove, HandleRejectModal, HandleRevoke, Statuses
    <2> QED
      BY <2>1, <2>2, <2>3 DEF Decision
  <1>6. ASSUME NEW s \in Submission, NEW status \in Statuses \ {"pending"},
               Moderate(s, status)
        PROVE  UNCHANGED report /\ Decision(s, status, Cli)
    BY <1>6 DEF Moderate, Decision
  <1>7. ASSUME NEW j \in Job, RepairRecord(j)
        PROVE  SameRows
    BY <1>1, <1>7 DEF RepairRecord
  <1>8. RowsAge => SameRows
    <2>1. ASSUME NEW s \in Submission, SubmissionAges(s)
          PROVE  SameRows
      BY <1>0, <2>1 DEF SubmissionAges, SameRows, SubmissionsTyped, SubmissionRow
    <2>2. ASSUME NEW r \in Report, ReportAges(r)
          PROVE  SameRows
      BY <1>2, <2>2 DEF ReportAges, SameRows
    <2> QED
      BY <2>1, <2>2 DEF RowsAge
  <1> QED
    BY <1>2, <1>3, <1>4, <1>5, <1>6, <1>7, <1>8, SubmissionChanges

\* What one step does to the reports.
LEMMA ReportStep ==
  ASSUME IInv, [Next]_vars
  PROVE  \/ SameReports
         \/ /\ UNCHANGED submission
            /\ \/ \E r \in Report, s \in Submission, i \in Install \cup {NoInstall} :
                     /\ ~ReportExists(r) /\ Exists(s)
                     /\ CreateReport(r, s, i)
               \/ \E r \in Report : /\ ReportExists(r)
                                    /\ SetReportStatus(r, "dismissed")
               \/ \E s \in Submission : CloseReportsForSubmission(s)
  <1>0. ReportsTyped
    BY Typed
  <1>1. ASSUME NEW r, NEW m, SetReportDiscordMessage(r, m)
        PROVE  SameReports
    BY <1>0, <1>1 DEF SameReports, SetReportDiscordMessage, ReportsTyped, ReportRow
  <1>2. CASE UNCHANGED report
    BY <1>2 DEF SameReports
  <1>3. ASSUME NEW w \in Worker, ReportCreate(w)
        PROVE  /\ UNCHANGED submission
               /\ \E r \in Report, s \in Submission, i \in Install \cup {NoInstall} :
                     /\ ~ReportExists(r) /\ Exists(s)
                     /\ CreateReport(r, s, i)
    <2>1. worker[w].sub \in Submission /\ Exists(worker[w].sub)
      BY <1>3 DEF IInv, WorkersOK, WorkerOK, ReportCreate, ReportPhases
    <2>2. worker[w].install \in Install \cup {NoInstall}
      BY DEF IInv, TypeOK, WorkerState
    <2> QED
      BY <1>3, <2>1, <2>2 DEF ReportCreate
  <1>4. ASSUME NEW w \in Worker, ReportRecord(w)
        PROVE  SameReports
    BY <1>1, <1>4 DEF ReportRecord
  <1>5. ASSUME NEW x \in inflight, HandleDismiss(x)
        PROVE  /\ UNCHANGED submission
               /\ \E r \in Report : ReportExists(r) /\ SetReportStatus(r, "dismissed")
    <2>1. /\ channel[x.msg].report \in Report
          /\ ReportExists(channel[x.msg].report)
      BY <1>5, NullsAreDistinct DEF IInv, TypeOK, InteractionsOK, ChannelOK, HandleDismiss
    <2> QED
      BY <1>5, <2>1 DEF HandleDismiss
  <1>6. ASSUME RevokeCloseReports
        PROVE  /\ UNCHANGED submission
               /\ \E s \in Submission : CloseReportsForSubmission(s)
    <2>1. channel[handler.msg].about \in Submission
      BY <1>6, Typed DEF IInv, InteractionsOK, RevokeCloseReports
    <2> QED
      BY <1>6, <2>1 DEF RevokeCloseReports
  <1>7. ASSUME NEW j \in Job, RepairRecordReport(j)
        PROVE  SameReports
    BY <1>1, <1>7 DEF RepairRecordReport
  <1>8. RowsAge => SameReports
    BY Typed, AgeingKeeps DEF SameReports
  <1> QED
    BY <1>2, <1>3, <1>4, <1>5, <1>6, <1>7, <1>8, ReportChanges

LEMMA UndecidedInvariant == Spec => []Undecided
  <1>1. Init => Undecided
    BY DEF Init, StoreInit, NoSubmissionRow, Undecided
  <1>2. IInv /\ Undecided /\ [Next]_vars => Undecided'
    <2> SUFFICES ASSUME IInv, Undecided, [Next]_vars PROVE Undecided'
      OBVIOUS
    <2>0. SubmissionsTyped
      BY Typed
    <2>1. CASE SameRows
      BY <2>1 DEF SameRows, Undecided, Exists
    <2>2. ASSUME NEW s \in Submission, NEW i \in Install, CreateSubmission(s, i)
          PROVE  Undecided'
      BY <2>0, <2>2 DEF CreateSubmission, Undecided, Exists, SubmissionsTyped, SubmissionRow
    <2>3. ASSUME NEW s, NEW status, NEW by, Decision(s, status, by)
          PROVE  Undecided'
      BY <2>0, <2>3 DEF Decision, SetStatus, Undecided, Exists, SubmissionsTyped,
                        SubmissionRow, Statuses
    <2> QED
      BY <2>1, <2>2, <2>3, SubmissionStep
  <1> QED
    BY <1>1, <1>2, Invariance, PTL DEF Spec

-----------------------------------------------------------------------------
(* Every step is a step of Moderation, or none.                            *)

LEMMA Implementation ==
  ASSUME IInv, Undecided, [Next]_vars
  PROVE  [Promise!Next]_(Promise!absvars)
  <1>0. /\ SubmissionsTyped /\ ReportsTyped
        /\ \A s \in Submission : submission[s].status \in Statuses \cup {"absent"}
        /\ \A r \in Report : report[r].status \in ReportStatuses \cup {"absent"}
    BY Typed DEF SubmissionsTyped, ReportsTyped, SubmissionRow, ReportRow
  <1>1. SameRows => UNCHANGED << [s \in Submission |-> Stage(s)],
                                 [s \in Submission |-> submission[s].reviewedBy] >>
    BY DEF SameRows, Stage, ListApproved
  <1>2. SameReports => UNCHANGED << [r \in Report |-> Complaint(r)],
                                    [r \in Report |-> report[r].about] >>
    BY DEF SameReports, Complaint
  <1>3. CASE SameRows /\ SameReports
    BY <1>1, <1>2, <1>3 DEF Promise!absvars
  <1>4. ASSUME UNCHANGED report, NEW s \in Submission, NEW i \in Install,
               ~Exists(s), CreateSubmission(s, i)
        PROVE  Promise!Next
    <2>1. /\ Stage(s) = "none"
          /\ Stage(s)' = "waiting"
          /\ \A t \in Submission \ {s} : Stage(t)' = Stage(t)
      BY <1>0, <1>4 DEF SubmissionsTyped, SubmissionRow, CreateSubmission, Stage, Exists,
                        ListApproved
    <2>2. \A t \in Submission : submission'[t].reviewedBy = submission[t].reviewedBy
      BY <1>0, <1>4 DEF SubmissionsTyped, SubmissionRow, CreateSubmission, Undecided
    <2>3. Promise!Enter(s)
      BY <1>2, <1>4, <2>1, <2>2 DEF Promise!Enter, SameReports
    <2> QED
      BY <2>3 DEF Promise!Next
  <1>5. ASSUME UNCHANGED report, NEW s, NEW status, NEW by, Decision(s, status, by)
        PROVE  Promise!Next
    <2>1. /\ Stage(s) # "none"
          /\ Stage(s)' \in {"up", "down"}
          /\ \A t \in Submission \ {s} : Stage(t)' = Stage(t)
      BY <1>0, <1>5 DEF SubmissionsTyped, SubmissionRow, Decision, SetStatus, Stage, Exists,
                        ListApproved, Statuses
    <2>2. /\ submission'[s].reviewedBy = by
          /\ \A t \in Submission \ {s} : submission'[t].reviewedBy = submission[t].reviewedBy
      BY <1>0, <1>5 DEF SubmissionsTyped, SubmissionRow, Decision, SetStatus
    <2>3. s \in Submission /\ by \in Reviewer \cup {Cli}
      BY <1>5 DEF Decision
    <2>4. Promise!Decide(s, by)
      BY <1>2, <1>5, <2>1, <2>2, <2>3 DEF Promise!Decide, SameReports
    <2> QED
      BY <2>3, <2>4 DEF Promise!Next
  <1>6. ASSUME UNCHANGED submission, NEW r \in Report, NEW s \in Submission,
               NEW i \in Install \cup {NoInstall}, ~ReportExists(r), Exists(s), CreateReport(r, s, i)
        PROVE  Promise!Next
    <2>1. /\ Complaint(r) = "none"
          /\ Complaint(r)' = "open"
          /\ \A t \in Report \ {r} : Complaint(t)' = Complaint(t)
      BY <1>0, <1>6 DEF ReportsTyped, ReportRow, CreateReport, Complaint, ReportExists
    <2>2. /\ report'[r].about = s
          /\ \A t \in Report \ {r} : report'[t].about = report[t].about
      BY <1>0, <1>6 DEF ReportsTyped, ReportRow, CreateReport
    <2>3. Stage(s) # "none"
      BY <1>6 DEF Stage, Exists, ListApproved
    <2>4. Promise!File(r, s)
      BY <1>1, <1>6, <2>1, <2>2, <2>3 DEF Promise!File, SameRows
    <2> QED
      BY <2>4 DEF Promise!Next
  <1>7. ASSUME UNCHANGED submission, NEW R \in SUBSET Report,
               \A r \in R : Complaint(r) = "open" /\ Complaint(r)' = "settled",
               \A r \in Report \ R : Complaint(r)' = Complaint(r),
               \A r \in Report : report'[r].about = report[r].about
        PROVE  Promise!Next
    <2>1. Promise!Settle(R)
      BY <1>1, <1>7 DEF Promise!Settle, SameRows
    <2> QED
      BY <2>1 DEF Promise!Next
  <1>8. ASSUME UNCHANGED submission, NEW r \in Report, ReportExists(r),
               SetReportStatus(r, "dismissed")
        PROVE  Promise!Next
    <2> DEFINE R == {t \in {r} : Open(t)}
    <2>1. \A t \in R : Complaint(t) = "open" /\ Complaint(t)' = "settled"
      BY <1>0, <1>8 DEF ReportsTyped, ReportRow, SetReportStatus, Complaint, Open
    <2>2. \A t \in Report \ R : Complaint(t)' = Complaint(t)
      BY <1>0, <1>8 DEF ReportsTyped, ReportRow, SetReportStatus, Complaint, Open, ReportExists
    <2>3. \A t \in Report : report'[t].about = report[t].about
      BY <1>0, <1>8 DEF ReportsTyped, ReportRow, SetReportStatus
    <2>4. R \in SUBSET Report
      OBVIOUS
    <2> HIDE DEF R
    <2> QED
      BY <1>7, <1>8, <2>1, <2>2, <2>3, <2>4
  <1>9. ASSUME UNCHANGED submission, NEW s \in Submission, CloseReportsForSubmission(s)
        PROVE  Promise!Next
    <2> DEFINE R == {t \in Report : Open(t) /\ report[t].about = s}
    <2>0. \A t \in Report :
             report'[t] = IF report[t].status = "open" /\ report[t].about = s
                          THEN [report[t] EXCEPT !.status = "actioned"]
                          ELSE report[t]
      BY <1>9 DEF CloseReportsForSubmission
    <2>1. \A t \in R : Complaint(t) = "open" /\ Complaint(t)' = "settled"
      BY <1>0, <2>0 DEF ReportsTyped, ReportRow, Complaint, Open
    <2>2. \A t \in Report \ R : Complaint(t)' = Complaint(t)
      BY <2>0 DEF Complaint, Open
    <2>3. \A t \in Report : report'[t].about = report[t].about
      BY <1>0, <2>0 DEF ReportsTyped, ReportRow
    <2>4. R \in SUBSET Report
      OBVIOUS
    <2> HIDE DEF R
    <2> QED
      BY <1>7, <1>9, <2>1, <2>2, <2>3, <2>4
  <1>10. UNCHANGED report => SameReports
    BY DEF SameReports
  <1>11. UNCHANGED submission => SameRows
    BY DEF SameRows
  <1> QED
    BY <1>3, <1>4, <1>5, <1>6, <1>8, <1>9, <1>10, <1>11, SubmissionStep, ReportStep

\* Whatever its threads, its review channel, its repair runs and its restarts
\* do, the marketplace keeps the promise of Moderation.
THEOREM ModerationImplemented == Spec => ImplementsModeration
  <1>1. Init => Promise!Init
    <2> SUFFICES ASSUME Init PROVE Promise!Init
      OBVIOUS
    <2>1. \A s \in Submission : /\ submission[s].status = "absent"
                                /\ submission[s].reviewedBy = Nobody
      BY DEF Init, StoreInit, NoSubmissionRow
    <2>2. \A r \in Report : /\ report[r].status = "absent"
                            /\ report[r].about = NoSubmission
      BY DEF Init, StoreInit, NoReportRow
    <2>3. \A s \in Submission : Stage(s) = "none"
      BY <2>1 DEF Stage, ListApproved
    <2>4. \A r \in Report : Complaint(r) = "none"
      BY <2>2 DEF Complaint
    <2> QED
      BY <2>1, <2>2, <2>3, <2>4 DEF Promise!Init
  <1>2. IInv /\ Undecided /\ [Next]_vars => [Promise!Next]_(Promise!absvars)
    BY Implementation
  <1> QED
    BY <1>1, <1>2, Invariance, UndecidedInvariant, PTL
    DEF Spec, ImplementsModeration, Promise!Spec
=============================================================================
