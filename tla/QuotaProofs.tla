---------------------------- MODULE QuotaProofs ----------------------------
(* The three quota bounds of Marketplace, for every number of threads,     *)
(* templates and reports and for every quota.                              *)
EXTENDS MarketplaceProofs

-----------------------------------------------------------------------------
(* Counting.  A row counts against a quota; a thread past the check holds  *)
(* a claim on one more row.                                                *)

\* Nothing new counts and no new claim is made.
LEMMA Shrinking ==
  ASSUME NEW Rows, NEW Claims, NEW Rows2, NEW Claims2,
         IsFiniteSet(Rows), IsFiniteSet(Claims), Rows2 \subseteq Rows, Claims2 \subseteq Claims
  PROVE  Cardinality(Rows2) + Cardinality(Claims2) <= Cardinality(Rows) + Cardinality(Claims)
  <1>1. /\ IsFiniteSet(Rows2) /\ Cardinality(Rows2) <= Cardinality(Rows)
        /\ IsFiniteSet(Claims2) /\ Cardinality(Claims2) <= Cardinality(Claims)
    BY FS_Subset
  <1>2. /\ Cardinality(Rows) \in Nat /\ Cardinality(Claims) \in Nat
        /\ Cardinality(Rows2) \in Nat /\ Cardinality(Claims2) \in Nat
    BY <1>1, FS_CardinalityType
  <1> QED
    BY <1>1, <1>2

\* A thread trades its claim for a row.
LEMMA Trading ==
  ASSUME NEW Rows, NEW Claims, NEW Rows2, NEW Claims2, NEW row, NEW w \in Claims,
         IsFiniteSet(Rows), IsFiniteSet(Claims),
         Rows2 \subseteq Rows \cup {row}, Claims2 \subseteq Claims \ {w}
  PROVE  Cardinality(Rows2) + Cardinality(Claims2) <= Cardinality(Rows) + Cardinality(Claims)
  <1>1. /\ IsFiniteSet(Rows \cup {row})
        /\ Cardinality(Rows \cup {row}) <= Cardinality(Rows) + 1
    <2>1. /\ IsFiniteSet(Rows \cup {row})
          /\ Cardinality(Rows \cup {row})
               = IF row \in Rows THEN Cardinality(Rows) ELSE Cardinality(Rows) + 1
      BY FS_AddElement
    <2>2. Cardinality(Rows) \in Nat
      BY FS_CardinalityType
    <2> QED
      BY <2>1, <2>2
  <1>2. /\ IsFiniteSet(Claims \ {w})
        /\ Cardinality(Claims \ {w}) = Cardinality(Claims) - 1
    BY FS_RemoveElement
  <1>3. Cardinality(Rows2) + Cardinality(Claims2)
          <= Cardinality(Rows \cup {row}) + Cardinality(Claims \ {w})
    BY <1>1, <1>2, Shrinking
  <1>4. IsFiniteSet(Rows2) /\ IsFiniteSet(Claims2)
    BY <1>1, <1>2, FS_Subset
  <1>5. /\ Cardinality(Rows) \in Nat /\ Cardinality(Claims) \in Nat
        /\ Cardinality(Rows2) \in Nat /\ Cardinality(Claims2) \in Nat
        /\ Cardinality(Rows \cup {row}) \in Nat /\ Cardinality(Claims \ {w}) \in Nat
    BY <1>1, <1>2, <1>4, FS_CardinalityType
  <1> QED
    BY <1>1, <1>2, <1>3, <1>5

\* A claim is granted: there is room, and no more claims than threads.
LEMMA Claiming ==
  ASSUME NEW Rows, NEW Claims, NEW quota \in Nat,
         IsFiniteSet(Rows), Cardinality(Rows) < quota, Claims \subseteq Worker
  PROVE  Cardinality(Rows) + Cardinality(Claims) < quota + Cardinality(Worker)
  <1>1. IsFiniteSet(Claims) /\ Cardinality(Claims) <= Cardinality(Worker)
    BY FS_Subset, WorkersAreFinite
  <1>2. /\ Cardinality(Rows) \in Nat /\ Cardinality(Claims) \in Nat
        /\ Cardinality(Worker) \in Nat
    BY <1>1, FS_CardinalityType, WorkersAreFinite
  <1> QED
    BY <1>1, <1>2

LEMMA Finiteness ==
  ASSUME NEW i
  PROVE  /\ IsFiniteSet(PendingOf(i)) /\ IsFiniteSet(PastPendingCheck(i))
         /\ IsFiniteSet(RecentOf(i)) /\ IsFiniteSet(PastDailyCheck(i))
         /\ IsFiniteSet(RecentReportsOf(i)) /\ IsFiniteSet(PastReportCheck(i))
  <1>1. /\ PendingOf(i) \subseteq Submission /\ RecentOf(i) \subseteq Submission
        /\ RecentReportsOf(i) \subseteq Report
        /\ PastPendingCheck(i) \subseteq Worker /\ PastDailyCheck(i) \subseteq Worker
        /\ PastReportCheck(i) \subseteq Worker
    BY DEF PendingOf, RecentOf, RecentReportsOf, PastPendingCheck, PastDailyCheck,
           PastReportCheck
  <1> QED
    BY <1>1, FS_Subset, WorkersAreFinite

-----------------------------------------------------------------------------
(* Which rows count after a step.                                          *)

SubmissionsCountLess ==
    \A i \in Install : /\ PendingOf(i)' \subseteq PendingOf(i)
                       /\ RecentOf(i)' \subseteq RecentOf(i)

ReportsCountLess ==
    \A i \in Install : RecentReportsOf(i)' \subseteq RecentReportsOf(i)

LEMMA SubmissionsCount ==
  ASSUME IInv, [Next]_vars
  PROVE  SubmissionsCountLess \/ \E w \in Worker : SubmitCreate(w)
  <1> USE DEF SubmissionsCountLess, PendingOf, RecentOf
  <1>0. SubmissionsTyped
    BY Typed
  <1>1. ASSUME NEW s, NEW status \in Statuses \ {"pending"}, NEW by,
               SetStatus(s, status, by)
        PROVE  SubmissionsCountLess
    BY <1>0, <1>1 DEF SubmissionsTyped, SubmissionRow, SetStatus
  <1>2. ASSUME NEW s, NEW m, SetDiscordMessage(s, m)
        PROVE  SubmissionsCountLess
    BY <1>0, <1>2 DEF SubmissionsTyped, SubmissionRow, SetDiscordMessage
  <1>3. CASE UNCHANGED submission
    BY <1>3
  <1>4. CASE \E w \in Worker : SubmitRecord(w)
    BY <1>2, <1>4 DEF SubmitRecord
  <1>5. CASE \E x \in inflight : HandleApprove(x) \/ HandleRejectModal(x) \/ HandleRevoke(x)
    BY <1>1, <1>5 DEF HandleApprove, HandleRejectModal, HandleRevoke, Statuses
  <1>6. CASE \E s \in Submission, status \in Statuses \ {"pending"} : Moderate(s, status)
    BY <1>1, <1>6 DEF Moderate
  <1>7. CASE \E j \in Job : RepairRecord(j)
    BY <1>2, <1>7 DEF RepairRecord
  <1>8. CASE RowsAge
    <2>1. ASSUME NEW s \in Submission, SubmissionAges(s)
          PROVE  SubmissionsCountLess
      BY <1>0, <2>1 DEF SubmissionsTyped, SubmissionRow, SubmissionAges
    <2> QED
      BY <1>3, <1>8, <2>1 DEF RowsAge, ReportAges
  <1> QED
    BY <1>3, <1>4, <1>5, <1>6, <1>7, <1>8, SubmissionChanges

LEMMA ReportsCount ==
  ASSUME IInv, [Next]_vars
  PROVE  ReportsCountLess \/ \E w \in Worker : ReportCreate(w)
  <1> USE DEF ReportsCountLess, RecentReportsOf
  <1>0. ReportsTyped
    BY Typed
  <1>1. ASSUME NEW r, NEW m, SetReportDiscordMessage(r, m)
        PROVE  ReportsCountLess
    BY <1>0, <1>1 DEF ReportsTyped, ReportRow, SetReportDiscordMessage
  <1>2. CASE UNCHANGED report
    BY <1>2
  <1>3. CASE \E w \in Worker : ReportRecord(w)
    BY <1>1, <1>3 DEF ReportRecord
  <1>4. CASE \E x \in inflight : HandleDismiss(x)
    BY <1>0, <1>4 DEF HandleDismiss, SetReportStatus, ReportsTyped, ReportRow
  <1>5. CASE RevokeCloseReports
    <2>1. \A r \in Report : /\ report'[r].install = report[r].install
                            /\ report'[r].recent = report[r].recent
      BY <1>0, <1>5 DEF RevokeCloseReports, CloseReportsForSubmission, ReportsTyped, ReportRow
    <2> QED
      BY <2>1
  <1>6. CASE \E j \in Job : RepairRecordReport(j)
    BY <1>1, <1>6 DEF RepairRecordReport
  <1>7. CASE RowsAge
    <2>1. ASSUME NEW r \in Report, ReportAges(r)
          PROVE  ReportsCountLess
      BY <1>0, <2>1 DEF ReportsTyped, ReportRow, ReportAges
    <2> QED
      BY <1>2, <1>7, <2>1 DEF RowsAge, SubmissionAges
  <1> QED
    BY <1>2, <1>3, <1>4, <1>5, <1>6, <1>7, ReportChanges

-----------------------------------------------------------------------------
(* Which threads hold a claim after a step.                                *)

PendingClaimsLess == \A i \in Install : PastPendingCheck(i)' \subseteq PastPendingCheck(i)
DailyClaimsLess == \A i \in Install : PastDailyCheck(i)' \subseteq PastDailyCheck(i)
ReportClaimsLess == \A i \in Install : PastReportCheck(i)' \subseteq PastReportCheck(i)
ClaimsLess == PendingClaimsLess /\ DailyClaimsLess /\ ReportClaimsLess

LEMMA ThreadMoves ==
  ASSUME IInv, NEW w \in Worker, NEW k, Become(w, k)
  PROVE  /\ k.pc \notin {"daily", "create"} => PendingClaimsLess
         /\ worker[w].pc \in {"daily", "create"} /\ k.install = worker[w].install
               => PendingClaimsLess
         /\ k.pc # "create" => DailyClaimsLess
         /\ k.pc # "reportCreate" => ReportClaimsLess
  <1>1. /\ worker'[w] = k
        /\ \A v \in Worker \ {w} : worker'[v] = worker[v]
    BY DEF Become, IInv, TypeOK
  <1>2. /\ k.pc \notin {"daily", "create"} => PendingClaimsLess
        /\ worker[w].pc \in {"daily", "create"} /\ k.install = worker[w].install
               => PendingClaimsLess
    BY <1>1 DEF PendingClaimsLess, PastPendingCheck
  <1>3. k.pc # "create" => DailyClaimsLess
    BY <1>1 DEF DailyClaimsLess, PastDailyCheck
  <1>4. k.pc # "reportCreate" => ReportClaimsLess
    BY <1>1 DEF ReportClaimsLess, PastReportCheck
  <1> QED
    BY <1>2, <1>3, <1>4

LEMMA Claims ==
  ASSUME IInv, [Next]_vars
  PROVE  /\ PendingClaimsLess \/ \E w \in Worker, i \in Install : SubmitBegin(w, i)
         /\ DailyClaimsLess \/ \E w \in Worker : SubmitCheckDaily(w)
         /\ ReportClaimsLess \/ \E w \in Worker : ReportCheckDaily(w)
  <1>1. CASE UNCHANGED worker
    BY <1>1 DEF PendingClaimsLess, DailyClaimsLess, ReportClaimsLess, PastPendingCheck,
                PastDailyCheck, PastReportCheck
  <1>2. CASE Restart
    BY <1>2 DEF Restart, IdleWorker, PendingClaimsLess, DailyClaimsLess, ReportClaimsLess,
                PastPendingCheck, PastDailyCheck, PastReportCheck
  <1>3. ASSUME NEW w \in Worker, WorkerNext(w)
        PROVE  /\ PendingClaimsLess \/ \E i \in Install : SubmitBegin(w, i)
               /\ DailyClaimsLess \/ SubmitCheckDaily(w)
               /\ ReportClaimsLess \/ ReportCheckDaily(w)
    <2>0. worker[w] \in WorkerState
      BY DEF IInv, TypeOK
    <2>1. Finish(w) => ClaimsLess
      <3>1. IdleWorker.pc = "idle"
        BY DEF IdleWorker
      <3> QED
        BY <3>1, ThreadMoves DEF Finish, ClaimsLess
    <2>2. ASSUME NEW i \in Install, SubmitBegin(w, i)
          PROVE  DailyClaimsLess /\ ReportClaimsLess
      <3> DEFINE k == [worker[w] EXCEPT !.pc = "daily", !.install = i]
      <3>1. k.pc = "daily"
        BY <2>0 DEF WorkerState
      <3> HIDE DEF k
      <3> QED
        BY <2>2, <3>1, ThreadMoves DEF SubmitBegin, k
    <2>3. CASE SubmitCheckDaily(w)
      <3> DEFINE k == [worker[w] EXCEPT !.pc = "create"]
      <3>1. k.pc = "create" /\ k.install = worker[w].install
        BY <2>0 DEF WorkerState
      <3> HIDE DEF k
      <3>2. Step(w, "create") => PendingClaimsLess /\ ReportClaimsLess
        BY <2>3, <3>1, ThreadMoves DEF SubmitCheckDaily, Step, k
      <3> QED
        BY <2>1, <2>3, <3>2 DEF SubmitCheckDaily, ClaimsLess
    <2>4. CASE SubmitCreate(w)
      <3>1. PICK s \in Submission :
               Become(w, [worker[w] EXCEPT !.pc = "announce", !.sub = s])
        BY <2>4 DEF SubmitCreate
      <3> DEFINE k == [worker[w] EXCEPT !.pc = "announce", !.sub = s]
      <3>2. k.pc = "announce"
        BY <2>0 DEF WorkerState
      <3> HIDE DEF k
      <3> QED
        BY <3>1, <3>2, ThreadMoves DEF k
    <2>5. CASE SubmitAnnounce(w)
      <3> DEFINE k == [worker[w] EXCEPT !.pc = "record", !.msg = Len(channel')]
      <3>1. k.pc = "record"
        BY <2>0 DEF WorkerState
      <3> HIDE DEF k
      <3>2. Finish(w) \/ Become(w, k)
        BY <2>5 DEF SubmitAnnounce, k
      <3> QED
        BY <2>1, <3>1, <3>2, ThreadMoves DEF ClaimsLess
    <2>6. ASSUME NEW i, NEW s, ReportBegin(w, i, s)
          PROVE  ClaimsLess
      <3> DEFINE k == [worker[w] EXCEPT !.pc = "reportDaily", !.install = i, !.sub = s]
      <3>1. k.pc = "reportDaily"
        BY <2>0 DEF WorkerState
      <3> HIDE DEF k
      <3> QED
        BY <2>6, <3>1, ThreadMoves DEF ReportBegin, ClaimsLess, k
    <2>7. CASE ReportCheckDaily(w)
      <3> DEFINE k == [worker[w] EXCEPT !.pc = "reportCreate"]
      <3>1. k.pc = "reportCreate"
        BY <2>0 DEF WorkerState
      <3> HIDE DEF k
      <3>2. Step(w, "reportCreate") => PendingClaimsLess /\ DailyClaimsLess
        BY <3>1, ThreadMoves DEF Step, k
      <3> QED
        BY <2>1, <2>7, <3>2 DEF ReportCheckDaily, ClaimsLess
    <2>8. CASE ReportCreate(w)
      <3>1. PICK r \in Report :
               Become(w, [worker[w] EXCEPT !.pc = "reportAnnounce", !.rep = r])
        BY <2>8 DEF ReportCreate
      <3> DEFINE k == [worker[w] EXCEPT !.pc = "reportAnnounce", !.rep = r]
      <3>2. k.pc = "reportAnnounce"
        BY <2>0 DEF WorkerState
      <3> HIDE DEF k
      <3> QED
        BY <3>1, <3>2, ThreadMoves DEF k
    <2>9. CASE ReportAnnounce(w)
      <3> DEFINE k == [worker[w] EXCEPT !.pc = "reportRecord", !.msg = Len(channel')]
      <3>1. k.pc = "reportRecord"
        BY <2>0 DEF WorkerState
      <3> HIDE DEF k
      <3>2. Finish(w) \/ Become(w, k)
        BY <2>9 DEF ReportAnnounce, k
      <3> QED
        BY <2>1, <3>1, <3>2, ThreadMoves DEF ClaimsLess
    <2>10. CASE SubmitAbort(w) \/ SubmitRecord(w) \/ ReportRecord(w)
      BY <2>1, <2>10 DEF SubmitAbort, SubmitRecord, ReportRecord, ClaimsLess
    <2> QED
      BY <1>3, <2>2, <2>3, <2>4, <2>5, <2>6, <2>7, <2>8, <2>9, <2>10
      DEF WorkerNext, ClaimsLess
  <1> QED
    BY <1>1, <1>2, <1>3, WorkerChanges

-----------------------------------------------------------------------------
(* The bounds.                                                             *)

\* One quota through one step: what counts and what is claimed either shrinks,
\* or a claim becomes a row, or a claim is granted below the quota.
LEMMA QuotaKept ==
  ASSUME NEW Rows, NEW Holders, NEW Rows2, NEW Holders2, NEW quota \in Nat,
         IsFiniteSet(Rows), IsFiniteSet(Holders), IsFiniteSet(Rows2), IsFiniteSet(Holders2),
         Holders2 \subseteq Worker,
         Cardinality(Rows) + Cardinality(Holders) < quota + Cardinality(Worker),
         \/ Rows2 \subseteq Rows /\ Holders2 \subseteq Holders
         \/ \E row, w : /\ w \in Holders
                        /\ Rows2 \subseteq Rows \cup {row}
                        /\ Holders2 \subseteq Holders \ {w}
         \/ Rows2 = Rows /\ Cardinality(Rows) < quota
  PROVE  Cardinality(Rows2) + Cardinality(Holders2) < quota + Cardinality(Worker)
  <1>1. /\ Cardinality(Rows) \in Nat /\ Cardinality(Holders) \in Nat
        /\ Cardinality(Rows2) \in Nat /\ Cardinality(Holders2) \in Nat
        /\ Cardinality(Worker) \in Nat
    BY FS_CardinalityType, WorkersAreFinite
  <1>2. CASE Rows2 \subseteq Rows /\ Holders2 \subseteq Holders
    <2>1. Cardinality(Rows2) + Cardinality(Holders2) <= Cardinality(Rows) + Cardinality(Holders)
      BY <1>2, Shrinking
    <2> QED
      BY <1>1, <2>1
  <1>3. CASE \E row, w : /\ w \in Holders
                         /\ Rows2 \subseteq Rows \cup {row}
                         /\ Holders2 \subseteq Holders \ {w}
    <2>1. PICK row, w : /\ w \in Holders
                        /\ Rows2 \subseteq Rows \cup {row}
                        /\ Holders2 \subseteq Holders \ {w}
      BY <1>3
    <2>2. Cardinality(Rows2) + Cardinality(Holders2) <= Cardinality(Rows) + Cardinality(Holders)
      BY <2>1, Trading
    <2> QED
      BY <1>1, <2>2
  <1>4. CASE Rows2 = Rows /\ Cardinality(Rows) < quota
    BY <1>4, Claiming
  <1> QED
    BY <1>2, <1>3, <1>4

LEMMA PendingQuotaStep ==
  ASSUME IInv, [Next]_vars, NEW i \in Install,
         Cardinality(PendingOf(i)) + Cardinality(PastPendingCheck(i))
             < MaxPending + Cardinality(Worker)
  PROVE  Cardinality(PendingOf(i)') + Cardinality(PastPendingCheck(i)')
             < MaxPending + Cardinality(Worker)
  <1>1. /\ MaxPending \in Nat
        /\ PastPendingCheck(i)' \subseteq Worker
        /\ PendingOf(i)' \subseteq Submission
    BY QuotasArePositive DEF PastPendingCheck, PendingOf
  <1>2. IsFiniteSet(PendingOf(i)') /\ IsFiniteSet(PastPendingCheck(i)')
    BY <1>1, FS_Subset, WorkersAreFinite
  <1>3. CASE \E w \in Worker : SubmitCreate(w)
    <2>1. PICK w \in Worker : SubmitCreate(w)
      BY <1>3
    <2>2. PICK s \in Submission :
             /\ CreateSubmission(s, worker[w].install)
             /\ Become(w, [worker[w] EXCEPT !.pc = "announce", !.sub = s])
      BY <2>1 DEF SubmitCreate
    <2>3. submission \in [Submission -> SubmissionRow] /\ worker \in [Worker -> WorkerState]
      BY DEF IInv, TypeOK, StoreTypeOK
    <2>4. PendingOf(i)' \subseteq PendingOf(i) \cup {s}
      BY <2>2, <2>3 DEF CreateSubmission, PendingOf
    <2>5. PastPendingCheck(i)' \subseteq PastPendingCheck(i) \ {w}
      <3>1. /\ worker'[w].pc = "announce"
            /\ \A v \in Worker \ {w} : worker'[v] = worker[v]
        BY <2>2, <2>3 DEF Become, WorkerState
      <3> QED
        BY <3>1 DEF PastPendingCheck
    <2>6. CASE worker[w].install = i
      <3>1. w \in PastPendingCheck(i)
        BY <2>1, <2>6 DEF SubmitCreate, PastPendingCheck
      <3> QED
        BY <1>1, <1>2, <2>4, <2>5, <3>1, Finiteness, QuotaKept
    <2>7. CASE worker[w].install # i
      <3>1. PendingOf(i)' \subseteq PendingOf(i)
        BY <2>2, <2>3, <2>7 DEF CreateSubmission, PendingOf
      <3> QED
        BY <1>1, <1>2, <2>5, <3>1, Finiteness, QuotaKept
    <2> QED
      BY <2>6, <2>7
  <1>4. ASSUME NEW w \in Worker, NEW j \in Install, SubmitBegin(w, j)
        PROVE  Cardinality(PendingOf(i)') + Cardinality(PastPendingCheck(i)')
                   < MaxPending + Cardinality(Worker)
    <2>1. PendingOf(i)' = PendingOf(i)
      BY <1>4 DEF SubmitBegin, PendingOf
    <2>2. CASE j = i
      <3>1. Cardinality(PendingOf(i)) < MaxPending
        BY <1>4, <2>2 DEF SubmitBegin, PendingCount
      <3> QED
        BY <1>1, <1>2, <2>1, <3>1, Finiteness, QuotaKept
    <2>3. CASE j # i
      <3>1. worker \in [Worker -> WorkerState]
        BY DEF IInv, TypeOK
      <3>2. /\ worker'[w].install = j
            /\ \A v \in Worker \ {w} : worker'[v] = worker[v]
        BY <1>4, <3>1 DEF SubmitBegin, Become, WorkerState
      <3>3. PastPendingCheck(i)' \subseteq PastPendingCheck(i)
        BY <2>3, <3>2 DEF PastPendingCheck
      <3> QED
        BY <1>1, <1>2, <2>1, <3>3, Finiteness, QuotaKept
    <2> QED
      BY <2>2, <2>3
  <1>5. CASE SubmissionsCountLess /\ PendingClaimsLess
    <2>1. PendingOf(i)' \subseteq PendingOf(i) /\ PastPendingCheck(i)' \subseteq PastPendingCheck(i)
      BY <1>5 DEF SubmissionsCountLess, PendingClaimsLess
    <2> QED
      BY <1>1, <1>2, <2>1, Finiteness, QuotaKept
  <1> QED
    BY <1>3, <1>4, <1>5, SubmissionsCount, Claims

LEMMA DailyQuotaStep ==
  ASSUME IInv, [Next]_vars, NEW i \in Install,
         Cardinality(RecentOf(i)) + Cardinality(PastDailyCheck(i))
             < MaxDaily + Cardinality(Worker)
  PROVE  Cardinality(RecentOf(i)') + Cardinality(PastDailyCheck(i)')
             < MaxDaily + Cardinality(Worker)
  <1>1. /\ MaxDaily \in Nat
        /\ PastDailyCheck(i)' \subseteq Worker
        /\ RecentOf(i)' \subseteq Submission
    BY QuotasArePositive DEF PastDailyCheck, RecentOf
  <1>2. IsFiniteSet(RecentOf(i)') /\ IsFiniteSet(PastDailyCheck(i)')
    BY <1>1, FS_Subset, WorkersAreFinite
  <1>3. CASE \E w \in Worker : SubmitCreate(w)
    <2>1. PICK w \in Worker : SubmitCreate(w)
      BY <1>3
    <2>2. PICK s \in Submission :
             /\ CreateSubmission(s, worker[w].install)
             /\ Become(w, [worker[w] EXCEPT !.pc = "announce", !.sub = s])
      BY <2>1 DEF SubmitCreate
    <2>3. submission \in [Submission -> SubmissionRow] /\ worker \in [Worker -> WorkerState]
      BY DEF IInv, TypeOK, StoreTypeOK
    <2>4. RecentOf(i)' \subseteq RecentOf(i) \cup {s}
      BY <2>2, <2>3 DEF CreateSubmission, RecentOf
    <2>5. PastDailyCheck(i)' \subseteq PastDailyCheck(i) \ {w}
      <3>1. /\ worker'[w].pc = "announce"
            /\ \A v \in Worker \ {w} : worker'[v] = worker[v]
        BY <2>2, <2>3 DEF Become, WorkerState
      <3> QED
        BY <3>1 DEF PastDailyCheck
    <2>6. CASE worker[w].install = i
      <3>1. w \in PastDailyCheck(i)
        BY <2>1, <2>6 DEF SubmitCreate, PastDailyCheck
      <3> QED
        BY <1>1, <1>2, <2>4, <2>5, <3>1, Finiteness, QuotaKept
    <2>7. CASE worker[w].install # i
      <3>1. RecentOf(i)' \subseteq RecentOf(i)
        BY <2>2, <2>3, <2>7 DEF CreateSubmission, RecentOf
      <3> QED
        BY <1>1, <1>2, <2>5, <3>1, Finiteness, QuotaKept
    <2> QED
      BY <2>6, <2>7
  <1>4. ASSUME NEW w \in Worker, SubmitCheckDaily(w)
        PROVE  Cardinality(RecentOf(i)') + Cardinality(PastDailyCheck(i)')
                   < MaxDaily + Cardinality(Worker)
    <2>1. RecentOf(i)' = RecentOf(i)
      BY <1>4 DEF SubmitCheckDaily, RecentOf
    <2>2. worker \in [Worker -> WorkerState]
      BY DEF IInv, TypeOK
    <2>3. CASE worker[w].install = i /\ Cardinality(RecentOf(i)) < MaxDaily
      BY <1>1, <1>2, <2>1, <2>3, Finiteness, QuotaKept
    <2>4. CASE worker[w].install # i /\ Step(w, "create")
      <3>1. /\ worker'[w].install # i
            /\ \A v \in Worker \ {w} : worker'[v] = worker[v]
        BY <2>2, <2>4 DEF Step, Become, WorkerState
      <3>2. PastDailyCheck(i)' \subseteq PastDailyCheck(i)
        BY <3>1 DEF PastDailyCheck
      <3> QED
        BY <1>1, <1>2, <2>1, <3>2, Finiteness, QuotaKept
    <2>5. CASE Finish(w)
      <3>1. /\ worker'[w].pc = "idle"
            /\ \A v \in Worker \ {w} : worker'[v] = worker[v]
        BY <2>2, <2>5 DEF Finish, Become, IdleWorker
      <3>2. PastDailyCheck(i)' \subseteq PastDailyCheck(i)
        BY <3>1 DEF PastDailyCheck
      <3> QED
        BY <1>1, <1>2, <2>1, <3>2, Finiteness, QuotaKept
    <2> QED
      BY <1>4, <2>3, <2>4, <2>5 DEF SubmitCheckDaily, DailyCount
  <1>5. CASE SubmissionsCountLess /\ DailyClaimsLess
    <2>1. RecentOf(i)' \subseteq RecentOf(i) /\ PastDailyCheck(i)' \subseteq PastDailyCheck(i)
      BY <1>5 DEF SubmissionsCountLess, DailyClaimsLess
    <2> QED
      BY <1>1, <1>2, <2>1, Finiteness, QuotaKept
  <1> QED
    BY <1>3, <1>4, <1>5, SubmissionsCount, Claims

LEMMA ReportQuotaStep ==
  ASSUME IInv, [Next]_vars, NEW i \in Install,
         Cardinality(RecentReportsOf(i)) + Cardinality(PastReportCheck(i))
             < MaxReports + Cardinality(Worker)
  PROVE  Cardinality(RecentReportsOf(i)') + Cardinality(PastReportCheck(i)')
             < MaxReports + Cardinality(Worker)
  <1>1. /\ MaxReports \in Nat
        /\ PastReportCheck(i)' \subseteq Worker
        /\ RecentReportsOf(i)' \subseteq Report
    BY QuotasArePositive DEF PastReportCheck, RecentReportsOf
  <1>2. IsFiniteSet(RecentReportsOf(i)') /\ IsFiniteSet(PastReportCheck(i)')
    BY <1>1, FS_Subset, WorkersAreFinite
  <1>3. CASE \E w \in Worker : ReportCreate(w)
    <2>1. PICK w \in Worker : ReportCreate(w)
      BY <1>3
    <2>2. PICK r \in Report :
             /\ CreateReport(r, worker[w].sub, worker[w].install)
             /\ Become(w, [worker[w] EXCEPT !.pc = "reportAnnounce", !.rep = r])
      BY <2>1 DEF ReportCreate
    <2>3. report \in [Report -> ReportRow] /\ worker \in [Worker -> WorkerState]
      BY DEF IInv, TypeOK, StoreTypeOK
    <2>4. RecentReportsOf(i)' \subseteq RecentReportsOf(i) \cup {r}
      BY <2>2, <2>3 DEF CreateReport, RecentReportsOf
    <2>5. PastReportCheck(i)' \subseteq PastReportCheck(i) \ {w}
      <3>1. /\ worker'[w].pc = "reportAnnounce"
            /\ \A v \in Worker \ {w} : worker'[v] = worker[v]
        BY <2>2, <2>3 DEF Become, WorkerState
      <3> QED
        BY <3>1 DEF PastReportCheck
    <2>6. CASE worker[w].install = i
      <3>1. w \in PastReportCheck(i)
        BY <2>1, <2>6 DEF ReportCreate, PastReportCheck
      <3> QED
        BY <1>1, <1>2, <2>4, <2>5, <3>1, Finiteness, QuotaKept
    <2>7. CASE worker[w].install # i
      <3>1. RecentReportsOf(i)' \subseteq RecentReportsOf(i)
        BY <2>2, <2>3, <2>7 DEF CreateReport, RecentReportsOf
      <3> QED
        BY <1>1, <1>2, <2>5, <3>1, Finiteness, QuotaKept
    <2> QED
      BY <2>6, <2>7
  <1>4. ASSUME NEW w \in Worker, ReportCheckDaily(w)
        PROVE  Cardinality(RecentReportsOf(i)') + Cardinality(PastReportCheck(i)')
                   < MaxReports + Cardinality(Worker)
    <2>1. RecentReportsOf(i)' = RecentReportsOf(i)
      BY <1>4 DEF ReportCheckDaily, RecentReportsOf
    <2>2. worker \in [Worker -> WorkerState]
      BY DEF IInv, TypeOK
    <2>3. CASE worker[w].install = i /\ Cardinality(RecentReportsOf(i)) < MaxReports
      BY <1>1, <1>2, <2>1, <2>3, Finiteness, QuotaKept
    <2>4. CASE worker[w].install # i /\ Step(w, "reportCreate")
      <3>1. /\ worker'[w].install # i
            /\ \A v \in Worker \ {w} : worker'[v] = worker[v]
        BY <2>2, <2>4 DEF Step, Become, WorkerState
      <3>2. PastReportCheck(i)' \subseteq PastReportCheck(i)
        BY <3>1 DEF PastReportCheck
      <3> QED
        BY <1>1, <1>2, <2>1, <3>2, Finiteness, QuotaKept
    <2>5. CASE Finish(w)
      <3>1. /\ worker'[w].pc = "idle"
            /\ \A v \in Worker \ {w} : worker'[v] = worker[v]
        BY <2>2, <2>5 DEF Finish, Become, IdleWorker
      <3>2. PastReportCheck(i)' \subseteq PastReportCheck(i)
        BY <3>1 DEF PastReportCheck
      <3> QED
        BY <1>1, <1>2, <2>1, <3>2, Finiteness, QuotaKept
    <2>6. i # NoInstall
      BY NullsAreDistinct
    <2> QED
      BY <1>4, <2>3, <2>4, <2>5, <2>6 DEF ReportCheckDaily, DailyReportCount
  <1>5. CASE ReportsCountLess /\ ReportClaimsLess
    <2>1. /\ RecentReportsOf(i)' \subseteq RecentReportsOf(i)
          /\ PastReportCheck(i)' \subseteq PastReportCheck(i)
      BY <1>5 DEF ReportsCountLess, ReportClaimsLess
    <2> QED
      BY <1>1, <1>2, <2>1, Finiteness, QuotaKept
  <1> QED
    BY <1>3, <1>4, <1>5, ReportsCount, Claims

\* Rows that count and threads that may still add one stay together below each
\* quota plus the number of threads.
THEOREM QuotasInvariant == Spec => []QuotaInv
  <1>1. Init => QuotaInv
    <2> SUFFICES ASSUME Init, NEW i \in Install
                 PROVE  /\ Cardinality(PendingOf(i)) + Cardinality(PastPendingCheck(i))
                               < MaxPending + Cardinality(Worker)
                        /\ Cardinality(RecentOf(i)) + Cardinality(PastDailyCheck(i))
                               < MaxDaily + Cardinality(Worker)
                        /\ Cardinality(RecentReportsOf(i)) + Cardinality(PastReportCheck(i))
                               < MaxReports + Cardinality(Worker)
      BY DEF QuotaInv
    <2>1. /\ PendingOf(i) = {} /\ RecentOf(i) = {} /\ RecentReportsOf(i) = {}
          /\ PastPendingCheck(i) = {} /\ PastDailyCheck(i) = {} /\ PastReportCheck(i) = {}
      BY DEF Init, StoreInit, NoSubmissionRow, NoReportRow, IdleWorker, PendingOf, RecentOf,
             RecentReportsOf, PastPendingCheck, PastDailyCheck, PastReportCheck
    <2>2. Cardinality({}) = 0 /\ Cardinality(Worker) \in Nat
      BY FS_EmptySet, FS_CardinalityType, WorkersAreFinite
    <2> QED
      BY <2>1, <2>2, QuotasArePositive
  <1>2. IInv /\ QuotaInv /\ [Next]_vars => QuotaInv'
    <2> SUFFICES ASSUME IInv, QuotaInv, [Next]_vars PROVE QuotaInv'
      OBVIOUS
    <2>1. ASSUME NEW i \in Install
          PROVE  /\ Cardinality(PendingOf(i)') + Cardinality(PastPendingCheck(i)')
                        < MaxPending + Cardinality(Worker)
                 /\ Cardinality(RecentOf(i)') + Cardinality(PastDailyCheck(i)')
                        < MaxDaily + Cardinality(Worker)
                 /\ Cardinality(RecentReportsOf(i)') + Cardinality(PastReportCheck(i)')
                        < MaxReports + Cardinality(Worker)
      BY PendingQuotaStep, DailyQuotaStep, ReportQuotaStep DEF QuotaInv
    <2> QED
      BY <2>1 DEF QuotaInv
  <1> QED
    BY <1>1, <1>2, Invariance, PTL DEF Spec

LEMMA QuotaInvBounds ==
  ASSUME QuotaInv
  PROVE  PendingQuotaBound /\ DailyQuotaBound /\ ReportQuotaBound
  <1> SUFFICES ASSUME NEW i \in Install
               PROVE  /\ PendingCount(i) < MaxPending + Cardinality(Worker)
                      /\ DailyCount(i) < MaxDaily + Cardinality(Worker)
                      /\ DailyReportCount(i) < MaxReports + Cardinality(Worker)
    BY DEF PendingQuotaBound, DailyQuotaBound, ReportQuotaBound
  <1>1. /\ Cardinality(PendingOf(i)) \in Nat /\ Cardinality(PastPendingCheck(i)) \in Nat
        /\ Cardinality(RecentOf(i)) \in Nat /\ Cardinality(PastDailyCheck(i)) \in Nat
        /\ Cardinality(RecentReportsOf(i)) \in Nat /\ Cardinality(PastReportCheck(i)) \in Nat
        /\ Cardinality(Worker) \in Nat
    BY Finiteness, FS_CardinalityType, WorkersAreFinite
  <1>2. i # NoInstall
    BY NullsAreDistinct
  <1> QED
    BY <1>1, <1>2, QuotasArePositive
    DEF QuotaInv, PendingCount, DailyCount, DailyReportCount

\* An install overshoots the quota on pending submissions by less than the
\* number of threads, however its requests interleave.
THEOREM PendingQuotaHolds == Spec => []PendingQuotaBound
  BY QuotasInvariant, QuotaInvBounds, PTL

\* The same for the daily quota on submissions.
THEOREM DailyQuotaHolds == Spec => []DailyQuotaBound
  BY QuotasInvariant, QuotaInvBounds, PTL

\* The same for the daily quota on takedown requests.
THEOREM ReportQuotaHolds == Spec => []ReportQuotaBound
  BY QuotasInvariant, QuotaInvBounds, PTL
=============================================================================
