----------------------------- MODULE Heartbeat -----------------------------
(***************************************************************************)
(* The daily heartbeat: routes/heartbeat.py and record_heartbeat and its   *)
(* reads in stats/collector.py, over the schema of Migration.              *)
(*                                                                         *)
(* A ping is one transaction at READ COMMITTED: it upserts the install's   *)
(* row of the day and then a row per device kind, in the client's order.   *)
(* An upsert waits for another transaction that wrote the same key; what   *)
(* it wrote others see when it commits.  Keys with a NULL install are      *)
(* distinct.  Rows carry the number of the ping that wrote them last; it   *)
(* stands for the descriptive columns.                                     *)
(***************************************************************************)
EXTENDS Migration, SequencesExt

CONSTANTS
    Worker,     \* threads that serve requests
    Kind,       \* valid kinds
    NoInstall,  \* NULL: the install is missing or no UUID
    Bodies,     \* bodies of unblocked pings
    MaxKinds,   \* _MAX_KINDS
    Window,     \* days that a report looks back
    MaxPings,   \* bound: pings received
    MaxDay      \* bound: the last day

\* The kinds of a body are a list, whatever its items are.
ASSUME KindsListed ==
    /\ \A b \in Bodies : b.kinds \in Seq({b.kinds[i] : i \in DOMAIN b.kinds})
    /\ MaxKinds \in Nat
ASSUME WindowIsNatural == Window \in Nat

VARIABLES
    day,         \* UTC date
    worker,      \* the requests, with their locals
    heartbeats,  \* committed rows
    kindRows,    \* committed rows of heartbeat_kinds
    sent,        \* history: the body of every ping received
    report       \* the reports of dump_stats, with what they have read

pingVars == <<day, worker, heartbeats, kindRows, sent>>
vars == <<migrationVars, pingVars, report>>

-----------------------------------------------------------------------------
(* A body's kinds: items [kind, fw], fw 0 when it has none that is valid,  *)
(* and legacy, the versions that fw_by_kind lists for a kind.              *)

Newest(versions) == IF versions = {} THEN 0 ELSE Max(versions)

Cleaned(item, legacy) ==
    [kind |-> item.kind, fw |-> IF item.fw # 0 THEN item.fw ELSE Newest(legacy[item.kind])]

\* Valid slugs only, the first item of a kind, at most MaxKinds.
Take(body, out, item) ==
    IF \/ item.kind \notin Kind
       \/ \E i \in DOMAIN out : out[i].kind = item.kind
       \/ Len(out) >= MaxKinds
    THEN out
    ELSE Append(out, Cleaned(item, body.legacy))

CleanKinds(body) == FoldLeft(LAMBDA out, item : Take(body, out, item), <<>>, body.kinds)

-----------------------------------------------------------------------------
(* Rows.  A request is keyed like the rows it writes.                      *)

Installs == {b.install : b \in Bodies}
Request(pc, d, install, ping, wrote) ==
    [pc |-> pc, day |-> d, install |-> install, ping |-> ping, wrote |-> wrote]
Requests ==
    [pc : {"idle", "open", "kinds"}, day : Nat, install : Installs \cup {NoInstall},
     ping : Nat, wrote : Nat]
Idle == Request("idle", 0, NoInstall, 0, 0)

Continue(w, r) == worker' = [worker EXCEPT ![w] = r]

SameKey(r, s) == r.install # NoInstall /\ r.install = s.install /\ r.day = s.day
SameKind(r, s) == SameKey(r, s) /\ r.kind = s.kind

HeartbeatRow(r) == [day |-> r.day, install |-> r.install, ping |-> r.ping]

Reported(r) == CleanKinds(sent[r.ping])
KindRow(r, i) ==
    [day |-> r.day, install |-> r.install, ping |-> r.ping,
     kind |-> Reported(r)[i].kind, fw |-> Reported(r)[i].fw]

\* The keys a transaction holds: its heartbeat's from the first statement on,
\* and those of the kinds it wrote.
Open(v) == worker[v].pc = "kinds"
WroteKind(v, row) == Open(v) /\ \E i \in 1..worker[v].wrote : SameKind(KindRow(worker[v], i), row)

\* Mutation: every statement commits on its own and so holds nothing.
HeartbeatFreeAlways(w) == TRUE

HeartbeatFree(w) == \A v \in Worker \ {w} : ~(Open(v) /\ SameKey(worker[v], worker[w]))

NextKind(w) == KindRow(worker[w], worker[w].wrote + 1)
KindFree(w) == \A v \in Worker \ {w} : ~WroteKind(v, NextKind(w))

-----------------------------------------------------------------------------
(* A report of dump_stats reads the active installs and, in a later query  *)
(* on another connection, the installs of each kind, both over the last    *)
(* `days` days.                                                            *)

Recent(rows, days) == {r \in rows : r.install # NoInstall /\ r.day >= day - days}
ActiveInstalls(days) == {r.install : r \in Recent(heartbeats, days)}
KindInstalls(kind, days) == {r.install : r \in {s \in Recent(kindRows, days) : s.kind = kind}}

\* active is what the first query found; since is history: the installs that
\* had a ping recorded after it.
Reading(begun, active, since) == [begun |-> begun, active |-> active, since |-> since]
Readings == [begun : BOOLEAN, active : SUBSET Installs, since : SUBSET Installs]
NotBegun == Reading(FALSE, {}, {})

Recorded(r, install) ==
    IF r.begun /\ install # NoInstall THEN [r EXCEPT !.since = @ \cup {install}] ELSE r

-----------------------------------------------------------------------------

PingInit ==
    /\ day = 0
    /\ worker = [w \in Worker |-> Idle]
    /\ heartbeats = {}
    /\ kindRows = {}
    /\ sent = <<>>

Init == MigrationInit /\ PingInit /\ report = [p \in Script |-> NotBegun]

\* record_heartbeat notes the day and opens its transaction.
Receive(w, body) ==
    /\ Serving
    /\ worker[w].pc = "idle"
    /\ Len(sent) < MaxPings
    /\ sent' = Append(sent, body)
    /\ Continue(w, Request("open", day, body.install, Len(sent) + 1, 0))
    /\ UNCHANGED <<migrationVars, day, heartbeats, kindRows, report>>

\* Mutation: the heartbeat is committed before its kinds.
UpsertHeartbeatCommitted(w) ==
    /\ worker[w].pc = "open"
    /\ HeartbeatFree(w)
    /\ heartbeats' = {r \in heartbeats : ~SameKey(r, worker[w])} \cup {HeartbeatRow(worker[w])}
    /\ Continue(w, [worker[w] EXCEPT !.pc = "kinds"])
    /\ UNCHANGED <<migrationVars, day, kindRows, sent, report>>

UpsertHeartbeat(w) ==
    /\ worker[w].pc = "open"
    /\ HeartbeatFree(w)
    /\ Continue(w, [worker[w] EXCEPT !.pc = "kinds"])
    /\ UNCHANGED <<migrationVars, day, heartbeats, kindRows, sent, report>>

UpsertKind(w) ==
    /\ Open(w)
    /\ worker[w].wrote + 1 \in DOMAIN Reported(worker[w])
    /\ KindFree(w)
    /\ Continue(w, [worker[w] EXCEPT !.wrote = @ + 1])
    /\ UNCHANGED <<migrationVars, day, heartbeats, kindRows, sent, report>>

\* Mutation: the kinds are filed under the day of their own statement.
CommitToday(w) ==
    LET written == {[KindRow(worker[w], i) EXCEPT !.day = day] : i \in 1..worker[w].wrote}
    IN /\ Open(w)
       /\ DOMAIN Reported(worker[w]) = 1..worker[w].wrote
       /\ heartbeats' = {r \in heartbeats : ~SameKey(r, worker[w])} \cup {HeartbeatRow(worker[w])}
       /\ kindRows' = {r \in kindRows : \A s \in written : ~SameKind(r, s)} \cup written
       /\ report' = [p \in Script |-> Recorded(report[p], worker[w].install)]
       /\ Continue(w, Idle)
       /\ UNCHANGED <<migrationVars, day, sent>>

\* All of them at once: a row of the same key is overwritten.
Commit(w) ==
    LET written == {KindRow(worker[w], i) : i \in 1..worker[w].wrote}
    IN /\ Open(w)
       /\ DOMAIN Reported(worker[w]) = 1..worker[w].wrote
       /\ heartbeats' = {r \in heartbeats : ~SameKey(r, worker[w])} \cup {HeartbeatRow(worker[w])}
       /\ kindRows' = {r \in kindRows : \A s \in written : ~SameKind(r, s)} \cup written
       /\ report' = [p \in Script |-> Recorded(report[p], worker[w].install)]
       /\ Continue(w, Idle)
       /\ UNCHANGED <<migrationVars, day, sent>>

\* The database fails it: a rollback, and the client gets its 204.
PingFails(w) ==
    /\ worker[w].pc # "idle"
    /\ Continue(w, Idle)
    /\ UNCHANGED <<migrationVars, day, heartbeats, kindRows, sent, report>>

NextDay ==
    /\ day < MaxDay
    /\ day' = day + 1
    /\ UNCHANGED <<migrationVars, worker, heartbeats, kindRows, sent, report>>

\* The container goes down with its open transactions.
Stop ==
    /\ StopApi
    /\ worker' = [w \in Worker |-> Idle]
    /\ UNCHANGED <<day, heartbeats, kindRows, sent, report>>

Ping(w) ==
    \/ \E body \in Bodies : Receive(w, body)
    \/ UpsertHeartbeat(w)
    \/ UpsertKind(w)
    \/ Commit(w)
    \/ PingFails(w)

\* A step of a process in init_db, or the end of a script and its report.
SchemaStep(p) ==
    /\ Migrate(p)
    /\ report' = [q \in Script |-> IF q = p THEN NotBegun ELSE report[q]]
    /\ UNCHANGED pingVars

ReadActive(p) ==
    /\ migrator[p].pc = "up"
    /\ ~report[p].begun
    /\ report' = [report EXCEPT ![p] = Reading(TRUE, ActiveInstalls(Window), {})]
    /\ UNCHANGED <<migrationVars, pingVars>>

\* Whatever KindInstalls holds now is printed.
ReadKinds(p) ==
    /\ report[p].begun
    /\ report' = [report EXCEPT ![p] = NotBegun]
    /\ UNCHANGED <<migrationVars, pingVars>>

Next ==
    \/ \E p \in Process : SchemaStep(p)
    \/ Stop
    \/ \E w \in Worker : Ping(w)
    \/ NextDay
    \/ \E p \in Script : ReadActive(p) \/ ReadKinds(p)

Spec == Init /\ [][Next]_vars

\* Docker restarts the API whenever it ends, and its init_db runs on.
FairSpec == Spec /\ WF_vars(InitDb(Api) /\ UNCHANGED <<pingVars, report>>)

-----------------------------------------------------------------------------
(* The requests and the tables as DailyReports sees them.                  *)

AsReport(r) == [ping |-> r.ping, day |-> r.day, install |-> r.install, kinds |-> Reported(r)]

Busy == {w \in Worker : worker[w].pc # "idle"}
Pending == {AsReport(worker[w]) : w \in Busy}

Reports == INSTANCE DailyReports
    WITH Report  <- {[install |-> b.install, kinds |-> CleanKinds(b)] : b \in Bodies},
         taken   <- Len(sent),
         pending <- Pending

-----------------------------------------------------------------------------
(* Properties.                                                             *)

\* Requests, rows and schema are of their types.
TypeOK ==
    /\ MigrationTypeOK
    /\ day \in Nat
    /\ sent \in Seq(Bodies)
    /\ worker \in [Worker -> Requests]
    /\ \A w \in Worker : worker[w].pc # "idle" => worker[w].ping \in 1..Len(sent)
    /\ \A h \in heartbeats : /\ h = HeartbeatRow(h) /\ h.ping \in 1..Len(sent)
                             /\ h.day \in Nat /\ h.install \in Installs \cup {NoInstall}
    /\ \A r \in kindRows : r.ping \in 1..Len(sent)
    /\ report \in [Script -> Readings]

\* The transactions that are past their first statement have different keys.
RowsExclusive ==
    \A v, w \in Worker : v # w /\ Open(v) /\ Open(w) => ~SameKey(worker[v], worker[w])

\* The API has no request while it is down.
DownIsIdle == ~Serving => \A w \in Worker : worker[w].pc = "idle"

\* A kind has a heartbeat of the same install and day.
KindsAnchored ==
    \A r \in kindRows : \E h \in heartbeats : h.install = r.install /\ h.day = r.day

\* The unique constraints (collector.py:140, :155) are never in the way of a
\* commit: an install has one row a day, and one per kind, as a body's kinds
\* are without repetitions.
KeysUnique ==
    /\ \A g, h \in heartbeats : SameKey(g, h) => g = h
    /\ \A q, r \in kindRows : SameKind(q, r) => q = r

\* While a report is under way, what its first query would find now it has
\* found or has been recorded since.
ActiveAccounted ==
    \A p \in Script :
        report[p].begun => ActiveInstalls(Window) \subseteq report[p].active \cup report[p].since

IInv ==
    /\ TypeOK /\ MigrationInv /\ RowsExclusive /\ DownIsIdle /\ KindsAnchored /\ KeysUnique
    /\ ActiveAccounted

\* Only the first statement of a ping ever waits, so two pings of an install
\* that list their kinds in different orders cannot wait for each other
\* (the heartbeat row is upserted first, collector.py:375-381).
KindsNeverWait ==
    \A w \in Worker : Open(w) /\ worker[w].wrote + 1 \in DOMAIN Reported(worker[w]) => KindFree(w)

\* The row of an install and day is one ping's through and through: every
\* kind that ping reported is there, with the firmware it reported, whatever
\* pings raced it, failed half-way or were cut off by a restart.
LatestWhole ==
    \A h \in heartbeats : \A i \in DOMAIN Reported(h) : KindRow(h, i) \in kindRows

\* An install that a report counts under a kind (dump_stats.py:170) it has
\* counted as active before (dump_stats.py:148), or a ping of the install came
\* in between: no kind is filed under a day on which its install has no
\* heartbeat, across midnight too (collector.py:345-399, 406-460).
KindsAccounted ==
    \A p \in Script, kind \in Kind :
        report[p].begun
            => KindInstalls(kind, Window) \subseteq report[p].active \cup report[p].since

\* A ping is filed whole or not at all, at most once and under the day it
\* arrived on, as if its statements were one step; "repeated pings the same
\* day collapse to a single row" (record_heartbeat, collector.py:336).
ImplementsReports == Reports!Spec
=============================================================================
