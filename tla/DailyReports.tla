---------------------------- MODULE DailyReports ----------------------------
(***************************************************************************)
(* What the daily heartbeat promises, whatever its transactions, locks and *)
(* restarts do: a report that arrives is filed whole or not at all, at     *)
(* most once, and under the day of its arrival; it takes the place of the  *)
(* install's earlier report of that day, except for kinds it does not      *)
(* list.                                                                   *)
(***************************************************************************)
EXTENDS Naturals, Sequences

CONSTANTS
    Report,    \* what installs send: [install, kinds], kinds a sequence of [kind, fw]
    NoInstall  \* a report without an install replaces nothing

VARIABLES
    day,
    taken,       \* how many reports have arrived
    pending,     \* those that are not filed yet
    heartbeats,  \* the latest report of each install and day
    kindRows     \* and of each install, day and kind

reportVars == <<day, taken, pending, heartbeats, kindRows>>

Arrived(n, d, r) == [ping |-> n, day |-> d, install |-> r.install, kinds |-> r.kinds]

Replaces(p, row) == row.install # NoInstall /\ row.install = p.install /\ row.day = p.day

Heartbeat(p) == [day |-> p.day, install |-> p.install, ping |-> p.ping]
KindOf(p, i) ==
    [day |-> p.day, install |-> p.install, ping |-> p.ping,
     kind |-> p.kinds[i].kind, fw |-> p.kinds[i].fw]

Init ==
    /\ day = 0
    /\ taken = 0
    /\ pending = {}
    /\ heartbeats = {}
    /\ kindRows = {}

Arrive ==
    /\ taken' = taken + 1
    /\ \E r \in Report : pending' = pending \cup {Arrived(taken', day, r)}
    /\ UNCHANGED <<day, heartbeats, kindRows>>

\* Reports are lost, and leave nothing behind.
Lose ==
    /\ UNCHANGED <<day, taken, heartbeats, kindRows>>
    /\ \E lost \in SUBSET pending : pending' = pending \ lost

File(p) ==
    /\ UNCHANGED <<day, taken>>
    /\ pending' = pending \ {p}
    /\ heartbeats' = {h \in heartbeats : ~Replaces(p, h)} \cup {Heartbeat(p)}
    /\ kindRows' =
           {k \in kindRows :
               ~(Replaces(p, k) /\ \E i \in DOMAIN p.kinds : p.kinds[i].kind = k.kind)}
           \cup {KindOf(p, i) : i \in DOMAIN p.kinds}

NextDay ==
    /\ day' = day + 1
    /\ UNCHANGED <<taken, pending, heartbeats, kindRows>>

Next ==
    \/ Arrive
    \/ Lose
    \/ \E p \in pending : File(p)
    \/ NextDay

Spec == Init /\ [][Next]_reportVars
=============================================================================
