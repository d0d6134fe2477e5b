---------------------------- MODULE MCHeartbeat ----------------------------
(* Heartbeat on a small instance.                                          *)
EXTENDS Heartbeat, TLC

CONSTANTS Reporter, TemplateTable, WaitlistTable, HeartbeatTable, c1, c2, c3, i1, k1, k2, k3, junk

MCTable == {TemplateTable, WaitlistTable, HeartbeatTable}

\* A script imports the waitlist and the collector, not the template store.
MCImports == (Api :> MCTable) @@ (Reporter :> {WaitlistTable, HeartbeatTable})

MCAdded == <<WaitlistTable, HeartbeatTable>>
MCAddedColumns ==
    (TemplateTable :> <<>>) @@ (WaitlistTable :> <<c1>>) @@ (HeartbeatTable :> <<c2, c3>>)

Item(kind, fw) == [kind |-> kind, fw |-> fw]
Listed == (k1 :> {1, 2}) @@ (k2 :> {}) @@ (k3 :> {})
Unlisted == (k1 :> {}) @@ (k2 :> {}) @@ (k3 :> {})

\* Two reports of one install that list its kinds in opposite orders, the
\* first in the legacy form, the second with a kind twice and one too many,
\* and a report of an install that has no id.
MCBodies ==
    {[install |-> i1, kinds |-> <<Item(k1, 0), Item(junk, 0), Item(k2, 0)>>, legacy |-> Listed],
     [install |-> i1, kinds |-> <<Item(k2, 3), Item(k2, 1), Item(k1, 3), Item(k3, 3)>>, legacy |-> Unlisted],
     [install |-> NoInstall, kinds |-> <<Item(k1, 1)>>, legacy |-> Unlisted]}
=============================================================================
