--------------------------- MODULE HeartbeatProofs ---------------------------
(* The API serves over a migrated schema, and the rows of an install and    *)
(* day are one ping's, for every number of scripts, workers and pings, every *)
(* list of added columns and every body.                                    *)
EXTENDS Heartbeat, FiniteInduction

USE ApiIsNoScript, StopsBounded, ImportsKnown, AddedKnown, ColumnsKnown, AddedImported, WindowIsNatural

-----------------------------------------------------------------------------
(* init_db.                                                                *)

LEMMA LateKnown ==
    ASSUME NEW t \in Table
    PROVE  Late(t) \subseteq Column
BY DEF Late

\* A process's step keeps the invariant if it takes no table and no column
\* away and what it knows of its own progress is so.
LEMMA StepOfProcess ==
    ASSUME MigrationTypeOK, MigrationInv, NEW p \in Process,
           NEW m \in Migrator, Become(p, m),
           tables \subseteq tables', tables' \subseteq Table,
           columns' \in [Table -> SUBSET Column],
           \A t \in Table : columns[t] \subseteq columns'[t],
           \A t \in Table \ tables' : columns'[t] = {},
           stops' \in 0..MaxStops,
           MigratedSoFar(p, m, tables', columns')
    PROVE  MigrationTypeOK' /\ MigrationInv'
<1>1. migrator \in [Process -> Migrator]
  BY DEF MigrationTypeOK
<1>2. /\ migrator' \in [Process -> Migrator]
      /\ migrator'[p] = m
      /\ \A q \in Process \ {p} : migrator'[q] = migrator[q]
  BY <1>1 DEF Become
<1>3. MigrationTypeOK'
  BY <1>2 DEF MigrationTypeOK
<1>4. ASSUME NEW q \in Process \ {p}
      PROVE  MigratedSoFar(q, migrator[q], tables', columns')
  <2>1. MigratedSoFar(q, migrator[q], tables, columns)
    BY DEF MigrationInv
  <2>2. \A i \in DOMAIN Added : Added[i] \in Table
    OBVIOUS
  <2>3. \A i \in DOMAIN Added : Complete(Added[i], columns) => Complete(Added[i], columns')
    BY <2>2 DEF Complete
  <2> QED
    BY <2>1, <2>2, <2>3 DEF MigratedSoFar
<1>5. MigrationInv'
  BY <1>2, <1>4 DEF MigrationInv
<1> QED
  BY <1>3, <1>5

\* A process that is going down knows nothing.
LEMMA EarlyPhase ==
    ASSUME NEW p \in Process, NEW tbls, NEW cols,
           NEW pc \in {"down", "tables"}
    PROVE  Phase(pc) \in Migrator /\ MigratedSoFar(p, Phase(pc), tbls, cols)
BY DEF Phase, Locals, Migrator, Phases, MigratedSoFar

\* A process at a table of the loop.
LEMMA AtTableSound ==
    ASSUME NEW p \in Process, NEW tbls, NEW cols, NEW i \in 1..Len(Added) + 1,
           Imports[p] \subseteq tbls,
           \A j \in DOMAIN Added : j < i => Complete(Added[j], cols)
    PROVE  AtTable(i) \in Migrator /\ MigratedSoFar(p, AtTable(i), tbls, cols)
<1>1. i \in Nat
  OBVIOUS
<1>2. AtTable(i) \in Migrator
  BY <1>1 DEF AtTable, Locals, Migrator, Phases
<1>3. MigratedSoFar(p, AtTable(i), tbls, cols)
  BY DEF AtTable, Locals, MigratedSoFar
<1> QED
  BY <1>2, <1>3

LEMMA InitDbKeeps ==
    ASSUME MigrationTypeOK, MigrationInv, NEW p \in Process, InitDb(p)
    PROVE  MigrationTypeOK' /\ MigrationInv'
<1> DEFINE m == migrator[p]
           t == TableOf(p)
<1>1. /\ tables \subseteq Table
      /\ columns \in [Table -> SUBSET Column]
      /\ \A u \in Table \ tables : columns[u] = {}
      /\ stops \in 0..MaxStops
      /\ m \in Migrator
      /\ MigratedSoFar(p, m, tables, columns)
  BY DEF MigrationTypeOK, MigrationInv
<1>2. /\ Len(Added) \in Nat
      /\ DOMAIN Added = 1..Len(Added)
      /\ \A i \in DOMAIN Added : Added[i] \in Table
      /\ \A u \in Table : /\ Len(AddedColumns[u]) \in Nat
                          /\ DOMAIN AddedColumns[u] = 1..Len(AddedColumns[u])
                          /\ \A i \in DOMAIN AddedColumns[u] : AddedColumns[u][i] \in Column
  OBVIOUS
<1>3. CASE Launch(p)
  <2>1. Become(p, Phase("tables")) /\ UNCHANGED <<tables, columns, stops>>
    BY <1>3 DEF Launch
  <2>2. /\ Phase("tables") \in Migrator
        /\ MigratedSoFar(p, Phase("tables"), tables, columns)
    BY EarlyPhase
  <2> QED
    BY <1>1, <2>1, <2>2, StepOfProcess
<1>4. CASE LookTables(p)
  <2> DEFINE n == Locals("create", Imports[p] \ tables, 0, {}, 0)
  <2>1. Become(p, n) /\ UNCHANGED <<tables, columns, stops>>
    BY <1>4 DEF LookTables
  <2>2. Imports[p] \ tables \in SUBSET Table
    OBVIOUS
  <2>3. n \in Migrator /\ MigratedSoFar(p, n, tables, columns)
    BY <2>2 DEF Locals, Migrator, Phases, MigratedSoFar
  <2> HIDE DEF n
  <2> QED
    BY <1>1, <2>1, <2>3, StepOfProcess
<1>5. CASE CreateTables(p)
  <2>1. /\ Become(p, AtTable(1)) /\ stops' = stops
        /\ tables' = tables \cup m.fresh
        /\ columns' = [u \in Table |-> IF u \in m.fresh THEN Late(u) ELSE columns[u]]
        /\ m.fresh \cap tables = {} /\ m.pc = "create"
    BY <1>5 DEF CreateTables
  <2>2. m.fresh \subseteq Table /\ Imports[p] \subseteq Table
    BY <1>1 DEF Migrator
  <2>3. /\ columns' \in [Table -> SUBSET Column]
        /\ tables \subseteq tables' /\ tables' \subseteq Table
    BY <1>1, <2>1, <2>2, LateKnown
  <2>4. /\ \A u \in Table : columns[u] \subseteq columns'[u]
        /\ \A u \in Table \ tables' : columns'[u] = {}
    BY <1>1, <2>1, <2>2
  <2>5. Imports[p] \subseteq tables'
    BY <1>1, <2>1 DEF MigratedSoFar
  <2>6. AtTable(1) \in Migrator /\ MigratedSoFar(p, AtTable(1), tables', columns')
    <3>1. 1 \in 1..Len(Added) + 1 /\ \A j \in DOMAIN Added : ~(j < 1)
      BY <1>2
    <3> QED
      BY <2>5, <3>1, AtTableSound
  <2> QED
    BY <1>1, <2>1, <2>3, <2>4, <2>6, StepOfProcess
<1>6. CASE CreateFails(p) \/ AddFails(p)
  <2>1. Become(p, Down) /\ UNCHANGED <<tables, columns, stops>>
    BY <1>6 DEF CreateFails, AddFails
  <2>2. Down \in Migrator /\ MigratedSoFar(p, Down, tables, columns)
    BY EarlyPhase DEF Down
  <2> QED
    BY <1>1, <2>1, <2>2, StepOfProcess
<1>7. CASE LookColumns(p)
  <2> DEFINE n == Locals("alter", {}, m.at, columns[Added[m.at]], 1)
  <2>1. /\ m.pc = "columns" /\ m.at \in DOMAIN Added
        /\ Become(p, n) /\ UNCHANGED <<tables, columns, stops>>
    BY <1>7 DEF LookColumns
  <2>2. n \in Migrator
    BY <1>1, <1>2, <2>1 DEF Locals, Migrator, Phases
  <2>3. MigratedSoFar(p, n, tables, columns)
    BY <1>1, <1>2, <2>1 DEF Locals, MigratedSoFar
  <2> HIDE DEF n
  <2> QED
    BY <1>1, <2>1, <2>2, <2>3, StepOfProcess
<1>8. CASE SkipColumn(p) \/ AddColumn(p)
  <2> DEFINE n == Locals("alter", {}, m.at, m.existing, m.col + 1)
  <2>1. /\ m.pc = "alter" /\ m.col \in DOMAIN AddedColumns[t]
        /\ Become(p, n) /\ UNCHANGED <<tables, stops>>
    BY <1>8 DEF SkipColumn, AddColumn, InColumns, ToNextColumn
  <2>2. t \in Table /\ t = Added[m.at] /\ m.at \in DOMAIN Added /\ t \in tables
    BY <1>1, <1>2, <2>1 DEF MigratedSoFar, TableOf
  <2>3. /\ columns' \in [Table -> SUBSET Column]
        /\ \A u \in Table : columns[u] \subseteq columns'[u]
        /\ \A u \in Table \ tables' : columns'[u] = {}
        /\ AddedColumns[t][m.col] \in columns'[t]
    <3>1. AddedColumns[t][m.col] \in Column /\ ColumnOf(p) = AddedColumns[t][m.col]
      BY <1>2, <2>1, <2>2 DEF ColumnOf
    <3>2. CASE SkipColumn(p)
      BY <1>1, <2>1, <2>2, <3>1, <3>2 DEF SkipColumn, MigratedSoFar
    <3>3. CASE AddColumn(p)
      <4>1. columns' = [columns EXCEPT ![t] = @ \cup {AddedColumns[t][m.col]}]
        BY <3>1, <3>3 DEF AddColumn
      <4>2. /\ columns \in [Table -> SUBSET Column] /\ tables' = tables
            /\ \A u \in Table \ tables : columns[u] = {}
        BY <1>1, <2>1
      <4> HIDE DEF t
      <4> QED
        BY <2>2, <3>1, <4>1, <4>2
    <3> QED
      BY <1>8, <3>2, <3>3
  <2>4. n \in Migrator
    BY <1>1, <2>1 DEF Locals, Migrator, Phases
  <2>5. MigratedSoFar(p, n, tables', columns')
    <3>1. \A i \in DOMAIN Added : Complete(Added[i], columns) => Complete(Added[i], columns')
      BY <1>2, <2>3 DEF Complete
    <3>2. /\ Imports[p] \subseteq tables
          /\ m.at \in 1..Len(Added) + 1
          /\ \A i \in DOMAIN Added : i < m.at => Complete(Added[i], columns')
      BY <1>1, <2>1, <3>1 DEF MigratedSoFar
    <3>3. /\ m.col \in Nat
          /\ m.existing \subseteq columns[t]
      BY <1>1, <2>1, <2>2 DEF Migrator, MigratedSoFar
    <3>7. /\ m.col + 1 \in 1..Len(AddedColumns[Added[m.at]]) + 1
          /\ m.existing \subseteq columns'[Added[m.at]]
      <4>1. DOMAIN AddedColumns[t] = 1..Len(AddedColumns[t]) /\ Len(AddedColumns[t]) \in Nat
        BY <1>2, <2>2
      <4>2. m.existing \subseteq columns'[t]
        BY <2>2, <2>3, <3>3
      <4> HIDE DEF m, t
      <4> QED
        BY <2>1, <2>2, <3>3, <4>1, <4>2
    <3>4. \A i \in DOMAIN AddedColumns[t] : i < m.col => AddedColumns[t][i] \in columns'[t]
      BY <1>1, <2>1, <2>2, <2>3 DEF MigratedSoFar
    <3>5. \A i \in DOMAIN AddedColumns[t] : i < m.col + 1 => i < m.col \/ i = m.col
      <4>1. DOMAIN AddedColumns[t] = 1..Len(AddedColumns[t]) /\ Len(AddedColumns[t]) \in Nat
        BY <1>2, <2>2
      <4> HIDE DEF m, t
      <4> QED
        BY <2>1, <3>3, <4>1
    <3>6. n.pc = "alter" /\ n.at = m.at /\ n.existing = m.existing /\ n.col = m.col + 1
      BY DEF Locals
    <3> HIDE DEF n
    <3> QED
      BY <2>1, <2>2, <2>3, <3>2, <3>7, <3>4, <3>5, <3>6 DEF MigratedSoFar
  <2> HIDE DEF n
  <2> QED
    BY <1>1, <2>1, <2>3, <2>4, <2>5, StepOfProcess
<1>9. CASE NextTable(p)
  <2>1. /\ m.pc = "alter" /\ m.col \notin DOMAIN AddedColumns[t] /\ t = Added[m.at]
        /\ Become(p, AtTable(m.at + 1)) /\ UNCHANGED <<tables, columns, stops>>
    BY <1>9 DEF NextTable, TableOf
  <2>2. /\ m.at \in DOMAIN Added /\ t \in Table
        /\ m.col \in 1..Len(AddedColumns[t]) + 1
        /\ Imports[p] \subseteq tables
    BY <1>1, <1>2, <2>1 DEF MigratedSoFar
  <2>3. m.col = Len(AddedColumns[t]) + 1
    <3>1. DOMAIN AddedColumns[t] = 1..Len(AddedColumns[t]) /\ Len(AddedColumns[t]) \in Nat
      BY <1>2, <2>2
    <3>2. m.col \notin DOMAIN AddedColumns[t] /\ m.col \in 1..Len(AddedColumns[t]) + 1
      BY <2>1, <2>2
    <3> HIDE DEF m, t
    <3> QED
      BY <3>1, <3>2
  <2>4. \A i \in DOMAIN AddedColumns[t] : AddedColumns[t][i] \in columns[t]
    BY <1>1, <1>2, <2>1, <2>2, <2>3 DEF MigratedSoFar
  <2>5. Complete(t, columns)
    BY <2>4 DEF Complete, Late
  <2>6. \A i \in DOMAIN Added : i < m.at + 1 => Complete(Added[i], columns)
    <3>1. \A i \in DOMAIN Added : i < m.at => Complete(Added[i], columns)
      BY <1>1, <2>1 DEF MigratedSoFar
    <3> QED
      BY <1>2, <2>1, <2>2, <2>5, <3>1
  <2>7. m.at + 1 \in 1..Len(Added) + 1
    BY <1>2, <2>2
  <2> HIDE DEF m, t
  <2>8. /\ AtTable(m.at + 1) \in Migrator
        /\ MigratedSoFar(p, AtTable(m.at + 1), tables, columns)
    BY <2>2, <2>6, <2>7, AtTableSound
  <2> QED
    BY <1>1, <2>1, <2>8, StepOfProcess
<1>10. CASE Finish(p)
  <2>1. /\ m.pc = "columns" /\ m.at \notin DOMAIN Added
        /\ Become(p, Phase("up")) /\ UNCHANGED <<tables, columns, stops>>
    BY <1>10 DEF Finish
  <2>2. /\ Imports[p] \subseteq tables
        /\ \A i \in DOMAIN Added : Complete(Added[i], columns)
    <3>1. m.at = Len(Added) + 1
      BY <1>1, <1>2, <2>1 DEF MigratedSoFar
    <3> QED
      BY <1>1, <1>2, <2>1, <3>1 DEF MigratedSoFar
  <2>3. /\ Phase("up") \in Migrator
        /\ MigratedSoFar(p, Phase("up"), tables, columns)
    BY <2>2 DEF Phase, Locals, Migrator, Phases, MigratedSoFar
  <2> QED
    BY <1>1, <2>1, <2>3, StepOfProcess
<1> QED
  BY <1>3, <1>4, <1>5, <1>6, <1>7, <1>8, <1>9, <1>10 DEF InitDb

LEMMA StopApiKeeps ==
    ASSUME MigrationTypeOK, MigrationInv, StopApi
    PROVE  MigrationTypeOK' /\ MigrationInv'
<1>1. /\ Become(Api, Down) /\ UNCHANGED <<tables, columns>>
      /\ stops' = stops + 1 /\ stops < MaxStops
  BY DEF StopApi
<1>2. /\ tables \subseteq Table
      /\ columns \in [Table -> SUBSET Column]
      /\ \A t \in Table \ tables : columns[t] = {}
      /\ stops \in 0..MaxStops
  BY DEF MigrationTypeOK
<1>3. Api \in Process /\ stops' \in 0..MaxStops
  BY <1>1, <1>2 DEF Process
<1>4. Down \in Migrator /\ MigratedSoFar(Api, Down, tables, columns)
  BY <1>3, EarlyPhase DEF Down
<1> QED
  BY <1>1, <1>2, <1>3, <1>4, StepOfProcess

LEMMA ScriptEndsKeeps ==
    ASSUME MigrationTypeOK, MigrationInv, NEW p \in Process, ScriptEnds(p)
    PROVE  MigrationTypeOK' /\ MigrationInv'
<1>1. Become(p, Down) /\ UNCHANGED <<tables, columns, stops>>
  BY DEF ScriptEnds
<1>2. Down \in Migrator /\ MigratedSoFar(p, Down, tables, columns)
  BY EarlyPhase DEF Down
<1>3. /\ tables \subseteq Table
      /\ columns \in [Table -> SUBSET Column]
      /\ \A t \in Table \ tables : columns[t] = {}
      /\ stops \in 0..MaxStops
  BY DEF MigrationTypeOK
<1> QED
  BY <1>1, <1>2, <1>3, StepOfProcess

LEMMA MigrationInitHolds ==
    ASSUME MigrationInit
    PROVE  MigrationTypeOK /\ MigrationInv /\ ~Serving
<1>1. \A p \in Process : migrator[p] = Down
  BY DEF MigrationInit
<1>2. \A p \in Process : Down \in Migrator /\ MigratedSoFar(p, Down, tables, columns)
  BY EarlyPhase DEF Down
<1>3. \A t \in Table \ tables : columns[t] = {}
  <2>1. ASSUME NEW t \in Table \ tables, NEW c \in columns[t]
        PROVE  FALSE
    <3>1. PICK n : columns[t] = {AddedColumns[t][i] : i \in 1..(IF t \in tables THEN n ELSE 0)}
      BY DEF MigrationInit
    <3> QED
      BY <2>1, <3>1
  <2>2. columns \in [Table -> SUBSET Column]
    BY DEF MigrationInit
  <2> QED
    BY <2>1, <2>2
<1>4. migrator \in [Process -> Migrator]
  BY <1>1, <1>2 DEF MigrationInit
<1>5. MigrationTypeOK
  BY <1>3, <1>4 DEF MigrationInit, MigrationTypeOK
<1>6. MigrationInv
  BY <1>1, <1>2 DEF MigrationInv
<1>7. ~Serving
  BY <1>1 DEF Serving, Down, Phase, Locals, Process
<1> QED
  BY <1>5, <1>6, <1>7

\* Nothing but a stop takes the API from serving.
LEMMA ServingStays ==
    ASSUME MigrationTypeOK, NEW p \in Process, Migrate(p), Serving
    PROVE  Serving'
<1>1. p = Api => FALSE
  BY DEF Migrate, InitDb, Launch, LookTables, CreateTables, CreateFails, LookColumns,
         SkipColumn, AddColumn, AddFails, NextTable, Finish, ScriptEnds, Serving, InColumns
<1>2. PICK m : Become(p, m)
  BY DEF Migrate, InitDb, Launch, LookTables, CreateTables, CreateFails, LookColumns,
         SkipColumn, AddColumn, AddFails, NextTable, Finish, ScriptEnds, ToNextColumn
<1> QED
  BY <1>1, <1>2 DEF Become, Serving, MigrationTypeOK, Process

-----------------------------------------------------------------------------
(* The kinds of a body: a fold over its list, from the first item on.       *)

Taking(g, body) ==
    g = [s \in SUBSET DOMAIN body.kinds |->
            IF s = {} THEN <<>> ELSE Take(body, g[s \ {Max(s)}], body.kinds[Max(s)])]
Taken(body) == CHOOSE g : Taking(g, body)

LEMMA CleanKindsIsFold ==
    ASSUME NEW body
    PROVE  CleanKinds(body) = Taken(body)[DOMAIN body.kinds]
BY DEF CleanKinds, FoldLeft, MapThenFoldSet, Taken, Taking

\* What has been taken at any time: cleaned items of valid kinds, none twice.
Chosen(body) ==
    {Cleaned(body.kinds[i], body.legacy) : i \in {j \in DOMAIN body.kinds : body.kinds[j].kind \in Kind}}
Distinct(out) == \A i, j \in DOMAIN out : out[i].kind = out[j].kind => i = j
CleanLists(body) == {out \in Seq(Chosen(body)) : Distinct(out) /\ Len(out) <= MaxKinds}

LEMMA TakeKeeps ==
    ASSUME NEW body, NEW out \in CleanLists(body), NEW i \in DOMAIN body.kinds
    PROVE  Take(body, out, body.kinds[i]) \in CleanLists(body)
<1> DEFINE item == body.kinds[i]
           new == Cleaned(item, body.legacy)
<1>1. out \in Seq(Chosen(body)) /\ Distinct(out) /\ Len(out) <= MaxKinds /\ Len(out) \in Nat
  BY DEF CleanLists
<1>2. CASE \/ item.kind \notin Kind
           \/ \E j \in DOMAIN out : out[j].kind = item.kind
           \/ Len(out) >= MaxKinds
  BY <1>2 DEF Take
<1>3. CASE ~(\/ item.kind \notin Kind
             \/ \E j \in DOMAIN out : out[j].kind = item.kind
             \/ Len(out) >= MaxKinds)
  <2>1. Take(body, out, item) = Append(out, new)
    BY <1>3 DEF Take
  <2>2. new \in Chosen(body) /\ new.kind = item.kind
    BY <1>3 DEF Chosen, Cleaned
  <2> HIDE DEF new
  <2>3. /\ Append(out, new) \in Seq(Chosen(body))
        /\ Len(Append(out, new)) = Len(out) + 1
        /\ DOMAIN out = 1..Len(out)
        /\ DOMAIN Append(out, new) = 1..Len(out) + 1
        /\ Append(out, new)[Len(out) + 1] = new
        /\ \A j \in 1..Len(out) : Append(out, new)[j] = out[j]
    BY <1>1, <2>2
  <2>4. Distinct(Append(out, new))
    BY <1>1, <1>3, <2>2, <2>3 DEF Distinct
  <2>5. Len(out) + 1 <= MaxKinds
    BY <1>1, <1>3, KindsListed
  <2> QED
    BY <2>1, <2>3, <2>4, <2>5 DEF CleanLists
<1> QED
  BY <1>2, <1>3

LEMMA LastOfSome ==
    ASSUME NEW n \in Nat, NEW s \in SUBSET (1..n), s # {}
    PROVE  Max(s) \in s
<1>1. s \in SUBSET Nat /\ \A x \in s : x <= n
  OBVIOUS
<1>2. \E x \in s : \A y \in s : y <= x
  BY <1>1, LargestExists
<1> QED
  BY <1>1, <1>2 DEF Max

\* Every list of a body comes out clean.
THEOREM KindsClean ==
    ASSUME NEW body \in Bodies
    PROVE  CleanKinds(body) \in CleanLists(body)
<1> DEFINE D == DOMAIN body.kinds
           V == CleanLists(body)
           pick == [s \in SUBSET D |-> Max(s)]
           step == [p \in D \X V |-> Take(body, p[2], body.kinds[p[1]])]
           g == Taken(body)
           Bad == {s \in SUBSET D : g[s] \notin V}
<1>1. PICK n \in Nat : D = 1..n
  <2>1. PICK items : body.kinds \in Seq(items)
    BY KindsListed
  <2>2. Len(body.kinds) \in Nat /\ D = 1..Len(body.kinds)
    BY <2>1
  <2> QED
    BY <2>2
<1>2. IsFiniteSet(D) /\ <<>> \in V
  BY <1>1, FS_Interval, KindsListed DEF CleanLists, Distinct
<1>3. \A s \in SUBSET D : s # {} => Max(s) \in s
  BY <1>1, LastOfSome
<1>4. \A i \in D, out \in V : Take(body, out, body.kinds[i]) \in V
  BY TakeKeeps
<1> HIDE DEF D, V
<1>5. Taking(g, body)
  <2>1. step \in [D \X V -> V] /\ \A s \in SUBSET D : s # {} => pick[s] \in s
    BY <1>3, <1>4
  <2>2. PICK h \in [SUBSET D -> V] : \A s \in SUBSET D : FoldedAt(h, s, <<>>, pick, step)
    <3> HIDE DEF pick, step
    <3> QED
      BY <1>2, <2>1, FoldTyped
  <2>3. ASSUME NEW s \in SUBSET D
        PROVE  h[s] = IF s = {} THEN <<>> ELSE Take(body, h[s \ {Max(s)}], body.kinds[Max(s)])
    <3>1. FoldedAt(h, s, <<>>, pick, step)
      BY <2>2
    <3>2. Without(s, pick) = s \ {Max(s)} /\ pick[s] = Max(s)
      BY DEF Without
    <3>3. s # {} => Max(s) \in D /\ h[s \ {Max(s)}] \in V
      BY <1>3
    <3>4. s # {} => step[<<Max(s), h[s \ {Max(s)}]>>]
                        = Take(body, h[s \ {Max(s)}], body.kinds[Max(s)])
      BY <3>3
    <3> HIDE DEF pick, step
    <3> QED
      BY <3>1, <3>2, <3>4 DEF FoldedAt
  <2>4. h = [s \in SUBSET D |-> h[s]]
    OBVIOUS
  <2>5. Taking(h, body)
    BY <2>3, <2>4 DEF Taking, D
  <2> QED
    BY <2>5 DEF Taken
<1> HIDE DEF g
<1>6. Bad = {}
  <2> SUFFICES ASSUME Bad # {} PROVE FALSE
    OBVIOUS
  <2>1. PICK s \in Bad : \A t \in SUBSET s : t # s => t \notin Bad
    <3>1. Bad \in SUBSET SUBSET D
      OBVIOUS
    <3> HIDE DEF Bad
    <3> QED
      BY <1>2, <3>1, SmallestSet
  <2>2. /\ s \in SUBSET D /\ g[s] \notin V
        /\ g[s] = IF s = {} THEN <<>> ELSE Take(body, g[s \ {Max(s)}], body.kinds[Max(s)])
    BY <1>5 DEF Taking, D
  <2>3. s # {}
    BY <1>2, <2>2
  <2>4. Max(s) \in s
    BY <1>3, <2>2, <2>3
  <2>5. g[s \ {Max(s)}] \in V
    BY <2>1, <2>2, <2>4
  <2> QED
    BY <1>4, <2>2, <2>3, <2>4, <2>5
<1>7. g[D] \in V
  BY <1>6
<1> QED
  BY <1>7, CleanKindsIsFold DEF g, D, V

\* A ping reports no kind twice.
LEMMA ReportedOnce ==
    ASSUME sent \in Seq(Bodies), NEW r, r.ping \in 1..Len(sent)
    PROVE  \A i, j \in DOMAIN Reported(r) : Reported(r)[i].kind = Reported(r)[j].kind => i = j
<1>1. sent[r.ping] \in Bodies
  OBVIOUS
<1> QED
  BY <1>1, KindsClean DEF Reported, CleanLists, Distinct

-----------------------------------------------------------------------------
(* Pings.                                                                  *)

LEMMA IdleTyped == Idle \in Requests /\ Idle.pc = "idle"
BY DEF Idle, Request, Requests

\* What one worker's step does to the conjuncts about all of them: it may not
\* go past its first statement with a key that another transaction holds, nor
\* work while the API is down.
LEMMA StepOfWorker ==
    ASSUME TypeOK, RowsExclusive, DownIsIdle, NEW w \in Worker, NEW r \in Requests,
           Continue(w, r), UNCHANGED migrationVars,
           r.pc = "kinds" => \A v \in Worker \ {w} : ~(Open(v) /\ SameKey(worker[v], r)),
           r.pc # "idle" => Serving
    PROVE  /\ worker' \in [Worker -> Requests]
           /\ worker'[w] = r
           /\ \A v \in Worker \ {w} : worker'[v] = worker[v]
           /\ RowsExclusive' /\ DownIsIdle'
<1>1. worker \in [Worker -> Requests]
  BY DEF TypeOK
<1>2. /\ worker' \in [Worker -> Requests]
      /\ worker'[w] = r
      /\ \A v \in Worker \ {w} : worker'[v] = worker[v]
  BY <1>1 DEF Continue
<1>3. RowsExclusive'
  <2> SUFFICES ASSUME NEW u \in Worker, NEW v \in Worker, u # v, Open(u)', Open(v)',
                      SameKey(worker'[u], worker'[v])
               PROVE  FALSE
    BY DEF RowsExclusive, SameKey
  <2>1. CASE u = w
    <3>1. r.pc = "kinds" /\ Open(v) /\ SameKey(worker[v], r)
      BY <1>2, <2>1 DEF Open, SameKey
    <3> QED
      BY <2>1, <3>1
  <2>2. CASE v = w
    <3>1. r.pc = "kinds" /\ Open(u) /\ SameKey(worker[u], r)
      BY <1>2, <2>2 DEF Open, SameKey
    <3> QED
      BY <2>2, <3>1
  <2>3. CASE u # w /\ v # w
    BY <1>2, <2>3 DEF RowsExclusive, Open, SameKey
  <2> QED
    BY <2>1, <2>2, <2>3
<1>4. DownIsIdle'
  BY <1>2 DEF DownIsIdle, Serving, migrationVars
<1> QED
  BY <1>2, <1>3, <1>4

LEMMA MigrationUnchanged ==
    ASSUME MigrationTypeOK, MigrationInv, UNCHANGED migrationVars
    PROVE  MigrationTypeOK' /\ MigrationInv'
BY DEF MigrationTypeOK, MigrationInv, migrationVars

\* A row keeps what it reports when a ping is received.
LEMMA ReportKept ==
    ASSUME sent \in Seq(Bodies), NEW body \in Bodies, sent' = Append(sent, body)
    PROVE  /\ sent' \in Seq(Bodies) /\ Len(sent') = Len(sent) + 1
           /\ \A n \in 1..Len(sent) : n \in 1..Len(sent') /\ sent'[n] = sent[n]
OBVIOUS

-----------------------------------------------------------------------------
(* Reports.                                                                *)

\* A report of before, or none.
LEMMA AccountedStays ==
    ASSUME TypeOK, ActiveAccounted, UNCHANGED heartbeats, day' \in {day, day + 1},
           \A p \in Script : report'[p] \in {report[p], NotBegun}
    PROVE  ActiveAccounted'
<1>1. NotBegun.begun = FALSE
  BY DEF NotBegun, Reading
<1>2. ActiveInstalls(Window)' \subseteq ActiveInstalls(Window)
  <2> SUFFICES ASSUME NEW h \in heartbeats, h.install # NoInstall, h.day >= day' - Window
               PROVE  h.day >= day - Window
    BY DEF ActiveInstalls, Recent
  <2>1. h.day \in Nat /\ day \in Nat
    BY DEF TypeOK
  <2> QED
    BY <2>1
<1>3. ASSUME NEW p \in Script, report'[p].begun
      PROVE  report'[p] = report[p]
  BY <1>1, <1>3
<1> QED
  BY <1>2, <1>3 DEF ActiveAccounted

LEMMA NotBegunTyped == NotBegun \in Readings /\ NotBegun.begun = FALSE
BY DEF NotBegun, Reading, Readings

\* A ping of the install recorded during a report is noted.
LEMMA RecordedNoted ==
    ASSUME NEW r \in Readings, NEW install \in Installs \cup {NoInstall}
    PROVE  /\ Recorded(r, install) \in Readings
           /\ Recorded(r, install).begun = r.begun
           /\ Recorded(r, install).active = r.active
           /\ r.since \subseteq Recorded(r, install).since
           /\ r.begun /\ install # NoInstall => install \in Recorded(r, install).since
<1>1. CASE r.begun /\ install # NoInstall
  <2>1. Recorded(r, install) = [r EXCEPT !.since = @ \cup {install}]
    BY <1>1 DEF Recorded
  <2> QED
    BY <1>1, <2>1 DEF Readings
<1>2. CASE ~(r.begun /\ install # NoInstall)
  BY <1>2 DEF Recorded
<1> QED
  BY <1>1, <1>2

\* The heartbeat that a commit adds is accounted for.
LEMMA CommitAccounted ==
    ASSUME TypeOK, ActiveAccounted, NEW w \in Worker, Commit(w)
    PROVE  ActiveAccounted' /\ report' \in [Script -> Readings]
<1> DEFINE install == worker[w].install
<1>1. /\ install \in Installs \cup {NoInstall} /\ UNCHANGED day
      /\ report \in [Script -> Readings]
      /\ report' = [p \in Script |-> Recorded(report[p], install)]
      /\ heartbeats' = {r \in heartbeats : ~SameKey(r, worker[w])} \cup {HeartbeatRow(worker[w])}
  BY DEF Commit, TypeOK, Requests
<1>2. HeartbeatRow(worker[w]).install = install
  BY DEF HeartbeatRow
<1> HIDE DEF install
<1>3. report' \in [Script -> Readings]
  BY <1>1, RecordedNoted
<1>4. ASSUME NEW p \in Script, report'[p].begun, NEW i \in ActiveInstalls(Window)'
      PROVE  i \in report'[p].active \cup report'[p].since
  <2>1. /\ report[p] \in Readings /\ report'[p] = Recorded(report[p], install)
        /\ report[p].begun /\ report'[p].active = report[p].active
        /\ report[p].since \subseteq report'[p].since
        /\ install # NoInstall => install \in report'[p].since
    BY <1>1, <1>4, RecordedNoted
  <2>2. PICK h \in heartbeats' : /\ h.install = i /\ i # NoInstall
                                 /\ h.day >= day - Window
    BY <1>1 DEF ActiveInstalls, Recent
  <2>3. CASE h \in heartbeats
    <3>1. i \in ActiveInstalls(Window)
      BY <2>2, <2>3 DEF ActiveInstalls, Recent
    <3> QED
      BY <2>1, <3>1 DEF ActiveAccounted
  <2>4. CASE h = HeartbeatRow(worker[w])
    BY <1>2, <2>1, <2>2, <2>4
  <2> QED
    BY <1>1, <2>3, <2>4
<1>5. ActiveAccounted'
  BY <1>4 DEF ActiveAccounted
<1> QED
  BY <1>3, <1>5

\* A report's first query.
LEMMA ActiveRead ==
    ASSUME TypeOK, ActiveAccounted, NEW p \in Script, ReadActive(p)
    PROVE  ActiveAccounted' /\ report' \in [Script -> Readings]
<1> DEFINE found == ActiveInstalls(Window)
           r == Reading(TRUE, found, {})
<1>1. /\ report' = [report EXCEPT ![p] = r] /\ UNCHANGED <<day, heartbeats>>
      /\ report \in [Script -> Readings]
  BY DEF ReadActive, TypeOK, pingVars
<1>2. found \subseteq Installs
  BY DEF TypeOK, ActiveInstalls, Recent
<1>3. found' = found
  BY <1>1 DEF ActiveInstalls, Recent
<1> HIDE DEF found
<1>4. r \in Readings /\ r.active = found
  BY <1>2 DEF Reading, Readings
<1> HIDE DEF r
<1>5. /\ report' \in [Script -> Readings] /\ report'[p] = r
      /\ \A q \in Script \ {p} : report'[q] = report[q]
  BY <1>1, <1>4
<1>6. ASSUME NEW q \in Script, report'[q].begun
      PROVE  found' \subseteq report'[q].active \cup report'[q].since
  BY <1>3, <1>4, <1>5, <1>6 DEF ActiveAccounted, found
<1>7. ActiveAccounted'
  BY <1>6 DEF ActiveAccounted, found
<1> QED
  BY <1>5, <1>7

THEOREM InitHolds == Init => IInv /\ LatestWhole
<1> SUFFICES ASSUME Init PROVE IInv /\ LatestWhole
  OBVIOUS
<1>1. MigrationTypeOK /\ MigrationInv /\ ~Serving
  BY MigrationInitHolds DEF Init
<1>2. \A w \in Worker : worker[w] = Idle
  BY DEF Init, PingInit
<1>3. TypeOK
  BY <1>1, <1>2, IdleTyped, NotBegunTyped DEF Init, PingInit, TypeOK
<1>4. RowsExclusive /\ DownIsIdle
  BY <1>2, IdleTyped DEF RowsExclusive, DownIsIdle, Open
<1>5. KindsAnchored /\ KeysUnique /\ LatestWhole
  BY DEF Init, PingInit, KindsAnchored, KeysUnique, LatestWhole
<1>6. ActiveAccounted
  BY NotBegunTyped DEF Init, ActiveAccounted
<1> QED
  BY <1>1, <1>3, <1>4, <1>5, <1>6 DEF IInv

\* A step that leaves rows, bodies and day alone.
LEMMA RequestStep ==
    ASSUME IInv, LatestWhole, NEW w \in Worker, NEW r \in Requests, Continue(w, r),
           UNCHANGED <<migrationVars, day, heartbeats, kindRows, sent, report>>,
           r.pc = "kinds" => \A v \in Worker \ {w} : ~(Open(v) /\ SameKey(worker[v], r)),
           r.pc # "idle" => Serving /\ r.ping \in 1..Len(sent)
    PROVE  IInv' /\ LatestWhole'
<1>1. TypeOK /\ MigrationTypeOK /\ MigrationInv /\ RowsExclusive /\ DownIsIdle /\ KindsAnchored
      /\ KeysUnique /\ ActiveAccounted
  BY DEF IInv, TypeOK
<1>2. MigrationTypeOK' /\ MigrationInv'
  BY <1>1, MigrationUnchanged
<1>3. /\ worker' \in [Worker -> Requests]
      /\ worker'[w] = r
      /\ \A v \in Worker \ {w} : worker'[v] = worker[v]
      /\ RowsExclusive' /\ DownIsIdle'
  BY <1>1, StepOfWorker
<1>4. TypeOK'
  BY <1>1, <1>2, <1>3 DEF TypeOK, HeartbeatRow
<1>5. KindsAnchored' /\ KeysUnique' /\ LatestWhole'
  BY <1>1 DEF KindsAnchored, KeysUnique, SameKey, SameKind, LatestWhole, KindRow, Reported
<1>6. ActiveAccounted'
  BY <1>1, AccountedStays
<1> QED
  BY <1>1, <1>2, <1>3, <1>4, <1>5, <1>6 DEF IInv

\* A commit: the rows of the transaction's key give way to its own.
LEMMA CommitKeeps ==
    ASSUME IInv, LatestWhole, NEW w \in Worker, Commit(w)
    PROVE  IInv' /\ LatestWhole'
<1> DEFINE x == worker[w]
           written == {KindRow(x, i) : i \in 1..x.wrote}
<1>1. TypeOK /\ MigrationTypeOK /\ MigrationInv /\ RowsExclusive /\ DownIsIdle /\ KindsAnchored
      /\ KeysUnique /\ ActiveAccounted
  BY DEF IInv, TypeOK
<1>2. /\ x.pc = "kinds" /\ x \in Requests
      /\ DOMAIN Reported(x) = 1..x.wrote
      /\ heartbeats' = {r \in heartbeats : ~SameKey(r, x)} \cup {HeartbeatRow(x)}
      /\ kindRows' = {r \in kindRows : \A s \in written : ~SameKind(r, s)} \cup written
      /\ Continue(w, Idle) /\ UNCHANGED <<migrationVars, day, sent>>
      /\ x.ping \in 1..Len(sent)
  BY <1>1 DEF Commit, Open, TypeOK
<1>3. MigrationTypeOK' /\ MigrationInv'
  BY <1>1, <1>2, MigrationUnchanged
<1>4. /\ worker' \in [Worker -> Requests]
      /\ worker'[w] = Idle
      /\ \A v \in Worker \ {w} : worker'[v] = worker[v]
      /\ RowsExclusive' /\ DownIsIdle'
  BY <1>1, <1>2, IdleTyped, StepOfWorker
<1>5. \A s \in written : s.day = x.day /\ s.install = x.install /\ s.ping = x.ping
  BY DEF KindRow
<1>10. ActiveAccounted' /\ report' \in [Script -> Readings]
  BY <1>1, CommitAccounted
<1> HIDE DEF written
<1>6. TypeOK'
  <2>1. \A h \in heartbeats' : /\ h = HeartbeatRow(h) /\ h.ping \in 1..Len(sent)
                               /\ h.day \in Nat /\ h.install \in Installs \cup {NoInstall}
    <3>1. x.day \in Nat /\ x.install \in Installs \cup {NoInstall}
      BY <1>2 DEF Requests
    <3> HIDE DEF x
    <3> QED
      BY <1>1, <1>2, <3>1 DEF TypeOK, HeartbeatRow
  <2>2. \A r \in kindRows' : r.ping \in 1..Len(sent)
    BY <1>1, <1>2, <1>5 DEF TypeOK
  <2>3. \A v \in Worker : worker'[v].pc # "idle" => worker'[v].ping \in 1..Len(sent)
    BY <1>1, <1>4, IdleTyped DEF TypeOK
  <2> QED
    BY <1>1, <1>2, <1>3, <1>4, <1>10, <2>1, <2>2, <2>3 DEF TypeOK, HeartbeatRow
<1>7. KindsAnchored'
  <2> SUFFICES ASSUME NEW r \in kindRows'
               PROVE  \E h \in heartbeats' : h.install = r.install /\ h.day = r.day
    BY DEF KindsAnchored
  <2>1. CASE r \in written
    BY <1>2, <1>5, <2>1 DEF HeartbeatRow
  <2>2. CASE r \in kindRows
    <3>1. PICK h \in heartbeats : h.install = r.install /\ h.day = r.day
      BY <1>1, <2>2 DEF KindsAnchored
    <3>2. CASE SameKey(h, x)
      <4>1. HeartbeatRow(x) \in heartbeats'
        BY <1>2
      <4>2. HeartbeatRow(x).install = h.install /\ HeartbeatRow(x).day = h.day
        BY <3>2 DEF SameKey, HeartbeatRow
      <4> QED
        BY <3>1, <4>1, <4>2
    <3>3. CASE ~SameKey(h, x)
      BY <1>2, <3>1, <3>3
    <3> QED
      BY <3>2, <3>3
  <2> QED
    BY <1>2, <2>1, <2>2
<1>8. LatestWhole'
  <2> SUFFICES ASSUME NEW h \in heartbeats', NEW i \in DOMAIN Reported(h)
               PROVE  KindRow(h, i) \in kindRows'
    BY <1>2 DEF LatestWhole, KindRow, Reported
  <2>1. CASE h = HeartbeatRow(x)
    <3>1. Reported(h) = Reported(x) /\ KindRow(h, i) = KindRow(x, i)
      BY <2>1 DEF HeartbeatRow, KindRow, Reported
    <3>2. KindRow(x, i) \in written
      BY <1>2, <3>1 DEF written
    <3> QED
      BY <1>2, <3>1, <3>2
  <2>2. CASE h \in heartbeats /\ ~SameKey(h, x)
    <3>1. KindRow(h, i) \in kindRows
      BY <2>2 DEF LatestWhole
    <3>2. KindRow(h, i).day = h.day /\ KindRow(h, i).install = h.install
      BY DEF KindRow
    <3>3. \A s \in written : ~SameKind(KindRow(h, i), s)
      BY <1>5, <2>2, <3>2 DEF SameKind, SameKey
    <3> QED
      BY <1>2, <3>1, <3>3
  <2> QED
    BY <1>2, <2>1, <2>2
<1>9. KeysUnique'
  <2>1. \A r : SameKey(HeartbeatRow(x), r) => SameKey(r, x)
    BY DEF HeartbeatRow, SameKey
  <2>2. ASSUME NEW g \in heartbeats', NEW h \in heartbeats', SameKey(g, h)
        PROVE  g = h
    <3>1. SameKey(h, g)
      BY <2>2 DEF SameKey
    <3>2. g \in heartbeats /\ h \in heartbeats => g = h
      BY <1>1, <2>2 DEF KeysUnique
    <3>3. g = HeartbeatRow(x) /\ h \in heartbeats => SameKey(h, x)
      BY <2>1, <2>2
    <3>4. h = HeartbeatRow(x) /\ g \in heartbeats => SameKey(g, x)
      BY <2>1, <3>1
    <3> QED
      BY <1>2, <2>2, <3>2, <3>3, <3>4
  <2>3. ASSUME NEW q \in written, NEW r \in written, SameKind(q, r)
        PROVE  q = r
    <3>1. PICK i \in 1..x.wrote : q = KindRow(x, i)
      BY DEF written
    <3>2. PICK j \in 1..x.wrote : r = KindRow(x, j)
      BY DEF written
    <3>3. Reported(x)[i].kind = Reported(x)[j].kind
      BY <2>3, <3>1, <3>2 DEF SameKind, KindRow
    <3>4. i = j
      <4>1. sent \in Seq(Bodies)
        BY <1>1 DEF TypeOK
      <4> QED
        BY <1>2, <3>3, <4>1, ReportedOnce
    <3> QED
      BY <3>1, <3>2, <3>4
  <2>4. ASSUME NEW q \in kindRows', NEW r \in kindRows', SameKind(q, r)
        PROVE  q = r
    <3>1. SameKind(r, q)
      BY <2>4 DEF SameKind, SameKey
    <3>2. q \in kindRows /\ r \in kindRows => q = r
      BY <1>1, <2>4 DEF KeysUnique
    <3> QED
      BY <1>2, <2>3, <2>4, <3>1, <3>2
  <2> QED
    BY <2>2, <2>4 DEF KeysUnique
<1> QED
  BY <1>1, <1>3, <1>4, <1>6, <1>7, <1>8, <1>9, <1>10 DEF IInv

THEOREM StepHolds == IInv /\ LatestWhole /\ [Next]_vars => IInv' /\ LatestWhole'
<1> SUFFICES ASSUME IInv, LatestWhole, [Next]_vars PROVE IInv' /\ LatestWhole'
  OBVIOUS
<1>1. /\ TypeOK /\ MigrationTypeOK /\ MigrationInv /\ RowsExclusive /\ DownIsIdle
      /\ KindsAnchored /\ KeysUnique /\ ActiveAccounted
      /\ report \in [Script -> Readings]
      /\ worker \in [Worker -> Requests] /\ day \in Nat /\ sent \in Seq(Bodies)
  BY DEF IInv, TypeOK
<1>2. ASSUME NEW p \in Process, SchemaStep(p)
      PROVE  IInv' /\ LatestWhole'
  <2>1. /\ Migrate(p) /\ UNCHANGED <<day, worker, heartbeats, kindRows, sent>>
        /\ report' = [q \in Script |-> IF q = p THEN NotBegun ELSE report[q]]
    BY <1>2 DEF SchemaStep, pingVars
  <2>6. /\ report' \in [Script -> Readings]
        /\ \A q \in Script : report'[q] \in {report[q], NotBegun}
    BY <1>1, <2>1, NotBegunTyped
  <2>7. ActiveAccounted'
    BY <1>1, <2>1, <2>6, AccountedStays
  <2>2. MigrationTypeOK' /\ MigrationInv'
    BY <1>1, <2>1, InitDbKeeps, ScriptEndsKeeps DEF Migrate
  <2>3. Serving => Serving'
    BY <1>1, <2>1, ServingStays
  <2>4. TypeOK' /\ RowsExclusive' /\ DownIsIdle'
    BY <1>1, <2>1, <2>2, <2>3, <2>6
    DEF TypeOK, RowsExclusive, Open, DownIsIdle, HeartbeatRow, SameKey
  <2>5. KindsAnchored' /\ KeysUnique' /\ LatestWhole'
    BY <1>1, <2>1 DEF KindsAnchored, KeysUnique, SameKey, SameKind, LatestWhole, KindRow, Reported
  <2> QED
    BY <2>2, <2>4, <2>5, <2>7 DEF IInv
<1>3. CASE Stop
  <2>1. /\ StopApi /\ worker' = [w \in Worker |-> Idle]
        /\ UNCHANGED <<day, heartbeats, kindRows, sent, report>>
    BY <1>3 DEF Stop
  <2>2. MigrationTypeOK' /\ MigrationInv'
    BY <1>1, <2>1, StopApiKeeps
  <2>3. \A w \in Worker : worker'[w] = Idle
    BY <2>1
  <2>4. TypeOK'
    BY <1>1, <2>1, <2>2, <2>3, IdleTyped DEF TypeOK, HeartbeatRow
  <2>5. RowsExclusive' /\ DownIsIdle'
    BY <2>3, IdleTyped DEF RowsExclusive, DownIsIdle, Open
  <2>6. KindsAnchored' /\ KeysUnique' /\ LatestWhole'
    BY <1>1, <2>1 DEF KindsAnchored, KeysUnique, SameKey, SameKind, LatestWhole, KindRow, Reported
  <2> QED
    BY <1>1, <2>1, <2>2, <2>4, <2>5, <2>6, AccountedStays DEF IInv
<1>4. ASSUME NEW w \in Worker, NEW body \in Bodies, Receive(w, body)
      PROVE  IInv' /\ LatestWhole'
  <2> DEFINE r == Request("open", day, body.install, Len(sent) + 1, 0)
  <2>1. /\ Serving /\ sent' = Append(sent, body) /\ Continue(w, r)
        /\ UNCHANGED <<migrationVars, day, heartbeats, kindRows, report>>
    BY <1>4 DEF Receive
  <2>2. /\ sent' \in Seq(Bodies) /\ Len(sent') = Len(sent) + 1
        /\ \A n \in 1..Len(sent) : n \in 1..Len(sent') /\ sent'[n] = sent[n]
    BY <1>1, <2>1, ReportKept
  <2>3. r \in Requests /\ r.pc = "open" /\ r.ping = Len(sent) + 1
    BY <1>1 DEF Request, Requests, Installs
  <2> HIDE DEF r
  <2>4. /\ worker' \in [Worker -> Requests]
        /\ worker'[w] = r
        /\ \A v \in Worker \ {w} : worker'[v] = worker[v]
        /\ RowsExclusive' /\ DownIsIdle'
    BY <1>1, <2>1, <2>3, StepOfWorker
  <2>5. MigrationTypeOK' /\ MigrationInv'
    BY <1>1, <2>1, MigrationUnchanged
  <2>6. r.ping \in 1..Len(sent')
    BY <1>1, <2>2, <2>3
  <2>7. TypeOK'
    BY <1>1, <2>1, <2>2, <2>4, <2>5, <2>6 DEF TypeOK, HeartbeatRow
  <2>8. KindsAnchored' /\ KeysUnique'
    BY <1>1, <2>1 DEF KindsAnchored, KeysUnique, SameKey, SameKind
  <2>9. LatestWhole'
    BY <1>1, <2>1, <2>2 DEF TypeOK, LatestWhole, KindRow, Reported
  <2> QED
    BY <1>1, <2>1, <2>4, <2>5, <2>7, <2>8, <2>9, AccountedStays DEF IInv
<1>5. ASSUME NEW w \in Worker, UpsertHeartbeat(w)
      PROVE  IInv' /\ LatestWhole'
  <2> DEFINE r == [worker[w] EXCEPT !.pc = "kinds"]
  <2>1. /\ worker[w].pc = "open" /\ HeartbeatFree(w) /\ Continue(w, r)
        /\ UNCHANGED <<migrationVars, day, heartbeats, kindRows, sent, report>>
    BY <1>5 DEF UpsertHeartbeat
  <2>2. worker[w] \in Requests
    BY <1>1
  <2>3. /\ r \in Requests /\ r.pc = "kinds" /\ r.ping = worker[w].ping
        /\ r.day = worker[w].day /\ r.install = worker[w].install
    BY <2>2 DEF Requests
  <2> HIDE DEF r
  <2>4. \A v \in Worker \ {w} : ~(Open(v) /\ SameKey(worker[v], r))
    BY <2>1, <2>3 DEF HeartbeatFree, SameKey
  <2>5. Serving /\ r.ping \in 1..Len(sent)
    BY <1>1, <2>1, <2>3 DEF DownIsIdle, TypeOK
  <2> QED
    BY <2>1, <2>3, <2>4, <2>5, RequestStep
<1>6. ASSUME NEW w \in Worker, UpsertKind(w)
      PROVE  IInv' /\ LatestWhole'
  <2> DEFINE r == [worker[w] EXCEPT !.wrote = @ + 1]
  <2>1. /\ Open(w) /\ Continue(w, r)
        /\ UNCHANGED <<migrationVars, day, heartbeats, kindRows, sent, report>>
    BY <1>6 DEF UpsertKind
  <2>2. worker[w] \in Requests
    BY <1>1
  <2>3. /\ r \in Requests /\ r.pc = worker[w].pc /\ r.ping = worker[w].ping
        /\ r.day = worker[w].day /\ r.install = worker[w].install
    <3>1. worker[w].wrote + 1 \in Nat
      BY <2>2 DEF Requests
    <3> QED
      BY <2>2, <3>1 DEF Requests
  <2> HIDE DEF r
  <2>4. \A v \in Worker \ {w} : ~(Open(v) /\ SameKey(worker[v], r))
    BY <1>1, <2>1, <2>3 DEF RowsExclusive, SameKey
  <2>5. Serving /\ r.ping \in 1..Len(sent)
    BY <1>1, <2>1, <2>3 DEF DownIsIdle, TypeOK, Open
  <2> QED
    BY <2>1, <2>3, <2>4, <2>5, RequestStep
<1>7. ASSUME NEW w \in Worker, PingFails(w)
      PROVE  IInv' /\ LatestWhole'
  BY <1>7, IdleTyped, RequestStep DEF PingFails
<1>8. CASE NextDay
  <2>1. day' = day + 1 /\ UNCHANGED <<migrationVars, worker, heartbeats, kindRows, sent, report>>
    BY <1>8 DEF NextDay
  <2>2. MigrationTypeOK' /\ MigrationInv'
    BY <1>1, <2>1, MigrationUnchanged
  <2>3. TypeOK' /\ RowsExclusive' /\ DownIsIdle'
    BY <1>1, <2>1, <2>2 DEF TypeOK, RowsExclusive, Open, DownIsIdle, Serving, migrationVars,
                           HeartbeatRow, SameKey
  <2>4. KindsAnchored' /\ KeysUnique' /\ LatestWhole'
    BY <1>1, <2>1 DEF KindsAnchored, KeysUnique, SameKey, SameKind, LatestWhole, KindRow, Reported
  <2> QED
    BY <1>1, <2>1, <2>2, <2>3, <2>4, AccountedStays DEF IInv
<1>9. CASE UNCHANGED vars
  <2>1. UNCHANGED <<migrationVars, day, worker, heartbeats, kindRows, sent, report>>
    BY <1>9 DEF vars, pingVars
  <2>2. MigrationTypeOK' /\ MigrationInv'
    BY <1>1, <2>1, MigrationUnchanged
  <2>3. TypeOK' /\ RowsExclusive' /\ DownIsIdle'
    BY <1>1, <2>1, <2>2 DEF TypeOK, RowsExclusive, Open, DownIsIdle, Serving, migrationVars,
                           HeartbeatRow, SameKey
  <2>4. KindsAnchored' /\ KeysUnique' /\ LatestWhole'
    BY <1>1, <2>1 DEF KindsAnchored, KeysUnique, SameKey, SameKind, LatestWhole, KindRow, Reported
  <2> QED
    BY <1>1, <2>1, <2>2, <2>3, <2>4, AccountedStays DEF IInv
<1>10. ASSUME NEW p \in Script, ReadActive(p) \/ ReadKinds(p)
       PROVE  IInv' /\ LatestWhole'
  <2>1. UNCHANGED <<migrationVars, day, worker, heartbeats, kindRows, sent>>
    BY <1>10 DEF ReadActive, ReadKinds, pingVars
  <2>2. MigrationTypeOK' /\ MigrationInv'
    BY <1>1, <2>1, MigrationUnchanged
  <2>3. ActiveAccounted' /\ report' \in [Script -> Readings]
    <3>1. CASE ReadActive(p)
      BY <1>1, <3>1, ActiveRead
    <3>2. CASE ReadKinds(p)
      <4>1. report' = [report EXCEPT ![p] = NotBegun]
        BY <3>2 DEF ReadKinds
      <4>2. /\ report' \in [Script -> Readings]
            /\ \A q \in Script : report'[q] \in {report[q], NotBegun}
        BY <1>1, <4>1, NotBegunTyped
      <4> QED
        BY <1>1, <2>1, <4>2, AccountedStays
    <3> QED
      BY <1>10, <3>1, <3>2
  <2>4. TypeOK' /\ RowsExclusive' /\ DownIsIdle'
    BY <1>1, <2>1, <2>2, <2>3 DEF TypeOK, RowsExclusive, Open, DownIsIdle, Serving,
                                 migrationVars, HeartbeatRow, SameKey
  <2>5. KindsAnchored' /\ KeysUnique' /\ LatestWhole'
    BY <1>1, <2>1 DEF KindsAnchored, KeysUnique, SameKey, SameKind, LatestWhole, KindRow, Reported
  <2> QED
    BY <2>2, <2>3, <2>4, <2>5 DEF IInv
<1> QED
  BY <1>2, <1>3, <1>4, <1>5, <1>6, <1>7, <1>8, <1>9, <1>10, CommitKeeps DEF Next, Ping

-----------------------------------------------------------------------------
(* What follows.                                                           *)

\* In every behaviour the schema states and requests are sound and the rows
\* of an install and day are one ping's through and through.
THEOREM Sound == Spec => []IInv /\ []LatestWhole
<1>1. Init => IInv /\ LatestWhole
  BY InitHolds
<1>2. IInv /\ LatestWhole /\ [Next]_vars => IInv' /\ LatestWhole'
  BY StepHolds
<1> QED
  BY <1>1, <1>2, PTL DEF Spec

\* Schema states, requests and committed rows fit together at every step.
THEOREM Invariance == Spec => []IInv
BY Sound, PTL

\* The API never serves over a schema that lacks a table or a column.
THEOREM NeverUnmigrated == Spec => []ServingIsMigrated
<1>1. IInv => ServingIsMigrated
  BY DEF IInv, MigrationInv, MigratedSoFar, ServingIsMigrated, Serving, Process
<1> QED
  BY <1>1, Sound, PTL

\* No two pings wait for each other.
THEOREM NoDeadlock == Spec => []KindsNeverWait
<1>1. IInv => KindsNeverWait
  <2> SUFFICES ASSUME RowsExclusive, NEW w \in Worker, Open(w), NEW v \in Worker \ {w},
                      WroteKind(v, NextKind(w))
               PROVE  FALSE
    BY DEF IInv, KindsNeverWait, KindFree
  <2>1. Open(v) /\ SameKey(worker[v], worker[w])
    BY DEF WroteKind, NextKind, KindRow, SameKind, SameKey
  <2> QED
    BY <2>1 DEF RowsExclusive
<1> QED
  BY <1>1, Sound, PTL

\* An install that a report counts under a kind it has counted as active, or
\* one of its pings was recorded between the two queries.
THEOREM ReportsAgree == Spec => []KindsAccounted
<1>1. IInv => KindsAccounted
  <2> SUFFICES ASSUME KindsAnchored, ActiveAccounted, NEW p \in Script, report[p].begun,
                      NEW kind \in Kind, NEW install \in KindInstalls(kind, Window)
               PROVE  install \in report[p].active \cup report[p].since
    BY DEF IInv, KindsAccounted
  <2>1. PICK r \in kindRows : /\ r.install = install /\ install # NoInstall
                              /\ r.day >= day - Window
    BY DEF KindInstalls, Recent
  <2>2. PICK h \in heartbeats : h.install = install /\ h.day = r.day
    BY <2>1 DEF KindsAnchored
  <2>3. install \in ActiveInstalls(Window)
    BY <2>1, <2>2 DEF ActiveInstalls, Recent
  <2> QED
    BY <2>3 DEF ActiveAccounted
<1> QED
  BY <1>1, Sound, PTL

-----------------------------------------------------------------------------
(* Heartbeat implements DailyReports.                                      *)

\* No two requests serve the same ping, so that filing one leaves the others
\* pending.
PingsApart == \A v, w \in Busy : v # w => worker[v].ping # worker[w].ping

\* A ping as DailyReports has it, by the bodies received.
AsReportIn(bodies, r) ==
    [ping |-> r.ping, day |-> r.day, install |-> r.install,
     kinds |-> CleanKinds(bodies[r.ping])]

LEMMA PendingIs ==
    /\ Pending = {AsReportIn(sent, worker[w]) : w \in Busy}
    /\ Pending' = {AsReportIn(sent', worker'[w]) : w \in Busy'}
BY DEF Pending, AsReport, AsReportIn, Reported

\* A step of the worker w that leaves the bodies alone: its ping stays pending
\* or leaves, and the others' stay.
LEMMA WorkerStep ==
    ASSUME worker \in [Worker -> Requests], PingsApart, NEW w \in Busy, NEW r \in Requests,
           Continue(w, r), UNCHANGED sent,
           r.pc # "idle" => /\ r.ping = worker[w].ping /\ r.day = worker[w].day
                            /\ r.install = worker[w].install
    PROVE  /\ PingsApart'
           /\ AsReportIn(sent, worker[w]) \in Pending
           /\ Pending' = IF r.pc = "idle" THEN Pending \ {AsReportIn(sent, worker[w])} ELSE Pending
<1> DEFINE x == AsReportIn(sent, worker[w])
<1>1. /\ w \in Worker /\ worker'[w] = r
      /\ \A v \in Worker \ {w} : worker'[v] = worker[v]
  BY DEF Continue, Busy
<1>2. Busy' = IF r.pc = "idle" THEN Busy \ {w} ELSE Busy
  BY <1>1 DEF Busy
<1>3. \A v \in Busy \ {w} : AsReportIn(sent', worker'[v]) = AsReportIn(sent, worker[v])
  BY <1>1 DEF Busy
<1>4. \A v \in Busy \ {w} : AsReportIn(sent, worker[v]) # x
  BY DEF PingsApart, AsReportIn
<1>5. r.pc # "idle" => AsReportIn(sent', worker'[w]) = x
  BY <1>1 DEF AsReportIn
<1>6. PingsApart'
  BY <1>1, <1>2 DEF PingsApart, Busy
<1>7. x \in Pending
  BY PendingIs
<1> HIDE DEF x
<1>8. CASE r.pc = "idle"
  <2>1. Pending' = {AsReportIn(sent, worker[v]) : v \in Busy \ {w}}
    BY <1>2, <1>3, <1>8, PendingIs
  <2>2. Pending = {AsReportIn(sent, worker[v]) : v \in Busy \ {w}} \cup {x}
    BY PendingIs DEF x
  <2> QED
    BY <1>4, <1>6, <1>7, <1>8, <2>1, <2>2 DEF x
<1>9. CASE r.pc # "idle"
  <2>1. \A v \in Busy : AsReportIn(sent', worker'[v]) = AsReportIn(sent, worker[v])
    BY <1>3, <1>5, <1>9 DEF x
  <2>2. Pending' = Pending
    BY <1>2, <1>9, <2>1, PendingIs
  <2> QED
    BY <1>6, <1>7, <1>9, <2>2 DEF x
<1> QED
  BY <1>8, <1>9

\* A step keeps pings apart and is one of DailyReports, or none.
LEMMA ReportsStep ==
    ASSUME IInv, PingsApart, [Next]_vars
    PROVE  PingsApart' /\ [Reports!Next]_(Reports!reportVars)
<1> USE DEF Reports!Next, Reports!reportVars
<1>1. /\ worker \in [Worker -> Requests] /\ day \in Nat /\ sent \in Seq(Bodies)
      /\ \A w \in Busy : worker[w].ping \in 1..Len(sent)
  BY DEF IInv, TypeOK, Busy
<1>2. ASSUME UNCHANGED <<worker, sent>> PROVE PingsApart' /\ Pending' = Pending
  BY <1>2, PendingIs DEF PingsApart, Busy
<1>3. ASSUME NEW p \in Process, SchemaStep(p)
      PROVE  PingsApart' /\ [Reports!Next]_(Reports!reportVars)
  BY <1>2, <1>3 DEF SchemaStep, pingVars
<1>4. CASE Stop
  <2>1. /\ worker' = [w \in Worker |-> Idle]
        /\ UNCHANGED <<day, heartbeats, kindRows, sent>>
    BY <1>4 DEF Stop
  <2>2. Busy' = {}
    BY <2>1, IdleTyped DEF Busy
  <2>3. Pending' = Pending \ Pending
    BY <2>2, PendingIs
  <2>4. Reports!Lose
    BY <2>1, <2>3 DEF Reports!Lose
  <2> QED
    BY <2>2, <2>4 DEF PingsApart
<1>5. ASSUME NEW w \in Worker, NEW body \in Bodies, Receive(w, body)
      PROVE  PingsApart' /\ [Reports!Next]_(Reports!reportVars)
  <2> DEFINE r == Request("open", day, body.install, Len(sent) + 1, 0)
             arriving == [install |-> body.install, kinds |-> CleanKinds(body)]
  <2>1. /\ w \notin Busy /\ sent' = Append(sent, body)
        /\ UNCHANGED <<day, heartbeats, kindRows>>
        /\ worker'[w] = r /\ \A v \in Worker \ {w} : worker'[v] = worker[v]
    BY <1>1, <1>5 DEF Receive, Continue, Busy
  <2>2. /\ Len(sent) \in Nat /\ Len(sent') = Len(sent) + 1 /\ sent'[Len(sent) + 1] = body
        /\ \A n \in 1..Len(sent) : sent'[n] = sent[n]
    BY <1>1, <2>1, ReportKept
  <2>3. Busy' = Busy \cup {w}
    BY <2>1 DEF Busy, Request
  <2>4. \A v \in Busy : AsReportIn(sent', worker'[v]) = AsReportIn(sent, worker[v])
    BY <1>1, <2>1, <2>2 DEF AsReportIn, Busy
  <2>5. AsReportIn(sent', worker'[w]) = Reports!Arrived(Len(sent'), day, arriving)
    BY <2>1, <2>2 DEF AsReportIn, Reports!Arrived, Request
  <2>6. PingsApart'
    <3>1. \A v \in Busy : worker'[v].ping = worker[v].ping /\ worker'[v].ping \in 1..Len(sent)
      BY <1>1, <2>1 DEF Busy
    <3>2. worker'[w].ping = Len(sent) + 1
      BY <2>1 DEF Request
    <3> HIDE DEF r
    <3>3. \A u, v \in Busy \cup {w} : u # v => worker'[u].ping # worker'[v].ping
      BY <2>1, <2>2, <3>1, <3>2 DEF PingsApart
    <3> QED
      BY <2>3, <3>3 DEF PingsApart
  <2> HIDE DEF r
  <2>7. Pending' = Pending \cup {Reports!Arrived(Len(sent'), day, arriving)}
    BY <2>3, <2>4, <2>5, PendingIs
  <2>8. Reports!Arrive
    BY <2>1, <2>2, <2>7 DEF Reports!Arrive
  <2> QED
    BY <2>6, <2>8
<1>6. ASSUME NEW w \in Worker, UpsertHeartbeat(w) \/ UpsertKind(w)
      PROVE  PingsApart' /\ [Reports!Next]_(Reports!reportVars)
  <2>1. /\ w \in Busy /\ worker[w] \in Requests /\ UNCHANGED <<day, heartbeats, kindRows, sent>>
        /\ \/ Continue(w, [worker[w] EXCEPT !.pc = "kinds"])
           \/ Open(w) /\ Continue(w, [worker[w] EXCEPT !.wrote = @ + 1])
    BY <1>1, <1>6 DEF UpsertHeartbeat, UpsertKind, Open, Busy
  <2>2. PICK r \in Requests : /\ Continue(w, r) /\ r.pc = "kinds"
                              /\ r.ping = worker[w].ping /\ r.day = worker[w].day
                              /\ r.install = worker[w].install
    <3>1. CASE Continue(w, [worker[w] EXCEPT !.pc = "kinds"])
      <4>1. [worker[w] EXCEPT !.pc = "kinds"] \in Requests
        BY <2>1 DEF Requests
      <4> QED
        BY <2>1, <3>1, <4>1 DEF Requests
    <3>2. CASE Open(w) /\ Continue(w, [worker[w] EXCEPT !.wrote = @ + 1])
      <4> DEFINE r == [worker[w] EXCEPT !.wrote = @ + 1]
      <4>1. worker[w].pc = "kinds" /\ worker[w].wrote + 1 \in Nat
        BY <2>1, <3>2 DEF Requests, Open
      <4>2. /\ r \in Requests /\ r.pc = "kinds" /\ r.ping = worker[w].ping
            /\ r.day = worker[w].day /\ r.install = worker[w].install
        BY <2>1, <4>1 DEF Requests
      <4> HIDE DEF r
      <4> QED
        BY <3>2, <4>2 DEF r
    <3> QED
      BY <2>1, <3>1, <3>2
  <2>3. PingsApart' /\ Pending' = Pending
    BY <1>1, <2>1, <2>2, WorkerStep
  <2> QED
    BY <2>1, <2>3
<1>7. ASSUME NEW w \in Worker, PingFails(w)
      PROVE  PingsApart' /\ [Reports!Next]_(Reports!reportVars)
  <2>1. w \in Busy /\ Continue(w, Idle) /\ UNCHANGED <<day, heartbeats, kindRows, sent>>
    BY <1>7 DEF PingFails, Busy
  <2>2. PingsApart' /\ Pending' = Pending \ {AsReportIn(sent, worker[w])}
        /\ AsReportIn(sent, worker[w]) \in Pending
    BY <1>1, <2>1, IdleTyped, WorkerStep
  <2>3. Reports!Lose
    BY <2>1, <2>2 DEF Reports!Lose
  <2> QED
    BY <2>2, <2>3
<1>8. ASSUME NEW w \in Worker, Commit(w)
      PROVE  PingsApart' /\ [Reports!Next]_(Reports!reportVars)
  <2> DEFINE x == worker[w]
             p == AsReportIn(sent, x)
             written == {KindRow(x, i) : i \in 1..x.wrote}
  <2>1. /\ w \in Busy /\ Continue(w, Idle) /\ UNCHANGED <<day, sent>>
        /\ DOMAIN Reported(x) = 1..x.wrote
        /\ heartbeats' = {h \in heartbeats : ~SameKey(h, x)} \cup {HeartbeatRow(x)}
        /\ kindRows' = {k \in kindRows : \A s \in written : ~SameKind(k, s)} \cup written
    BY <1>8 DEF Commit, Open, Busy
  <2>2. PingsApart' /\ Pending' = Pending \ {p} /\ p \in Pending
    BY <1>1, <2>1, IdleTyped, WorkerStep
  <2>3. /\ p.ping = x.ping /\ p.day = x.day /\ p.install = x.install
        /\ p.kinds = Reported(x)
    BY DEF AsReportIn, Reported
  <2> HIDE DEF p, x
  <2>4. \A h : Reports!Replaces(p, h) = SameKey(h, x)
    BY <2>3 DEF Reports!Replaces, SameKey
  <2>5. Reports!Heartbeat(p) = HeartbeatRow(x)
    BY <2>3 DEF Reports!Heartbeat, HeartbeatRow
  <2>6. \A i : Reports!KindOf(p, i) = KindRow(x, i)
    BY <2>3 DEF Reports!KindOf, KindRow
  <2>7. written = {Reports!KindOf(p, i) : i \in DOMAIN p.kinds}
    BY <2>1, <2>3, <2>6
  <2>8. \A k : (\A s \in written : ~SameKind(k, s))
                 <=> ~(Reports!Replaces(p, k) /\ \E i \in DOMAIN p.kinds : p.kinds[i].kind = k.kind)
    <3>1. \A k, i : SameKind(k, KindRow(x, i)) <=> SameKey(k, x) /\ k.kind = p.kinds[i].kind
      BY <2>3 DEF SameKind, SameKey, KindRow
    <3>2. \A k : (\A s \in written : ~SameKind(k, s))
                   <=> \A i \in DOMAIN p.kinds : ~SameKind(k, KindRow(x, i))
      BY <2>1, <2>3
    <3> HIDE DEF written
    <3> QED
      BY <2>4, <3>1, <3>2
  <2> HIDE DEF written
  <2>9. Reports!File(p)
    BY <2>1, <2>2, <2>4, <2>5, <2>7, <2>8 DEF Reports!File
  <2> QED
    BY <2>2, <2>9
<1>9. CASE NextDay
  <2>1. day' = day + 1 /\ UNCHANGED <<worker, heartbeats, kindRows, sent>>
    BY <1>9 DEF NextDay
  <2> QED
    BY <1>2, <2>1 DEF Reports!NextDay
<1>10. CASE UNCHANGED vars
  BY <1>2, <1>10 DEF vars, pingVars
<1>11. ASSUME NEW p \in Script, ReadActive(p) \/ ReadKinds(p)
       PROVE  PingsApart' /\ [Reports!Next]_(Reports!reportVars)
  <2>1. UNCHANGED <<day, worker, heartbeats, kindRows, sent>>
    BY <1>11 DEF ReadActive, ReadKinds, pingVars
  <2> QED
    BY <1>2, <2>1
<1> QED
  BY <1>3, <1>4, <1>5, <1>6, <1>7, <1>8, <1>9, <1>10, <1>11 DEF Next, Ping

\* Whatever order the statements of pings take and wherever they are cut off,
\* each is filed whole, at most once and under its day, or leaves nothing.
THEOREM ReportsImplemented == Spec => ImplementsReports
<1>1. Init => PingsApart /\ Reports!Init
  BY IdleTyped, PendingIs
  DEF Init, PingInit, PingsApart, Busy, Reports!Init
<1> QED
  BY <1>1, Invariance, ReportsStep, PTL DEF Spec, ImplementsReports, Reports!Spec
=============================================================================
