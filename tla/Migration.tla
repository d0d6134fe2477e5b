----------------------------- MODULE Migration -----------------------------
(***************************************************************************)
(* The schema: stats/collector.py init_db, run by the API in its lifespan  *)
(* handler and by the maintenance scripts (dump_stats.py,                  *)
(* invite_waitlist.py) against the same PostgreSQL database.               *)
(*                                                                         *)
(* init_db creates the tables of this process's metadata that are missing  *)
(* and then, table by table, adds the columns that came after the table.   *)
(* It looks first and acts later, nothing keeps two of them apart, and an  *)
(* exception ends the process.  DDL is transactional: create_all creates   *)
(* all the tables it misses or none, every ALTER TABLE is a transaction.   *)
(***************************************************************************)
EXTENDS Integers, Sequences

CONSTANTS
    Api,           \* the API's process, restarted whenever it ends
    Script,        \* processes of maintenance scripts, started by hand
    Table,         \* the tables of the metadata
    Imports,       \* per process, the tables of the modules it imported
    Column,
    Added,         \* the tables of _ADDED_COLUMNS, in order
    AddedColumns,  \* per table, its added columns, in order
    MaxStops       \* bound: times the API is stopped

ASSUME ApiIsNoScript == Api \notin Script
ASSUME StopsBounded == MaxStops \in Nat

Process == Script \cup {Api}

ASSUME ImportsKnown == Imports \in [Process -> SUBSET Table]
ASSUME AddedKnown == Added \in Seq(Table)
ASSUME ColumnsKnown == AddedColumns \in [Table -> Seq(Column)]

\* Every process that calls init_db imported the modules of these tables, so
\* the test for a table that was never created passes.
ASSUME AddedImported == \A p \in Process, i \in DOMAIN Added : Added[i] \in Imports[p]

VARIABLES
    tables,    \* the tables that exist
    columns,   \* of the added columns of a table, those that exist
    migrator,  \* the processes, with their locals
    stops

migrationVars == <<tables, columns, migrator, stops>>

-----------------------------------------------------------------------------

Late(t) == {AddedColumns[t][i] : i \in DOMAIN AddedColumns[t]}
Complete(t, cols) == Late(t) \subseteq cols[t]

Phases == {"down", "tables", "create", "columns", "alter", "up"}
Migrator == [pc : Phases, fresh : SUBSET Table, at : Nat, existing : SUBSET Column, col : Nat]

\* fresh: the tables found missing; at: the table of _ADDED_COLUMNS the loop
\* is at; existing: the columns found there; col: the column it is at.
Locals(pc, fresh, at, existing, col) ==
    [pc |-> pc, fresh |-> fresh, at |-> at, existing |-> existing, col |-> col]
Phase(pc) == Locals(pc, {}, 0, {}, 0)
AtTable(i) == Locals("columns", {}, i, {}, 0)
Down == Phase("down")

Become(p, m) == migrator' = [migrator EXCEPT ![p] = m]

\* What an older release left: some of the tables, with the first of their
\* added columns.
MigrationInit ==
    /\ tables \in SUBSET Table
    /\ columns \in [Table -> SUBSET Column]
    /\ \A t \in Table : \E n \in 0..Len(AddedColumns[t]) :
          columns[t] = {AddedColumns[t][i] : i \in 1..(IF t \in tables THEN n ELSE 0)}
    /\ migrator = [p \in Process |-> Down]
    /\ stops = 0

-----------------------------------------------------------------------------
(* init_db.                                                                *)

Launch(p) ==
    /\ migrator[p].pc = "down"
    /\ Become(p, Phase("tables"))
    /\ UNCHANGED <<tables, columns, stops>>

\* create_all asks which of its tables exist.
LookTables(p) ==
    /\ migrator[p].pc = "tables"
    /\ Become(p, Locals("create", Imports[p] \ tables, 0, {}, 0))
    /\ UNCHANGED <<tables, columns, stops>>

\* Mutation: the new tables are created without their added columns.
CreateTablesBare(p) ==
    /\ migrator[p].pc = "create"
    /\ migrator[p].fresh \cap tables = {}
    /\ tables' = tables \cup migrator[p].fresh
    /\ Become(p, AtTable(Len(Added) + 1))
    /\ UNCHANGED <<columns, stops>>

\* A table is created with all the columns of its definition.
CreateTables(p) ==
    /\ migrator[p].pc = "create"
    /\ migrator[p].fresh \cap tables = {}
    /\ tables' = tables \cup migrator[p].fresh
    /\ columns' = [t \in Table |-> IF t \in migrator[p].fresh THEN Late(t) ELSE columns[t]]
    /\ Become(p, AtTable(1))
    /\ UNCHANGED stops

\* One of them exists by now: none is created and the process ends.
CreateFails(p) ==
    /\ migrator[p].pc = "create"
    /\ migrator[p].fresh \cap tables # {}
    /\ Become(p, Down)
    /\ UNCHANGED <<tables, columns, stops>>

\* Mutation: the columns that exist are not asked for.
LookColumnsBlind(p) ==
    /\ migrator[p].pc = "columns"
    /\ migrator[p].at \in DOMAIN Added
    /\ Become(p, Locals("alter", {}, migrator[p].at, {}, 1))
    /\ UNCHANGED <<tables, columns, stops>>

LookColumns(p) ==
    /\ migrator[p].pc = "columns"
    /\ migrator[p].at \in DOMAIN Added
    /\ Added[migrator[p].at] \in tables
    /\ Become(p, Locals("alter", {}, migrator[p].at, columns[Added[migrator[p].at]], 1))
    /\ UNCHANGED <<tables, columns, stops>>

\* The column the loop is at.
TableOf(p) == Added[migrator[p].at]
ColumnOf(p) == AddedColumns[TableOf(p)][migrator[p].col]
InColumns(p) == migrator[p].pc = "alter" /\ migrator[p].col \in DOMAIN AddedColumns[TableOf(p)]

ToNextColumn(p) ==
    Become(p, Locals("alter", {}, migrator[p].at, migrator[p].existing, migrator[p].col + 1))

SkipColumn(p) ==
    /\ InColumns(p)
    /\ ColumnOf(p) \in migrator[p].existing
    /\ ToNextColumn(p)
    /\ UNCHANGED <<tables, columns, stops>>

AddColumn(p) ==
    /\ InColumns(p)
    /\ ColumnOf(p) \notin migrator[p].existing
    /\ ColumnOf(p) \notin columns[TableOf(p)]
    /\ columns' = [columns EXCEPT ![TableOf(p)] = @ \cup {ColumnOf(p)}]
    /\ ToNextColumn(p)
    /\ UNCHANGED <<tables, stops>>

\* Mutation: the error is taken for a sign that another process migrates.
AddFailsQuietly(p) ==
    /\ InColumns(p)
    /\ ColumnOf(p) \notin migrator[p].existing
    /\ ColumnOf(p) \in columns[TableOf(p)]
    /\ Become(p, Phase("up"))
    /\ UNCHANGED <<tables, columns, stops>>

\* The column exists by now: the process ends.
AddFails(p) ==
    /\ InColumns(p)
    /\ ColumnOf(p) \notin migrator[p].existing
    /\ ColumnOf(p) \in columns[TableOf(p)]
    /\ Become(p, Down)
    /\ UNCHANGED <<tables, columns, stops>>

NextTable(p) ==
    /\ migrator[p].pc = "alter"
    /\ migrator[p].col \notin DOMAIN AddedColumns[TableOf(p)]
    /\ Become(p, AtTable(migrator[p].at + 1))
    /\ UNCHANGED <<tables, columns, stops>>

\* The API serves; a script does its own work.
Finish(p) ==
    /\ migrator[p].pc = "columns"
    /\ migrator[p].at \notin DOMAIN Added
    /\ Become(p, Phase("up"))
    /\ UNCHANGED <<tables, columns, stops>>

\* A script ends, or is stopped on its way.
ScriptEnds(p) ==
    /\ p \in Script
    /\ migrator[p].pc # "down"
    /\ Become(p, Down)
    /\ UNCHANGED <<tables, columns, stops>>

\* The API's container is stopped or replaced.
StopApi ==
    /\ stops < MaxStops
    /\ migrator[Api].pc # "down"
    /\ Become(Api, Down)
    /\ stops' = stops + 1
    /\ UNCHANGED <<tables, columns>>

InitDb(p) ==
    \/ Launch(p)
    \/ LookTables(p)
    \/ CreateTables(p)
    \/ CreateFails(p)
    \/ LookColumns(p)
    \/ SkipColumn(p)
    \/ AddColumn(p)
    \/ AddFails(p)
    \/ NextTable(p)
    \/ Finish(p)

Migrate(p) == InitDb(p) \/ ScriptEnds(p)

MigrationNext == (\E p \in Process : Migrate(p)) \/ StopApi
MigrationSpec == MigrationInit /\ [][MigrationNext]_migrationVars

-----------------------------------------------------------------------------
(* Properties.                                                             *)

Serving == migrator[Api].pc = "up"

\* Schema states and locals are of their types (init_db).
MigrationTypeOK ==
    /\ tables \subseteq Table
    /\ columns \in [Table -> SUBSET Column]
    /\ \A t \in Table \ tables : columns[t] = {}
    /\ migrator \in [Process -> Migrator]
    /\ stops \in 0..MaxStops

\* A process with locals m has its tables when create_all is done, and every
\* table it went through is complete, as is the one it is at up to its column.
MigratedSoFar(p, m, tbls, cols) ==
    /\ m.pc = "create" => Imports[p] \subseteq tbls \cup m.fresh
    /\ m.pc \in {"columns", "alter", "up"} => Imports[p] \subseteq tbls
    /\ m.pc \in {"columns", "alter"} =>
          /\ m.at \in 1..Len(Added) + 1
          /\ \A i \in DOMAIN Added : i < m.at => Complete(Added[i], cols)
    /\ m.pc = "alter" =>
          /\ m.at \in DOMAIN Added
          /\ m.col \in 1..Len(AddedColumns[Added[m.at]]) + 1
          /\ m.existing \subseteq cols[Added[m.at]]
          /\ \A i \in DOMAIN AddedColumns[Added[m.at]] :
                i < m.col => AddedColumns[Added[m.at]][i] \in cols[Added[m.at]]
    /\ m.pc = "up" => \A i \in DOMAIN Added : Complete(Added[i], cols)

MigrationInv == \A p \in Process : MigratedSoFar(p, migrator[p], tables, columns)

\* The API takes requests only over a schema with all its tables and all
\* their columns, whatever scripts migrated, failed or were stopped meanwhile
\* (main.py:26, before the yield).
ServingIsMigrated ==
    Serving => /\ Imports[Api] \subseteq tables
               /\ \A i \in DOMAIN Added : Complete(Added[i], columns)

\* An API that is down comes up, although a script that migrates at the same
\* time can make a start of it fail (docker-compose.yml, restart).
EventuallyServes == (migrator[Api].pc = "down") ~> Serving
=============================================================================
