------------------------------- MODULE Schema --------------------------------
(***************************************************************************)
(* The start of the database layer: MySqlManager::Init (MySqlManager.cpp)  *)
(* connects, then brings every table of m_mapTable to its declared columns *)
(* by CREATE and ALTER statements through MySQLTool (mysqltool.cpp).  Any  *)
(* statement may fail, and the process may end between any two of them;    *)
(* main then returns, and a later start finds the tables as they were      *)
(* left.                                                                   *)
(*                                                                         *)
(* A column is "declared" when it has the definition m_mapTable gives it   *)
(* and "old" otherwise.  desc prints the bare type while sType holds the   *)
(* whole definition ("bigint(20) NOT NULL ..."), so the two texts differ   *)
(* for every column and every column found is modified.  The database      *)
(* itself exists: connect() names it and fails without it.  UpdateTable    *)
(* has no caller.                                                          *)
(***************************************************************************)
EXTENDS Naturals

CONSTANTS
  TableCount,    \* the tables of m_mapTable are 1..TableCount, in key order
  mapField,      \* table -> its declared columns, numbered in key order
  ForeignColumns \* columns no declaration names, which a table may have too

DbTables == 1..TableCount
Columns == UNION {mapField[t] : t \in DbTables} \cup ForeignColumns

ASSUME SchemaAssumption ==
  /\ TableCount \in Nat
  /\ mapField \in [DbTables -> SUBSET Nat]
  /\ \A t \in DbTables : mapField[t] # {} /\ mapField[t] \cap ForeignColumns = {}

VARIABLES
  tables,     \* the database: table -> its columns, none while it does not exist
  stored,     \* history: tables before the first start
  initPc,     \* where Init stands; "down" before it, "running" after it
  it,         \* the table Init is at
  rest,       \* CheckTable: declared columns the table lacks
  mapChange,  \* CheckTable: columns to modify
  m_mysql,    \* MySQLTool::m_mysql is not NULL
  troubled    \* history: tables with a failed statement since the start

schemaVars == <<tables, stored, initPc, it, rest, mapChange, m_mysql, troubled>>

Definitions == {"declared", "old"}
Layouts == UNION {[C -> Definitions] : C \in SUBSET Columns}
Exists(t) == DOMAIN tables[t] # {}

-----------------------------------------------------------------------------
(* MySQLTool *)

\* What comes of a statement.  A lost connection is noticed by
\* CR_SERVER_GONE_ERROR and replaced once.  "unreached": no connection could be
\* made; "rejected": the server refuses it, or fails again after the
\* replacement; "replyLost": it ran, and its answer did not arrive.
Results == {"ok", "rejected", "replyLost", "unreached"}
Ran(r) == r \in {"ok", "replyLost"}

\* connect() overwrites m_mysql with what mysql_real_connect returns.
Query(r) == m_mysql' = (r # "unreached")
Execute(r) == m_mysql' = (r # "unreached")

\* Init returns false and main returns, or the process dies.
Exit ==
  /\ initPc' = "down"
  /\ m_mysql' = FALSE
  /\ it' = 1
  /\ rest' = {}
  /\ mapChange' = {}
  /\ troubled' = {}

-----------------------------------------------------------------------------
(* MySqlManager *)

ConnectDb ==
  /\ initPc = "down"
  /\ initPc' = "database"
  /\ m_mysql' = TRUE
  /\ UNCHANGED <<tables, stored, it, rest, mapChange, troubled>>

\* CREATE DATABASE is refused, because the database exists, and Init returns false.
CreateDatabase == Exit

\* The database is among those the server lists, unless the query fails.
CheckDatabase(r) ==
  /\ initPc = "database"
  /\ IF r = "ok"
     THEN /\ initPc' = "table"
          /\ Query(r)
          /\ UNCHANGED <<it, rest, mapChange, troubled>>
     ELSE CreateDatabase
  /\ UNCHANGED <<tables, stored>>

\* The loop of Init goes on to the next table.
NextTable ==
  /\ it' = it + 1
  /\ initPc' = "table"
  /\ UNCHANGED <<rest, mapChange>>

\* CREATE TABLE IF NOT EXISTS: a table that is there keeps its columns.
CreateTable(r) ==
  /\ Execute(r)
  /\ tables' = IF Ran(r) /\ ~Exists(it)
               THEN [tables EXCEPT ![it] = [c \in mapField[it] |-> "declared"]]
               ELSE tables

\* CheckTable, desc without a result: the table is taken to be missing, also when
\* only the query failed, and a successful CREATE ends the check.
CheckMissing(q, r) ==
  /\ initPc = "table"
  /\ it \in DbTables
  /\ q = "ok" => ~Exists(it)
  /\ CreateTable(r)
  /\ IF r = "ok" THEN NextTable
     ELSE initPc' = "create" /\ UNCHANGED <<it, rest, mapChange>>
  /\ troubled' = IF q = "ok" /\ r = "ok" THEN troubled ELSE troubled \cup {it}
  /\ UNCHANGED stored

\* CheckTable, desc with a result: rows of undeclared columns are passed over.
CheckColumns ==
  /\ initPc = "table"
  /\ it \in DbTables
  /\ Exists(it)
  /\ Query("ok")
  /\ rest' = mapField[it] \ DOMAIN tables[it]
  /\ mapChange' = mapField[it] \cap DOMAIN tables[it]
  /\ initPc' = "alter"
  /\ UNCHANGED <<tables, stored, it, troubled>>

\* ALTER TABLE of the current table, adding or modifying column c.
Altered(c) ==
  [tables EXCEPT ![it] =
     [x \in DOMAIN tables[it] \cup {c} |-> IF x = c THEN "declared" ELSE tables[it][x]]]

\* A failed ALTER makes CheckTable return false; Init then runs CREATE TABLE.
AlterResult(c, r) ==
  /\ Execute(r)
  /\ tables' = IF Ran(r) THEN Altered(c) ELSE tables
  /\ initPc' = IF r = "ok" THEN "alter" ELSE "create"
  /\ troubled' = IF r = "ok" THEN troubled ELSE troubled \cup {it}
  /\ UNCHANGED <<stored, it>>

\* A map is walked by ascending keys.
Least(c, columns) == c \in columns /\ \A d \in columns : c <= d

\* Faulty: only the first missing column is added.
AddColumnOnce(c, r) ==
  /\ initPc = "alter"
  /\ Least(c, rest)
  /\ AlterResult(c, r)
  /\ rest' = {}
  /\ mapChange' = IF r = "ok" THEN mapChange ELSE {}

AddColumn(c, r) ==
  /\ initPc = "alter"
  /\ Least(c, rest)
  /\ AlterResult(c, r)
  /\ rest' = IF r = "ok" THEN rest \ {c} ELSE {}
  /\ mapChange' = IF r = "ok" THEN mapChange ELSE {}

ModifyColumn(c, r) ==
  /\ initPc = "alter"
  /\ rest = {}
  /\ Least(c, mapChange)
  /\ AlterResult(c, r)
  /\ mapChange' = IF r = "ok" THEN mapChange \ {c} ELSE {}
  /\ UNCHANGED rest

\* CheckTable returns true.
TableChecked ==
  /\ initPc = "alter"
  /\ rest = {} /\ mapChange = {}
  /\ NextTable
  /\ UNCHANGED <<tables, stored, m_mysql, troubled>>

\* CheckTable returned false: Init creates the table, which changes nothing when
\* it is there, and goes on when the statement succeeds.
CreateAfterCheck(r) ==
  /\ initPc = "create"
  /\ CreateTable(r)
  /\ IF r = "ok" THEN NextTable /\ UNCHANGED troubled
     ELSE UNCHANGED <<it, rest, mapChange, troubled>> /\ initPc' = "failed"
  /\ UNCHANGED stored

\* Init returns false: main returns -2.
InitFails ==
  /\ initPc = "failed"
  /\ Exit
  /\ UNCHANGED <<tables, stored>>

InitReturns ==
  /\ initPc = "table"
  /\ it = TableCount + 1
  /\ initPc' = "running"
  /\ UNCHANGED <<tables, stored, it, rest, mapChange, m_mysql, troubled>>

ProcessEnds ==
  /\ initPc # "down"
  /\ Exit
  /\ UNCHANGED <<tables, stored>>

SchemaInit ==
  /\ tables \in [DbTables -> Layouts]
  /\ stored = tables
  /\ initPc = "down"
  /\ it = 1
  /\ rest = {}
  /\ mapChange = {}
  /\ m_mysql = FALSE
  /\ troubled = {}

SchemaNext ==
  \/ ConnectDb \/ CheckColumns \/ TableChecked \/ InitFails \/ InitReturns \/ ProcessEnds
  \/ \E r \in Results :
       \/ CheckDatabase(r) \/ CreateAfterCheck(r)
       \/ \E q \in Results : CheckMissing(q, r)
       \/ \E c \in rest : AddColumn(c, r)
       \/ \E c \in mapChange : ModifyColumn(c, r)

SchemaSpec == SchemaInit /\ [][SchemaNext]_schemaVars

-----------------------------------------------------------------------------
(* Properties *)

Complete(t) ==
  /\ mapField[t] \subseteq DOMAIN tables[t]
  /\ \A c \in mapField[t] : tables[t][c] = "declared"

\* The variables have their types.
SchemaTypeOK ==
  /\ tables \in [DbTables -> Layouts]
  /\ stored \in [DbTables -> Layouts]
  /\ initPc \in {"down", "database", "table", "alter", "create", "failed", "running"}
  /\ it \in 1..(TableCount + 1)
  /\ rest \subseteq Columns
  /\ mapChange \subseteq Columns
  /\ m_mysql \in BOOLEAN
  /\ troubled \subseteq DbTables

\* When Init returns true there is a connection and every table exists; a table
\* none of whose statements failed has every declared column, as declared,
\* however earlier starts were cut off between two ALTER statements.  No start,
\* finished or not, loses a column or changes one it does not declare
\* (MySqlManager::Init, CheckTable, CreateTable).  Init does also return true over
\* a table whose repair failed: CREATE TABLE IF NOT EXISTS then succeeds.
SchemaSound ==
  /\ initPc = "running" =>
       /\ m_mysql
       /\ \A t \in DbTables : Exists(t) /\ (t \notin troubled => Complete(t))
  /\ \A t \in DbTables :
       /\ DOMAIN stored[t] \subseteq DOMAIN tables[t]
       /\ \A c \in DOMAIN stored[t] \ mapField[t] : tables[t][c] = stored[t][c]

=============================================================================
