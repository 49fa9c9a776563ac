-------------------------- MODULE SchemaMigration --------------------------
(***************************************************************************)
(* The hub's database file from one boot to the next:                      *)
(* server/database/connection.ts (applySchema, runMigrations) and          *)
(* ensureAlertSchema.  Every statement commits on its own, those of a      *)
(* table's rebuild together; the process may die between any two, and the  *)
(* machine too: the file is in WAL mode with synchronous = NORMAL, which   *)
(* then gives back the database of some earlier commit.                    *)
(*                                                                         *)
(* Of the tables only what a migration looks at or moves is kept: which of *)
(* the columns that came later are there, and the rows of gpu_metrics and  *)
(* gpu_devices.  A row is the card it is about (and a number); in a table  *)
(* without host_id that is a card of the host 'local'.                     *)
(***************************************************************************)
EXTENDS Integers, Sequences, FiniteSets

CONSTANTS
    HostIds,      \* host ids
    Local,        \* LOCAL_HOST_ID
    Gpus,         \* gpu_index
    MaxRow,       \* bound: rows of gpu_metrics ever made
    LegacyRows,   \* of these, the rows an older version may have left
    HostColumns,  \* columns added to the hosts table since its first version
    MaxRestarts,  \* bound: crashes, power cuts and stops
    NoTable       \* no such table, no transaction

ASSUME StoreConstantsOK ==
    /\ Local \in HostIds
    /\ MaxRow \in Nat /\ LegacyRows \in 0 .. MaxRow
    /\ HostColumns \in Nat /\ MaxRestarts \in Nat

VARIABLES
    db,        \* the database as the last commit left it
    tx,        \* what the open transaction sees, or NoTable
    safe,      \* an earlier db: what a power cut would leave now
    pc,        \* the statement the boot has come to, "up", "stopping" or "down"
    restarts   \* history: crashes, power cuts and stops so far

schemaVars == <<db, tx, safe, pc, restarts>>

Cards == HostIds \X Gpus
MetricRows == [n : 1 .. MaxRow, card : Cards]

(* gpu_metrics and gpu_devices, and what may be left of their rebuilds.     *)
Metrics == [strict : BOOLEAN, hosted : BOOLEAN, rows : SUBSET MetricRows]
Devices == [scoped : BOOLEAN, rows : SUBSET Cards]

ASSUME NoTableIsNone == NoTable \notin {"plain", "modern"} \cup Metrics \cup Devices

Databases ==
    [users : {NoTable, "plain", "modern"}, hosts : {NoTable} \cup 0 .. HostColumns,
     metrics : Metrics \cup {NoTable}, metricsNew : Metrics \cup {NoTable},
     devices : Devices \cup {NoTable}, devicesNew : Devices \cup {NoTable},
     events : {NoTable, "plain", "modern"}, rules : {NoTable, "plain", "modern"}]

LocalCards == {Local} \X Gpus
AtLocal(card) == <<Local, card[2]>>

Empty ==
    [users |-> NoTable, hosts |-> NoTable, metrics |-> NoTable, metricsNew |-> NoTable,
     devices |-> NoTable, devicesNew |-> NoTable, events |-> NoTable, rules |-> NoTable]

(* A database of an older version with rows R: before 0.1.6 (utilization    *)
(* NOT NULL), before 0.3 (no host_id anywhere), and since (hosts table with *)
(* the first c of its columns).                                             *)
OneHost(strict, R) ==
    [users |-> "plain", hosts |-> NoTable, events |-> "plain", rules |-> "plain",
     metrics |-> [strict |-> strict, hosted |-> FALSE, rows |-> R], metricsNew |-> NoTable,
     devices |-> [scoped |-> FALSE, rows |-> {r.card : r \in R}], devicesNew |-> NoTable]

MultiHost(c, R) ==
    [users |-> "plain", hosts |-> c, events |-> "modern", rules |-> "modern",
     metrics |-> [strict |-> FALSE, hosted |-> TRUE, rows |-> R], metricsNew |-> NoTable,
     devices |-> [scoped |-> TRUE, rows |-> {r.card : r \in R}], devicesNew |-> NoTable]

(* One row each of the legacy numbers.                                      *)
Filled(cards) ==
    {{[n |-> k, card |-> f[k]] : k \in 1 .. LegacyRows} : f \in [1 .. LegacyRows -> cards]}

(* A rebuild cut off by an older version, as the comment on runMigrations   *)
(* has it: the new table is there, whatever was copied into it.             *)
WithOrphans(d) ==
    {d} \cup
    {[d EXCEPT !.metricsNew = [strict |-> FALSE, hosted |-> FALSE, rows |-> {}],
               !.devicesNew = [scoped |-> TRUE, rows |-> {}]]}

Found ==
    {Empty}
      \cup (UNION {WithOrphans(OneHost(strict, R)) :
                     strict \in BOOLEAN, R \in Filled(LocalCards)})
      \cup {MultiHost(c, R) : c \in 0 .. HostColumns, R \in Filled(Cards)}

SchemaInit ==
    /\ db \in Found
    /\ tx = NoTable
    /\ safe = db
    /\ pc = "down"
    /\ restarts = 0

----------------------------------------------------------------------------
(* What the statements do.                                                  *)

(* CREATE TABLE IF NOT EXISTS                                               *)
Created(table, fresh) == IF table = NoTable THEN fresh ELSE table

NewMetrics == [strict |-> FALSE, hosted |-> FALSE, rows |-> {}]
NewDevices == [scoped |-> TRUE, rows |-> {}]

(* PRAGMA table_info(gpu_metrics): the rebuild is due.                      *)
NeedsRelaxing == db.metrics.strict

(* The rebuild's INSERT: its columns have no host_id.                       *)
Relaxed(rows) == {[n |-> r.n, card |-> AtLocal(r.card)] : r \in rows}

(* ALTER TABLE ... ADD COLUMN, where table_info does not list the column.   *)
AddedColumn(c) == IF c < HostColumns THEN c + 1 ELSE c

Orphans_Left(d) == d
Orphans(d) == [d EXCEPT !.metricsNew = NoTable, !.devicesNew = NoTable]

----------------------------------------------------------------------------
(* The boot, one statement at a time.                                       *)

Order ==
    <<"users", "metrics", "devices", "hosts",            \* applySchema
      "orphans",                                         \* runMigrations
      "relax",                                           \* migrateUtilizationNotNull
      "hostColumns", "metricsHost", "rescope",           \* migrateMultiHost
      "eventsHost", "rulesHost",
      "tokenVersion",                                    \* migrateUserTokenVersion
      "alertTables">>                                    \* ensureAlertSchema

After(s) ==
    LET i == CHOOSE k \in 1 .. Len(Order) : Order[k] = s
    IN IF i = Len(Order) THEN "up" ELSE Order[i + 1]

Boot ==
    /\ pc = "down"
    /\ pc' = Order[1]
    /\ UNCHANGED <<db, tx, safe, restarts>>

(* A statement that commits on its own and ends step s of the boot.         *)
Commits(s, d) ==
    /\ pc = s
    /\ tx = NoTable
    /\ db' = d
    /\ pc' = After(s)
    /\ UNCHANGED <<tx, safe, restarts>>

CreateTables ==
    \/ Commits("users", [db EXCEPT !.users = Created(@, "modern")])
    \/ Commits("metrics", [db EXCEPT !.metrics = Created(@, [NewMetrics EXCEPT !.hosted = TRUE])])
    \/ Commits("devices", [db EXCEPT !.devices = Created(@, NewDevices)])
    \/ Commits("hosts", [db EXCEPT !.hosts = Created(@, HostColumns)])

DropOrphans == Commits("orphans", Orphans(db))

(* One column a statement; the next boot looks again at what is there.      *)
AddHostColumns ==
    /\ pc = "hostColumns"
    /\ db' = [db EXCEPT !.hosts = AddedColumn(@)]
    /\ pc' = IF db.hosts < HostColumns THEN pc ELSE After(pc)
    /\ UNCHANGED <<tx, safe, restarts>>

AddHostIds ==
    \/ Commits("metricsHost", [db EXCEPT !.metrics.hosted = TRUE])
    \/ Commits("eventsHost", [db EXCEPT !.events = IF @ = "plain" THEN "modern" ELSE @])
    \/ Commits("rulesHost", [db EXCEPT !.rules = IF @ = "plain" THEN "modern" ELSE @])
    \/ Commits("tokenVersion", [db EXCEPT !.users = "modern"])
    \/ Commits("alertTables", [db EXCEPT !.events = Created(@, "modern"), !.rules = Created(@, "modern")])

----------------------------------------------------------------------------
(* The two rebuilds: BEGIN, CREATE NEW, INSERT, DROP OLD, RENAME, COMMIT.    *)

RebuildDue(s) ==
    \/ s = "relax" /\ NeedsRelaxing
    \/ s = "rescope" /\ ~db.devices.scoped

Skip(s) ==
    /\ pc = s /\ tx = NoTable
    /\ ~RebuildDue(s)
    /\ pc' = After(s)
    /\ UNCHANGED <<db, tx, safe, restarts>>

(* Where a statement of the rebuild writes.                                 *)
Writes_Autocommit(d) == db' = d /\ tx' = d
Writes(d) == tx' = d /\ UNCHANGED db

Rebuilding(s) == pc = s /\ (tx # NoTable \/ RebuildDue(s))

(* CREATE NEW fails where the table is left over: see BootFails.            *)
CreateNew ==
    /\ tx = NoTable
    /\ \/ Rebuilding("relax") /\ db.metricsNew = NoTable
          /\ Writes([db EXCEPT !.metricsNew = NewMetrics])
       \/ Rebuilding("rescope") /\ db.devicesNew = NoTable
          /\ Writes([db EXCEPT !.devicesNew = NewDevices])
    /\ UNCHANGED <<pc, safe, restarts>>

CopyAndDrop ==
    /\ tx # NoTable
    /\ \/ pc = "relax" /\ tx.metricsNew # NoTable /\ tx.metrics # NoTable
          /\ Writes([tx EXCEPT !.metricsNew.rows = Relaxed(tx.metrics.rows), !.metrics = NoTable])
       \/ pc = "rescope" /\ tx.devicesNew # NoTable /\ tx.devices # NoTable
          /\ Writes([tx EXCEPT !.devicesNew.rows = {AtLocal(c) : c \in tx.devices.rows},
                               !.devices = NoTable])
    /\ UNCHANGED <<pc, safe, restarts>>

RenameNew ==
    /\ tx # NoTable
    /\ \/ pc = "relax" /\ tx.metrics = NoTable
          /\ Writes([tx EXCEPT !.metrics = tx.metricsNew, !.metricsNew = NoTable])
       \/ pc = "rescope" /\ tx.devices = NoTable
          /\ Writes([tx EXCEPT !.devices = tx.devicesNew, !.devicesNew = NoTable])
    /\ UNCHANGED <<pc, safe, restarts>>

Commit ==
    /\ tx # NoTable
    /\ pc = "relax" => tx.metrics # NoTable /\ tx.metricsNew = NoTable
    /\ pc = "rescope" => tx.devices # NoTable /\ tx.devicesNew = NoTable
    /\ db' = tx
    /\ tx' = NoTable
    /\ pc' = After(pc)
    /\ UNCHANGED <<safe, restarts>>

Rebuild == CreateNew \/ CopyAndDrop \/ RenameNew \/ Commit \/ Skip("relax") \/ Skip("rescope")

BootStep == CreateTables \/ DropOrphans \/ AddHostColumns \/ AddHostIds \/ Rebuild

----------------------------------------------------------------------------
(* The process or the machine dies; a boot that throws ends the process.    *)

Dies(d) ==
    /\ restarts < MaxRestarts
    /\ restarts' = restarts + 1
    /\ pc' = "down"
    /\ tx' = NoTable
    /\ db' = d

Crash == pc # "down" /\ Dies(db) /\ UNCHANGED safe

PowerCut == Dies(safe) /\ UNCHANGED safe

(* CREATE TABLE finds the table of a rebuild that was cut off.              *)
BootThrows ==
    /\ tx = NoTable
    /\ \/ pc = "relax" /\ RebuildDue(pc) /\ db.metricsNew # NoTable
       \/ pc = "rescope" /\ RebuildDue(pc) /\ db.devicesNew # NoTable

BootFails ==
    /\ BootThrows
    /\ pc' = "down"
    /\ UNCHANGED <<db, tx, safe, restarts>>

(* The WAL reaches the disk.                                                *)
Checkpoint ==
    /\ safe # db
    /\ safe' = db
    /\ UNCHANGED <<db, tx, pc, restarts>>

BootNext == Boot \/ BootStep \/ BootFails \/ Crash \/ PowerCut \/ Checkpoint

----------------------------------------------------------------------------
SchemaTypeOK ==
    /\ db \in Databases
    /\ tx \in Databases \cup {NoTable}
    /\ safe \in Databases
    /\ pc \in {Order[k] : k \in 1 .. Len(Order)} \cup {"up", "stopping", "down"}
    /\ restarts \in 0 .. MaxRestarts

(* What every query of the program takes for granted.                       *)
Modern ==
    /\ db.users = "modern" /\ db.hosts = HostColumns
    /\ db.events = "modern" /\ db.rules = "modern"
    /\ db.metrics # NoTable /\ ~db.metrics.strict /\ db.metrics.hosted
    /\ db.devices # NoTable /\ db.devices.scoped

(* Whatever database it finds, and wherever earlier boots were cut off, a   *)
(* boot throws on nothing and comes up on a modern database only.           *)
BootsModern == ~BootThrows /\ (pc = "up" => Modern)
=============================================================================
