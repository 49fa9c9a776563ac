---------------------------- MODULE MetricsStore ----------------------------
(***************************************************************************)
(* The history of the cards: server/services/agentMetricsPersistor.ts on   *)
(* the sample events of the metrics bus, the tables it writes              *)
(* (GpuMetric.ts), what deletes from them (retentionJob.ts, POST           *)
(* /db/purge) and the database's boots (SchemaMigration), from the         *)
(* database some version left behind on.                                   *)
(*                                                                         *)
(* A sample event carries one reading of each of some cards of a host.     *)
(* Which rows a retention or a purge covers is left open: any.             *)
(***************************************************************************)
EXTENDS SchemaMigration

VARIABLES
    pending,    \* buffer: rows not flushed yet
    upserted,   \* cards whose device row was written by this process
    nextRow,    \* history: number of the next row
    owed        \* history: rows that are to be found in gpu_metrics

memory == <<pending, upserted>>
storeVars == <<schemaVars, memory, nextRow, owed>>

StoreInit ==
    /\ SchemaInit
    /\ pending = {}
    /\ upserted = {}
    /\ nextRow = LegacyRows + 1
    /\ owed = IF db.metrics = NoTable THEN {} ELSE db.metrics.rows

(* deviceKey, under which the upsert of a card is throttled.  A second      *)
(* upsert once the throttle is over finds the row and changes nothing here. *)
DeviceKey(card) == {card}

DevicesAfter(card) ==
    IF card \in upserted THEN db.devices.rows ELSE db.devices.rows \cup {card}

(* onSample for one reading; an event of several is as many of these in a   *)
(* row.  A write that fails throws out of the socket's message handler and  *)
(* ends the process: Crash.                                                 *)
Sample(card) ==
    /\ pc = "up"
    /\ nextRow <= MaxRow
    /\ db' = [db EXCEPT !.devices.rows = DevicesAfter(card)]
    /\ upserted' = upserted \cup DeviceKey(card)
    /\ pending' = pending \cup {[n |-> nextRow, card |-> card]}
    /\ nextRow' = nextRow + 1
    /\ UNCHANGED <<tx, safe, pc, restarts, owed>>

(* flush: the buffer is emptied first, then written in one transaction.     *)
Flushed ==
    /\ db' = [db EXCEPT !.metrics.rows = @ \cup pending]
    /\ owed' = owed \cup pending

Lost == UNCHANGED <<db, owed>>

Flush ==
    /\ pc = "up"
    /\ pending # {}
    /\ pending' = {}
    /\ Flushed \/ Lost
    /\ UNCHANGED <<tx, safe, pc, restarts, upserted, nextRow>>

(* SIGTERM: stopAgentMetricsPersistor flushes; the process ends when the    *)
(* HTTP server has closed or after 10 s.                                    *)
HubStops ==
    /\ pc = "up" /\ restarts < MaxRestarts
    /\ pc' = "stopping"
    /\ restarts' = restarts + 1
    /\ pending' = {}
    /\ Flushed \/ Lost
    /\ UNCHANGED <<tx, safe, upserted, nextRow>>

Exit ==
    /\ pc = "stopping"
    /\ pc' = "down"
    /\ pending' = {} /\ upserted' = {}
    /\ UNCHANGED <<db, tx, safe, restarts, nextRow, owed>>

(* retentionJob, POST /db/purge.                                            *)
Prune(old) ==
    /\ pc \in {"up", "stopping"}
    /\ db' = [db EXCEPT !.metrics.rows = @ \ old]
    /\ owed' = owed \ old
    /\ UNCHANGED <<tx, safe, pc, restarts, memory, nextRow>>

(* The process ends and forgets; a power cut also takes what had not        *)
(* reached the disk.                                                        *)
Forgets == pending' = {} /\ upserted' = {} /\ UNCHANGED nextRow

StoreCrash == Crash /\ Forgets /\ UNCHANGED owed

OnDisk(row) == safe.metrics # NoTable /\ row \in safe.metrics.rows

StorePowerCut == PowerCut /\ Forgets /\ owed' = {row \in owed : OnDisk(row)}

StoreNext ==
    \/ (Boot \/ BootStep \/ BootFails \/ Checkpoint) /\ UNCHANGED <<memory, nextRow, owed>>
    \/ \E card \in Cards : Sample(card)
    \/ Flush
    \/ HubStops \/ Exit
    \/ \E old \in SUBSET (IF pc \in {"up", "stopping"} THEN db.metrics.rows ELSE {}) : Prune(old)
    \/ StoreCrash \/ StorePowerCut

StoreSpec == StoreInit /\ [][StoreNext]_storeVars

----------------------------------------------------------------------------
Stored == IF db.metrics = NoTable THEN {} ELSE db.metrics.rows
Listed == IF db.devices = NoTable THEN {} ELSE db.devices.rows

(* A row that was in the table, or was flushed, stays there under its own   *)
(* host until it is pruned or the disk gives back an earlier database:      *)
(* through every upgrade, and every boot cut off between two statements.    *)
RowsSurvive ==
    owed \subseteq Stored

(* Every row of gpu_metrics and every one on its way there has its card in  *)
(* gpu_devices, without which the dashboard does not find it: whatever a    *)
(* power cut takes back and whatever the throttle holds back.               *)
RowsHaveDevices ==
    \A row \in Stored \cup pending : row.card \in Listed

(* The history of a card outlives upgrades, restarts and power cuts, and is *)
(* found where it belongs.                                                  *)
HistoryKept == SchemaTypeOK /\ RowsSurvive /\ RowsHaveDevices
=============================================================================
