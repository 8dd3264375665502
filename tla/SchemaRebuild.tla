---------------------------- MODULE SchemaRebuild ----------------------------
(***************************************************************************)
(* The upgrade guide of the metric store: how the tables of an old layout   *)
(* become normalized ones (pkg/metric/restructure.go,                       *)
(* internal/metricstore/restructure.go, web/migration/migration.go and the  *)
(* startup loop of cmd/server.go).                                          *)
(*                                                                          *)
(* The panel inspects the tables when it starts.  While they need a rebuild *)
(* it serves the guide only, where an administrator starts Restructure or   *)
(* DiscardHistory as often as it takes.  Both build rebuild_ tables beside  *)
(* the live ones and then switch: SQLite and PostgreSQL in one transaction, *)
(* MySQL, whose DDL commits by itself, with one RENAME TABLE that moves the *)
(* old tables to _legacy backups, which it then drops one by one.  A run    *)
(* may fail, and the panel may die, after every statement that commits.     *)
(*                                                                          *)
(* A table is its layout, the series, label and resolution tables are one,  *)
(* and the history is the number of times each batch of rows is held.  What *)
(* the batches hold is the subject of RebuiltHistory.                       *)
(***************************************************************************)
EXTENDS Naturals

CONSTANTS
    Drivers,     \* database drivers of the store: "sqlite", "postgresql", "mysql"
    BatchCount,  \* batches of rows the old tables hold
    MaxBreaks    \* bound: runs that fail and panels that die

ASSUME DriversKnown == Drivers \subseteq {"sqlite", "postgresql", "mysql"}
ASSUME BatchesNatural == BatchCount \in Nat /\ MaxBreaks \in Nat

VARIABLES
    driver,      \* the driver of the configured store
    live,        \* [Tables -> Layouts], the tables under the configured prefix
    spare,       \* the _legacy backups that exist
    rows,        \* [Batches -> Nat], the history in the live tables
    shadowRows,  \* [Batches -> Nat], the history in the rebuild_ tables
    index,       \* indexes of the live tables: "canonical", "rebuild"
    phase,       \* startup: "detect", "ready", "running", "failed", "completed", "open"
    task,        \* what the guide runs: "rebuild" or "discard"
    step,        \* where the run is; "none" between runs
    copiedTo,    \* batches this run has copied
    discarded,   \* history: the administrator's discard took effect
    purged,      \* history: a discard took the backups of a live schema
    breaks       \* failures so far

tableVars == <<driver, live, spare, rows, shadowRows, index>>
schemaVars == <<tableVars, phase, task, step, copiedTo, discarded, purged, breaks>>

Batches == 1..BatchCount
Tables == {"definitions", "points", "watermarks", "rollups", "dictionary", "state"}
RawTables == {"points", "watermarks"}

\* Columns of an old version, columns of the normalized schema, the same with
\* its foreign keys.
Layouts == {"none", "old", "keyless", "new"}

None == [b \in Batches |-> 0]
Once == [b \in Batches |-> 1]

NormalizedTables == [t \in Tables |-> IF t \in RawTables THEN "none" ELSE "new"]

-----------------------------------------------------------------------------
(* inspectSchema. *)

ColumnsComplete ==
    /\ live["definitions"] = "new" /\ live["dictionary"] = "new"
    /\ live["rollups"] \in {"keyless", "new"}

Complete == ColumnsComplete /\ live["rollups"] = "new"

\* hasAnyTable does not look for the state table.
AnyTable == spare # {} \/ \E t \in Tables \ {"state"} : live[t] # "none"

RawLeft == {t \in RawTables : live[t] # "none"}

NeedsRestructure == IF Complete THEN RawLeft # {} \/ spare # {} ELSE AnyTable

\* The definitions can be read, and for a rebuild the history too.
Readable == live["definitions"] # "none"
Recognised == Readable /\ live["rollups"] \in {"none", "old"}

-----------------------------------------------------------------------------
(* The stores an upgrade may find: written by an old version, with or       *)
(* without rollups; old, with rollups that a migration had made new or with *)
(* the definitions lost; normalized without foreign keys, or with leftover  *)
(* raw tables; and up to date.                                              *)

OldTables(rollups, dictionary) ==
    [t \in Tables |-> CASE t = "rollups" -> rollups
                        [] t = "dictionary" -> dictionary
                        [] t = "state" -> "none"
                        [] OTHER -> "old"]

FoundTables ==
    {OldTables(r, d) : r \in {"none", "old"}, d \in {"none", "new"}}
        \union {OldTables("new", "new"),
                [OldTables("old", "none") EXCEPT !["definitions"] = "none"],
                [NormalizedTables EXCEPT !["rollups"] = "keyless"],
                [NormalizedTables EXCEPT !["points"] = "old", !["watermarks"] = "old"],
                NormalizedTables}

SchemaInit ==
    /\ driver \in Drivers /\ live \in FoundTables
    /\ spare = {} /\ rows = Once /\ shadowRows = None
    /\ index = (IF ColumnsComplete THEN {"canonical"} ELSE {})
    /\ phase = "detect" /\ task = "rebuild" /\ step = "none" /\ copiedTo = 0
    /\ discarded = FALSE /\ purged = FALSE /\ breaks = 0

Break == breaks < MaxBreaks /\ breaks' = breaks + 1

-----------------------------------------------------------------------------
(* Startup and the guide. *)

\* DatabaseMigrationRequired.
OfferGuide ==
    /\ phase = "detect" /\ NeedsRestructure
    /\ phase' = "ready"
    /\ UNCHANGED <<tableVars, task, step, copiedTo, discarded, purged, breaks>>

\* ConnectMetricStore opens the store with AutoMigrate: Migrate creates what is
\* missing.
OpenStore ==
    /\ phase = "detect" /\ ~NeedsRestructure
    /\ phase' = "open"
    /\ live' = NormalizedTables /\ index' = index \union {"canonical"}
    /\ UNCHANGED <<driver, spare, rows, shadowRows, task, step, copiedTo, discarded, purged,
                   breaks>>

\* startStructure and discard: one run at a time.
Start(what) ==
    /\ phase \in {"ready", "failed"}
    /\ phase' = "running" /\ task' = what /\ step' = "inspect"
    /\ UNCHANGED <<tableVars, copiedTo, discarded, purged, breaks>>

StartRebuild == Start("rebuild")
StartDiscard == Start("discard")

\* completeLater: the guide ends, and the startup loop looks again.
GuideEnds ==
    /\ phase = "completed"
    /\ phase' = "detect"
    /\ UNCHANGED <<tableVars, task, step, copiedTo, discarded, purged, breaks>>

\* The run goes on with this step.
Goes(to) == step' = to /\ UNCHANGED <<phase, task>>

Fails == phase' = "failed" /\ step' = "none" /\ UNCHANGED task

\* A statement of the run fails.
RunFails ==
    /\ phase = "running" /\ Break
    /\ Fails
    /\ UNCHANGED <<tableVars, copiedTo, discarded, purged>>

\* The panel dies, and its run with it.
PanelDies ==
    /\ Break
    /\ phase' = "detect" /\ step' = "none"
    /\ UNCHANGED <<tableVars, task, copiedTo, discarded, purged>>

-----------------------------------------------------------------------------
(* The run. *)

\* Backups are not looked for (a mutant of AfterRaw).
RawOnly(left, backups) == IF left # {} THEN "raw" ELSE "reclaim"

\* Where removeObsoleteRawTables goes on, with these tables left.
AfterRaw(left, backups) ==
    IF left # {} THEN "raw" ELSE IF backups # {} THEN "index" ELSE "reclaim"

\* Restructure up to the shadow tables.
InspectForRebuild ==
    /\ step = "inspect" /\ task = "rebuild"
    /\ \/ ~NeedsRestructure /\ Goes("reclaim")
       \/ NeedsRestructure /\ Complete /\ Goes(AfterRaw(RawLeft, spare))
       \/ NeedsRestructure /\ ~Complete /\ (ColumnsComplete \/ Recognised) /\ Goes("shadow")
       \/ NeedsRestructure /\ ~ColumnsComplete /\ ~Recognised /\ Fails
    /\ UNCHANGED <<tableVars, copiedTo, discarded, purged, breaks>>

\* DiscardHistory up to its first statement; a store without tables, where it
\* would return at once, is not offered the guide.
InspectForDiscard ==
    /\ step = "inspect" /\ task = "discard"
    /\ \/ Complete /\ Goes("delete")
       \/ ~Complete /\ Readable /\ Goes("shadow")
       \/ ~Complete /\ ~Readable /\ Fails
    /\ UNCHANGED <<tableVars, copiedTo, discarded, purged, breaks>>

\* Leftovers of a run before are kept (a mutant of MadeShadow).
LeftoverRows == shadowRows

\* dropNormalizedTables, Migrate and the definitions of the shadow.
MadeShadow == None

MakeShadow ==
    /\ step = "shadow"
    /\ shadowRows' = MadeShadow /\ copiedTo' = 0
    /\ Goes(IF task = "rebuild" THEN "copy" ELSE "switch")
    /\ UNCHANGED <<driver, live, spare, rows, index, discarded, purged, breaks>>

\* A batch of copyLegacyPoints, copyLegacyRollups or copyNormalizedRollups.
CopyBatch ==
    /\ step = "copy" /\ copiedTo < BatchCount
    /\ copiedTo' = copiedTo + 1
    /\ shadowRows' = [shadowRows EXCEPT ![copiedTo + 1] = @ + rows[copiedTo + 1]]
    /\ UNCHANGED <<driver, live, spare, rows, index, phase, task, step, discarded, purged,
                   breaks>>

\* The rest of the copy, and the validation of the shadow.
CopyDone ==
    /\ step = "copy" /\ copiedTo = BatchCount
    /\ Goes("switch")
    /\ UNCHANGED <<tableVars, copiedTo, discarded, purged, breaks>>

\* The rebuild_ tables take the names of the live ones.
Switched ==
    /\ live' = NormalizedTables /\ rows' = shadowRows /\ shadowRows' = None
    /\ discarded' = (discarded \/ task = "discard")

\* replaceLegacyTables, in one transaction.
SwitchInTransaction ==
    /\ step = "switch" /\ driver # "mysql"
    /\ Switched /\ index' = {"canonical"}
    /\ Goes("reclaim")
    /\ UNCHANGED <<driver, spare, copiedTo, purged, breaks>>

\* replaceLegacyMySQLTables: old backups and the state table go first.
DropStale ==
    /\ step = "switch" /\ driver = "mysql"
    /\ spare' = {} /\ live' = [live EXCEPT !["state"] = "none"]
    /\ Goes("rename")
    /\ UNCHANGED <<driver, rows, shadowRows, index, copiedTo, discarded, purged, breaks>>

\* The old tables move in a statement of their own (a mutant of RenameTables).
RenameOldFirst ==
    /\ step = "rename"
    /\ \/ /\ live["definitions"] # "none" /\ Goes("rename")
          /\ spare' = {t \in Tables : live[t] # "none"}
          /\ live' = [t \in Tables |-> "none"]
          /\ UNCHANGED <<rows, shadowRows, index, discarded>>
       \/ /\ live["definitions"] = "none" /\ Goes("index")
          /\ Switched /\ index' = {"rebuild"} /\ UNCHANGED spare
    /\ UNCHANGED <<driver, copiedTo, purged, breaks>>

RenameTables ==
    /\ step = "rename"
    /\ spare' = {t \in Tables \ {"state"} : live[t] # "none"}
    /\ Switched /\ index' = {"rebuild"}
    /\ Goes("index")
    /\ UNCHANGED <<driver, copiedTo, purged, breaks>>

\* Backups that go before the indexes are renamed (a mutant of FinishIndexes).
FinishIndexesLater ==
    /\ step = "index"
    /\ Goes("drop")
    /\ UNCHANGED <<tableVars, copiedTo, discarded, purged, breaks>>

\* finishInterruptedMySQLIndexes.
FinishIndexes ==
    /\ step = "index"
    /\ index' = {"canonical"}
    /\ Goes("drop")
    /\ UNCHANGED <<driver, live, spare, rows, shadowRows, copiedTo, discarded, purged, breaks>>

DropBackup ==
    /\ step = "drop"
    /\ \E t \in spare : spare' = spare \ {t}
    /\ Goes(IF spare' = {} THEN "reclaim" ELSE "drop")
    /\ UNCHANGED <<driver, live, rows, shadowRows, index, copiedTo, discarded, purged, breaks>>

\* removeObsoleteRawTables, one DROP.
DropRawTable ==
    /\ step = "raw"
    /\ \E t \in RawLeft : /\ live' = [live EXCEPT ![t] = "none"]
                          /\ Goes(AfterRaw(RawLeft \ {t}, spare))
    /\ UNCHANGED <<driver, spare, rows, shadowRows, index, copiedTo, discarded, purged, breaks>>

\* Where discardNormalizedHistory goes on, with these tables left.
AfterPurge(left, backups) == IF left \union backups # {} THEN "purge" ELSE "reclaim"

\* discardNormalizedHistory: the rows of every table in one transaction.
DeleteHistory ==
    /\ step = "delete"
    /\ rows' = None /\ discarded' = TRUE
    /\ Goes(AfterPurge(RawLeft, spare))
    /\ UNCHANGED <<driver, live, spare, shadowRows, index, copiedTo, purged, breaks>>

\* discardNormalizedHistory, one DROP.
PurgeTable ==
    /\ step = "purge"
    /\ \/ \E t \in RawLeft : /\ live' = [live EXCEPT ![t] = "none"]
                             /\ Goes(AfterPurge(RawLeft \ {t}, spare))
                             /\ UNCHANGED <<spare, purged>>
       \/ /\ RawLeft = {}
          /\ \E t \in spare : /\ spare' = spare \ {t}
                              /\ Goes(AfterPurge({}, spare \ {t}))
          /\ purged' = TRUE /\ UNCHANGED live
    /\ UNCHANGED <<driver, rows, shadowRows, index, copiedTo, discarded, breaks>>

\* Validation after the switch, ReclaimSpace, and the final status.
Reclaim ==
    /\ step = "reclaim"
    /\ phase' = "completed" /\ step' = "none"
    /\ UNCHANGED <<tableVars, task, copiedTo, discarded, purged, breaks>>

-----------------------------------------------------------------------------
RunStep ==
    \/ InspectForRebuild \/ InspectForDiscard \/ MakeShadow \/ CopyBatch \/ CopyDone
    \/ SwitchInTransaction \/ DropStale \/ RenameTables \/ FinishIndexes \/ DropBackup
    \/ DropRawTable \/ DeleteHistory \/ PurgeTable \/ Reclaim

SchemaNext ==
    \/ OfferGuide \/ OpenStore \/ StartRebuild \/ StartDiscard \/ GuideEnds
    \/ RunStep \/ RunFails \/ PanelDies

SchemaSpec == SchemaInit /\ [][SchemaNext]_schemaVars

\* The goroutine of the run and the startup loop go on; the administrator
\* starts a run again while the guide is offered.
SchemaFairness ==
    /\ WF_schemaVars(RunStep)
    /\ WF_schemaVars(OfferGuide \/ OpenStore \/ GuideEnds)
    /\ WF_schemaVars(StartRebuild \/ StartDiscard)

FairSchemaSpec == SchemaSpec /\ SchemaFairness

-----------------------------------------------------------------------------
Steps == {"inspect", "shadow", "copy", "switch", "rename", "index", "drop", "raw",
          "delete", "purge", "reclaim"}

\* Every variable has its type, and a run has a step exactly while it runs.
SchemaTypeOK ==
    /\ driver \in Drivers /\ live \in [Tables -> Layouts] /\ spare \subseteq Tables
    /\ rows \in [Batches -> Nat] /\ shadowRows \in [Batches -> Nat]
    /\ index \subseteq {"canonical", "rebuild"}
    /\ phase \in {"detect", "ready", "running", "failed", "completed", "open"}
    /\ task \in {"rebuild", "discard"} /\ step \in Steps \union {"none"}
    /\ copiedTo \in 0..BatchCount
    /\ discarded \in BOOLEAN /\ purged \in BOOLEAN /\ breaks \in 0..MaxBreaks
    /\ phase = "running" <=> step # "none"

\* The history under the configured prefix is never torn: through failed runs
\* and deaths after any statement it is held whole and once, until a discard
\* that the administrator started takes effect, and then it is gone.
HistoryNeverTorn == rows = (IF discarded THEN None ELSE Once)

\* "keeps the old point-backed tables recoverable until every normalized table
\* has become visible" (restructure.go:1429-1430): a backup exists only beside a
\* complete live schema, so that dropping backups never drops the one copy.
BackupsAreSpare == spare # {} => Complete /\ driver = "mysql"

\* The panel serves on complete tables without leftovers: no old table, no
\* backup, and no index under the name of the rebuild.  "Finish the live schema
\* before removing backups" (restructure.go:1469): a discard does not, and the
\* tables it cleared keep both indexes.
OpensClean ==
    phase = "open" =>
        /\ Complete /\ ~NeedsRestructure
        /\ index = {"canonical"} \/ (purged /\ index = {"canonical", "rebuild"})

\* Every store that a rebuild can read is upgraded, whatever fails on the way.
UpgradeFinishes == (NeedsRestructure => ColumnsComplete \/ Recognised) => <>(phase = "open")
=============================================================================
