--------------------------- MODULE Upgrade_proofs ---------------------------
(***************************************************************************)
(* What an upgrade or a restore puts at stake.                              *)
(*                                                                          *)
(* The upgrade guide of the metric store, for any driver, any number of     *)
(* batches of rows and any number of failures: the history is whole after   *)
(* every statement, backups are never the one copy, and the panel opens     *)
(* complete tables only.                                                    *)
(*                                                                          *)
(* The panel's own data, for any number of requests, versions, backups,     *)
(* failed steps and deaths: a restore deletes nothing that is not archived, *)
(* what an administrator was told is applied, and an upgrade that fails can *)
(* be taken back.                                                           *)
(***************************************************************************)
EXTENDS SchemaRebuild, DataRestore, FiniteSetTheorems, TLAPS

-----------------------------------------------------------------------------
(* The inductive invariant.                                                  *)

\* What holds of the tables at each step of a run.
StepsOK ==
    /\ step \in {"shadow", "copy", "switch"} => ~Complete
    /\ step \in {"raw", "index", "drop", "delete", "purge"} => Complete
    /\ step \in {"index", "drop"} => spare # {}
    /\ step = "rename" => driver = "mysql"

\* An index under the name of the rebuild is on tables that still have their
\* backups, or whose backups a discard took.
IndexOK ==
    /\ "rebuild" \in index => spare # {} \/ purged
    /\ step = "drop" => "rebuild" \notin index

\* The rows of the first batches.
Prefix(n) == [b \in Batches |-> IF b <= n THEN rows[b] ELSE 0]

\* The shadow holds what this run has copied, and all there is to keep when the
\* tables are switched.
ShadowOK ==
    /\ step = "copy" => task = "rebuild" /\ shadowRows = Prefix(copiedTo)
    /\ step \in {"switch", "rename"} => shadowRows = (IF task = "discard" THEN None ELSE rows)

\* There is a table for the rename to move away.
TablesLeft == live["points"] # "none" \/ live["rollups"] # "none"

SchemaInv ==
    /\ SchemaTypeOK /\ TablesLeft /\ StepsOK /\ IndexOK /\ ShadowOK
    /\ HistoryNeverTorn /\ BackupsAreSpare /\ OpensClean

-----------------------------------------------------------------------------
(* Lemmas. *)

\* The tables an upgrade may find, and the ones it leaves, have layouts.
LEMMA KnownTables ==
    /\ NormalizedTables \in [Tables -> Layouts]
    /\ FoundTables \subseteq [Tables -> Layouts]
    /\ \A found \in FoundTables : found["points"] # "none" \/ found["rollups"] # "none"
    /\ NormalizedTables["rollups"] # "none"
<1>1. /\ NormalizedTables \in [Tables -> Layouts] /\ NormalizedTables["rollups"] # "none"
  BY DEF NormalizedTables, Tables, RawTables, Layouts
<1>2. ASSUME NEW r \in Layouts, NEW d \in Layouts
      PROVE  /\ OldTables(r, d) \in [Tables -> Layouts]
             /\ OldTables(r, d)["points"] # "none"
  BY DEF OldTables, Tables, Layouts
<1>3. ASSUME NEW found \in FoundTables
      PROVE  /\ found \in [Tables -> Layouts]
             /\ found["points"] # "none" \/ found["rollups"] # "none"
  <2>1. CASE \E r \in {"none", "old"}, d \in {"none", "new"} : found = OldTables(r, d)
    BY <1>2, <2>1 DEF Layouts
  <2>2. CASE found = OldTables("new", "new")
    BY <1>2, <2>2 DEF Layouts
  <2>3. CASE found = [OldTables("old", "none") EXCEPT !["definitions"] = "none"]
    BY <1>2, <2>3 DEF Layouts, Tables
  <2>4. CASE found = [NormalizedTables EXCEPT !["rollups"] = "keyless"]
    BY <1>1, <2>4 DEF Layouts, Tables
  <2>5. CASE found = [NormalizedTables EXCEPT !["points"] = "old", !["watermarks"] = "old"]
    BY <1>1, <2>5 DEF Layouts, Tables
  <2>6. CASE found = NormalizedTables
    BY <1>1, <2>6
  <2> QED
    BY <2>1, <2>2, <2>3, <2>4, <2>5, <2>6 DEF FoundTables
<1> QED
  BY <1>1, <1>3

\* The rows of no batch and of every batch.
LEMMA Histories ==
    /\ None \in [Batches -> Nat] /\ Once \in [Batches -> Nat]
    /\ SchemaTypeOK => Prefix(0) = None /\ Prefix(BatchCount) = rows
BY BatchesNatural DEF None, Once, Prefix, Batches, SchemaTypeOK

\* A complete schema stays one when a raw table is dropped.
LEMMA RawDropped ==
    ASSUME SchemaTypeOK, NEW t \in RawLeft, live' = [live EXCEPT ![t] = "none"]
    PROVE  /\ live' \in [Tables -> Layouts]
           /\ Complete' <=> Complete
           /\ live'["rollups"] = live["rollups"]
BY DEF SchemaTypeOK, RawLeft, RawTables, Tables, Layouts, Complete, ColumnsComplete

\* The first states satisfy the invariant.
LEMMA SchemaInvInit == SchemaInit => SchemaInv
<1> SUFFICES ASSUME SchemaInit PROVE SchemaInv
  OBVIOUS
<1>1. live \in [Tables -> Layouts] /\ TablesLeft
  BY KnownTables DEF SchemaInit, TablesLeft
<1>2. /\ index \subseteq {"canonical", "rebuild"} /\ spare \subseteq Tables
      /\ copiedTo \in 0..BatchCount /\ breaks \in 0..MaxBreaks
  BY BatchesNatural DEF SchemaInit
<1>3. rows \in [Batches -> Nat] /\ shadowRows \in [Batches -> Nat]
  BY Histories DEF SchemaInit
<1>4. SchemaTypeOK
  BY <1>1, <1>2, <1>3 DEF SchemaInit, SchemaTypeOK
<1>5. StepsOK /\ IndexOK /\ ShadowOK /\ BackupsAreSpare /\ OpensClean
  BY DEF SchemaInit, StepsOK, IndexOK, ShadowOK, BackupsAreSpare, OpensClean
<1>6. HistoryNeverTorn
  BY DEF SchemaInit, HistoryNeverTorn
<1> QED
  BY <1>1, <1>4, <1>5, <1>6 DEF SchemaInv

-----------------------------------------------------------------------------
(* Steps outside a run, and those that begin or end one. *)

\* The parts of the invariant that speak of the tables alone.
TablesOK == TablesLeft /\ HistoryNeverTorn /\ BackupsAreSpare

\* A step that leaves the tables alone keeps what is said of the tables alone.
LEMMA TablesKept ==
    ASSUME SchemaInv, UNCHANGED <<tableVars, discarded, purged>>
    PROVE  /\ TablesOK' /\ (Complete' <=> Complete) /\ (RawLeft' = RawLeft)
           /\ (NeedsRestructure' <=> NeedsRestructure)
BY DEF SchemaInv, TablesOK, tableVars, TablesLeft, HistoryNeverTorn, BackupsAreSpare, Complete,
       ColumnsComplete, RawLeft, NeedsRestructure, AnyTable

\* Startup and the guide keep the invariant.
LEMMA GuideKeeps ==
    ASSUME SchemaInv, OfferGuide \/ StartRebuild \/ StartDiscard \/ GuideEnds
                        \/ RunFails \/ PanelDies
    PROVE  SchemaInv'
<1>1. UNCHANGED <<tableVars, discarded, purged, copiedTo>>
  BY DEF OfferGuide, StartRebuild, StartDiscard, Start, GuideEnds, RunFails, PanelDies
<1>2. TablesOK' /\ (Complete' <=> Complete)
  BY <1>1, TablesKept
<1>3. /\ phase' \in {"detect", "ready", "running", "failed"}
      /\ task' \in {"rebuild", "discard"} /\ step' \in {"none", "inspect"}
      /\ phase' = "running" <=> step' # "none"
  BY DEF SchemaInv, SchemaTypeOK, OfferGuide, StartRebuild, StartDiscard, Start, GuideEnds,
         RunFails, PanelDies, Fails
<1>4. breaks' \in 0..MaxBreaks
  BY BatchesNatural DEF SchemaInv, SchemaTypeOK, OfferGuide, StartRebuild, StartDiscard, Start,
         GuideEnds, RunFails, PanelDies, Break
<1>5. SchemaTypeOK'
  BY <1>1, <1>3, <1>4 DEF SchemaInv, SchemaTypeOK, tableVars, Steps
<1> QED
  BY <1>1, <1>2, <1>3, <1>5
  DEF SchemaInv, TablesOK, StepsOK, IndexOK, ShadowOK, OpensClean, tableVars

\* The panel opens complete tables.
LEMMA OpenKeeps == ASSUME SchemaInv, OpenStore PROVE SchemaInv'
<1>1. SchemaTypeOK' /\ TablesLeft'
  BY KnownTables DEF SchemaInv, SchemaTypeOK, TablesLeft, OpenStore, Steps
<1>2. spare = {} /\ spare' = {} /\ Complete' /\ ~NeedsRestructure'
  BY DEF SchemaInv, SchemaTypeOK, OpenStore, NeedsRestructure, AnyTable, Complete,
         ColumnsComplete, RawLeft, NormalizedTables, Tables, RawTables
<1>3. step' = "none" /\ HistoryNeverTorn'
  BY DEF SchemaInv, SchemaTypeOK, OpenStore, HistoryNeverTorn
<1>4. index' = {"canonical"} \/ (purged' /\ index' = {"canonical", "rebuild"})
  BY <1>2 DEF SchemaInv, SchemaTypeOK, OpenStore, IndexOK
<1> QED
  BY <1>1, <1>2, <1>3, <1>4
  DEF SchemaInv, StepsOK, IndexOK, ShadowOK, BackupsAreSpare, OpensClean, OpenStore

-----------------------------------------------------------------------------
(* The steps of a run. *)

\* A step of the run that leaves the tables alone keeps the invariant when the
\* step it goes on to agrees with the tables.
LEMMA StepKeeps ==
    ASSUME SchemaInv, UNCHANGED <<tableVars, copiedTo, discarded, purged, breaks, task>>,
           step' \in Steps \union {"none"},
           phase' \in {"running", "failed", "completed"},
           phase' = "running" <=> step' # "none",
           StepsOK', IndexOK', ShadowOK'
    PROVE  SchemaInv'
<1>1. TablesOK'
  BY TablesKept
<1>2. SchemaTypeOK'
  BY DEF SchemaInv, SchemaTypeOK, tableVars
<1> QED
  BY <1>1, <1>2 DEF SchemaInv, TablesOK, OpensClean

\* A run looks at the tables.
LEMMA InspectKeeps ==
    ASSUME SchemaInv, InspectForRebuild \/ InspectForDiscard
    PROVE  SchemaInv'
<1>1. /\ UNCHANGED <<tableVars, copiedTo, discarded, purged, breaks, task>>
      /\ phase = "running"
  BY DEF SchemaInv, SchemaTypeOK, InspectForRebuild, InspectForDiscard, Goes, Fails
<1>2. /\ step' \in {"reclaim", "raw", "index", "shadow", "delete", "none"}
      /\ phase' = (IF step' = "none" THEN "failed" ELSE "running")
      /\ step' \in {"raw", "index", "delete"} => Complete
      /\ step' = "index" => spare # {}
      /\ step' = "shadow" => ~Complete
  BY <1>1 DEF InspectForRebuild, InspectForDiscard, Goes, Fails, AfterRaw, Complete
<1>3. StepsOK' /\ IndexOK' /\ ShadowOK'
  BY <1>1, <1>2, TablesKept DEF SchemaInv, StepsOK, IndexOK, ShadowOK, tableVars
<1> QED
  BY <1>1, <1>2, <1>3, StepKeeps DEF Steps

\* The shadow tables are made anew.
LEMMA ShadowMade == ASSUME SchemaInv, MakeShadow PROVE SchemaInv'
<1>1. SchemaTypeOK'
  BY Histories, BatchesNatural
  DEF SchemaInv, SchemaTypeOK, MakeShadow, MadeShadow, Goes, Steps
<1>2. ShadowOK'
  BY Histories DEF SchemaInv, ShadowOK, MakeShadow, MadeShadow, Goes, Prefix, SchemaTypeOK
<1>3. TablesOK' /\ (Complete' <=> Complete)
  BY DEF SchemaInv, TablesOK, MakeShadow, TablesLeft, HistoryNeverTorn, BackupsAreSpare,
         Complete, ColumnsComplete
<1>4. StepsOK' /\ IndexOK' /\ phase' # "open"
  BY <1>3 DEF SchemaInv, SchemaTypeOK, StepsOK, IndexOK, MakeShadow, Goes
<1> QED
  BY <1>1, <1>2, <1>3, <1>4 DEF SchemaInv, TablesOK, OpensClean

\* A batch is copied.
LEMMA BatchCopied == ASSUME SchemaInv, CopyBatch PROVE SchemaInv'
<1>1. copiedTo + 1 \in Batches /\ task = "rebuild" /\ shadowRows = Prefix(copiedTo)
  BY BatchesNatural DEF SchemaInv, SchemaTypeOK, ShadowOK, CopyBatch, Batches
<1>2. shadowRows' = [b \in Batches |-> IF b <= copiedTo + 1 THEN rows[b] ELSE 0]
  <2>1. ASSUME NEW b \in Batches
        PROVE  shadowRows'[b] = (IF b <= copiedTo + 1 THEN rows[b] ELSE 0)
    BY <1>1, BatchesNatural DEF SchemaInv, SchemaTypeOK, CopyBatch, Prefix, Batches
  <2> QED
    BY <1>1, <2>1 DEF CopyBatch, Prefix
<1>3. ShadowOK'
  BY <1>1, <1>2 DEF CopyBatch, ShadowOK, Prefix
<1>4. SchemaTypeOK'
  BY <1>1, <1>2, BatchesNatural DEF SchemaInv, SchemaTypeOK, CopyBatch, Batches
<1>5. TablesOK' /\ (Complete' <=> Complete)
  BY DEF SchemaInv, TablesOK, CopyBatch, TablesLeft, HistoryNeverTorn, BackupsAreSpare,
         Complete, ColumnsComplete
<1>6. StepsOK' /\ IndexOK' /\ phase' # "open"
  BY <1>5 DEF SchemaInv, SchemaTypeOK, StepsOK, IndexOK, CopyBatch
<1> QED
  BY <1>3, <1>4, <1>5, <1>6 DEF SchemaInv, TablesOK, OpensClean

\* Every batch is copied, or the run ends.
LEMMA RunEnds == ASSUME SchemaInv, CopyDone \/ Reclaim PROVE SchemaInv'
<1>1. UNCHANGED <<tableVars, copiedTo, discarded, purged, breaks, task>>
  BY DEF CopyDone, Reclaim, Goes
<1>2. /\ step' \in {"switch", "none"} /\ phase = "running"
      /\ phase' = (IF step' = "none" THEN "completed" ELSE "running")
      /\ step' = "switch" => step = "copy" /\ copiedTo = BatchCount
  BY DEF SchemaInv, SchemaTypeOK, CopyDone, Reclaim, Goes
<1>3. step' = "switch" => shadowRows = rows /\ task = "rebuild"
  BY <1>2, Histories DEF SchemaInv, ShadowOK
<1>4. StepsOK' /\ IndexOK' /\ ShadowOK'
  BY <1>1, <1>2, <1>3, TablesKept DEF SchemaInv, StepsOK, IndexOK, ShadowOK, tableVars
<1> QED
  BY <1>1, <1>2, <1>4, StepKeeps DEF Steps

-----------------------------------------------------------------------------
(* The switch. *)

\* The switched tables are complete and hold what the run was to keep.
LEMMA SwitchedWhole ==
    ASSUME SchemaInv, Switched, step \in {"switch", "rename"}, UNCHANGED task
    PROVE  /\ live' \in [Tables -> Layouts] /\ TablesLeft' /\ Complete'
           /\ HistoryNeverTorn'
           /\ rows' \in [Batches -> Nat] /\ shadowRows' \in [Batches -> Nat]
           /\ discarded' \in BOOLEAN
<1>1. live' \in [Tables -> Layouts] /\ TablesLeft'
  BY KnownTables DEF Switched, TablesLeft
<1>2. Complete'
  BY DEF Switched, Complete, ColumnsComplete, NormalizedTables, Tables, RawTables
<1>3. HistoryNeverTorn'
  BY DEF SchemaInv, SchemaTypeOK, Switched, ShadowOK, HistoryNeverTorn
<1> QED
  BY <1>1, <1>2, <1>3, Histories DEF SchemaInv, SchemaTypeOK, Switched

\* SQLite and PostgreSQL switch in one transaction.
LEMMA TransactionKeeps == ASSUME SchemaInv, SwitchInTransaction PROVE SchemaInv'
<1>1. spare = {} /\ spare' = {} /\ index' = {"canonical"}
  BY DEF SchemaInv, BackupsAreSpare, SwitchInTransaction
<1>2. /\ live' \in [Tables -> Layouts] /\ TablesLeft' /\ HistoryNeverTorn'
      /\ rows' \in [Batches -> Nat] /\ shadowRows' \in [Batches -> Nat]
      /\ discarded' \in BOOLEAN
  BY SwitchedWhole DEF SwitchInTransaction, Goes
<1>3. SchemaTypeOK'
  BY <1>1, <1>2 DEF SchemaInv, SchemaTypeOK, SwitchInTransaction, Goes, Steps
<1>4. phase' = "running" /\ step' = "reclaim"
  BY DEF SchemaInv, SchemaTypeOK, SwitchInTransaction, Goes
<1> QED
  BY <1>1, <1>2, <1>3, <1>4
  DEF SchemaInv, StepsOK, IndexOK, ShadowOK, BackupsAreSpare, OpensClean

\* MySQL drops old backups and the state table: at this step the live schema is
\* not complete, so that there is no backup.
LEMMA StaleDropped == ASSUME SchemaInv, DropStale PROVE SchemaInv'
<1>1. spare = {} /\ spare' = {} /\ driver = "mysql"
  BY DEF SchemaInv, BackupsAreSpare, StepsOK, DropStale
<1>2. /\ live' \in [Tables -> Layouts]
      /\ live'["points"] = live["points"] /\ live'["rollups"] = live["rollups"]
  BY DEF SchemaInv, SchemaTypeOK, DropStale, Tables, Layouts
<1>3. phase' = "running" /\ step' = "rename"
  BY DEF SchemaInv, SchemaTypeOK, DropStale, Goes
<1>4. SchemaTypeOK'
  BY <1>1, <1>2, <1>3 DEF SchemaInv, SchemaTypeOK, DropStale, Goes, Steps
<1>5. TablesLeft' /\ HistoryNeverTorn' /\ ShadowOK'
  BY <1>2, <1>3 DEF SchemaInv, TablesLeft, HistoryNeverTorn, ShadowOK, DropStale, Goes
<1> QED
  BY <1>1, <1>3, <1>4, <1>5
  DEF SchemaInv, StepsOK, IndexOK, BackupsAreSpare, OpensClean, DropStale

\* MySQL renames all tables in one statement.
LEMMA RenameKeeps == ASSUME SchemaInv, RenameTables PROVE SchemaInv'
<1>1. spare' # {} /\ spare' \subseteq Tables /\ driver' = "mysql"
  BY DEF SchemaInv, StepsOK, TablesLeft, RenameTables, Tables
<1>2. /\ live' \in [Tables -> Layouts] /\ TablesLeft' /\ HistoryNeverTorn' /\ Complete'
      /\ rows' \in [Batches -> Nat] /\ shadowRows' \in [Batches -> Nat]
      /\ discarded' \in BOOLEAN
  BY SwitchedWhole DEF RenameTables, Goes
<1>3. phase' = "running" /\ step' = "index"
  BY DEF SchemaInv, SchemaTypeOK, RenameTables, Goes
<1>4. SchemaTypeOK'
  BY <1>1, <1>2, <1>3 DEF SchemaInv, SchemaTypeOK, RenameTables, Goes, Steps
<1> QED
  BY <1>1, <1>2, <1>3, <1>4
  DEF SchemaInv, StepsOK, IndexOK, ShadowOK, BackupsAreSpare, OpensClean

\* The indexes get their names, then the backups go.
LEMMA BackupsGo == ASSUME SchemaInv, FinishIndexes \/ DropBackup PROVE SchemaInv'
<1>1. /\ Complete /\ driver = "mysql" /\ phase' = "running"
      /\ spare' \subseteq Tables /\ index' \subseteq {"canonical", "rebuild"}
      /\ "rebuild" \notin index'
  BY DEF SchemaInv, SchemaTypeOK, StepsOK, IndexOK, BackupsAreSpare, FinishIndexes, DropBackup,
         Goes
<1>2. /\ step' \in {"drop", "reclaim"}
      /\ step' = "drop" => spare' # {}
      /\ UNCHANGED <<driver, live, rows, shadowRows, copiedTo, discarded, purged, breaks, task>>
  BY DEF SchemaInv, StepsOK, FinishIndexes, DropBackup, Goes
<1>3. SchemaTypeOK'
  BY <1>1, <1>2 DEF SchemaInv, SchemaTypeOK, Steps
<1>4. Complete' /\ TablesLeft' /\ HistoryNeverTorn'
  BY <1>1, <1>2 DEF SchemaInv, Complete, ColumnsComplete, TablesLeft, HistoryNeverTorn
<1> QED
  BY <1>1, <1>2, <1>3, <1>4
  DEF SchemaInv, StepsOK, IndexOK, ShadowOK, BackupsAreSpare, OpensClean

-----------------------------------------------------------------------------
(* Leftover tables, and a discard on complete tables. *)

\* A raw table beside complete tables is dropped.
LEMMA RawDropKeeps == ASSUME SchemaInv, DropRawTable PROVE SchemaInv'
<1>1. PICK t \in RawLeft : live' = [live EXCEPT ![t] = "none"] /\ Goes(AfterRaw(RawLeft \ {t}, spare))
  BY DEF DropRawTable
<1>2. Complete /\ Complete' /\ live' \in [Tables -> Layouts] /\ live'["rollups"] = live["rollups"]
  BY <1>1, RawDropped DEF SchemaInv, StepsOK, DropRawTable
<1>3. /\ step' \in {"raw", "index", "reclaim"} /\ phase' = "running"
      /\ step' = "index" => spare # {}
      /\ UNCHANGED <<driver, spare, rows, shadowRows, index, copiedTo, discarded, purged, breaks,
                     task>>
  BY <1>1 DEF SchemaInv, SchemaTypeOK, DropRawTable, Goes, AfterRaw
<1>4. SchemaTypeOK'
  BY <1>2, <1>3 DEF SchemaInv, SchemaTypeOK, Steps
<1>5. TablesLeft' /\ HistoryNeverTorn' /\ BackupsAreSpare'
  BY <1>2, <1>3 DEF SchemaInv, Complete, TablesLeft, HistoryNeverTorn, BackupsAreSpare
<1> QED
  BY <1>2, <1>3, <1>4, <1>5 DEF SchemaInv, StepsOK, IndexOK, ShadowOK, OpensClean

\* A discard deletes the rows of every table in one transaction.
LEMMA DeleteKeeps == ASSUME SchemaInv, DeleteHistory PROVE SchemaInv'
<1>1. /\ Complete /\ step' \in {"purge", "reclaim"} /\ phase' = "running"
      /\ UNCHANGED <<driver, live, spare, shadowRows, index, copiedTo, purged, breaks, task>>
  BY DEF SchemaInv, SchemaTypeOK, StepsOK, DeleteHistory, Goes, AfterPurge
<1>2. SchemaTypeOK'
  BY <1>1, Histories DEF SchemaInv, SchemaTypeOK, DeleteHistory, Steps
<1>3. Complete' /\ TablesLeft' /\ BackupsAreSpare' /\ HistoryNeverTorn'
  BY <1>1 DEF SchemaInv, Complete, ColumnsComplete, TablesLeft, BackupsAreSpare,
              HistoryNeverTorn, DeleteHistory
<1> QED
  BY <1>1, <1>2, <1>3 DEF SchemaInv, StepsOK, IndexOK, ShadowOK, OpensClean

\* A discard drops raw tables, then backups.
LEMMA PurgeKeeps == ASSUME SchemaInv, PurgeTable PROVE SchemaInv'
<1>1. /\ Complete /\ step' \in {"purge", "reclaim"} /\ phase' = "running"
      /\ UNCHANGED <<driver, rows, shadowRows, index, copiedTo, discarded, breaks, task>>
      /\ spare' \subseteq spare
      /\ purged' \in BOOLEAN /\ (purged => purged') /\ (purged' \/ spare' = spare)
  BY DEF SchemaInv, SchemaTypeOK, StepsOK, PurgeTable, Goes, AfterPurge
<1>2. Complete' /\ live' \in [Tables -> Layouts] /\ live'["rollups"] = live["rollups"]
  <2>1. CASE live' = live
    BY <1>1, <2>1 DEF SchemaInv, SchemaTypeOK, Complete, ColumnsComplete
  <2>2. CASE \E t \in RawLeft : live' = [live EXCEPT ![t] = "none"]
    BY <1>1, <2>2, RawDropped DEF SchemaInv
  <2> QED
    BY <2>1, <2>2 DEF PurgeTable
<1>3. SchemaTypeOK'
  BY <1>1, <1>2 DEF SchemaInv, SchemaTypeOK, Steps
<1>4. TablesLeft' /\ HistoryNeverTorn' /\ BackupsAreSpare'
  BY <1>1, <1>2 DEF SchemaInv, Complete, TablesLeft, HistoryNeverTorn, BackupsAreSpare
<1>5. IndexOK'
  BY <1>1 DEF SchemaInv, IndexOK
<1> QED
  BY <1>1, <1>2, <1>3, <1>4, <1>5 DEF SchemaInv, StepsOK, ShadowOK, OpensClean

-----------------------------------------------------------------------------
(* The theorems. *)

\* The invariant is inductive.
LEMMA SchemaInvNext == SchemaInv /\ [SchemaNext]_schemaVars => SchemaInv'
<1> SUFFICES ASSUME SchemaInv, [SchemaNext]_schemaVars PROVE SchemaInv'
  OBVIOUS
<1>1. CASE OfferGuide \/ StartRebuild \/ StartDiscard \/ GuideEnds \/ RunFails \/ PanelDies
  BY <1>1, GuideKeeps
<1>2. CASE OpenStore
  BY <1>2, OpenKeeps
<1>3. CASE RunStep
  BY <1>3, InspectKeeps, ShadowMade, BatchCopied, RunEnds, TransactionKeeps, StaleDropped,
     RenameKeeps, BackupsGo, RawDropKeeps, DeleteKeeps, PurgeKeeps DEF RunStep
<1>4. CASE UNCHANGED schemaVars
  <2>1. TablesOK' /\ (Complete' <=> Complete) /\ (NeedsRestructure' <=> NeedsRestructure)
    BY <1>4, TablesKept DEF schemaVars
  <2>2. SchemaTypeOK' /\ StepsOK' /\ IndexOK' /\ ShadowOK' /\ OpensClean'
    BY <1>4, <2>1 DEF SchemaInv, schemaVars, tableVars, SchemaTypeOK, StepsOK, IndexOK, ShadowOK,
       Prefix, OpensClean
  <2> QED
    BY <2>1, <2>2 DEF SchemaInv, TablesOK
<1> QED
  BY <1>1, <1>2, <1>3, <1>4 DEF SchemaNext

\* Every reachable state satisfies the invariant.
LEMMA SchemaInvariant == SchemaSpec => []SchemaInv
BY SchemaInvInit, SchemaInvNext, PTL DEF SchemaSpec

\* Type correctness of the upgrade.
THEOREM SchemaTypes == SchemaSpec => []SchemaTypeOK
<1>1. SchemaInv => SchemaTypeOK
  BY DEF SchemaInv
<1> QED
  BY <1>1, SchemaInvariant, PTL

\* The history is held whole and once, or was discarded, after every statement
\* of every run (restructure.go).
THEOREM HistoryStaysWhole == SchemaSpec => []HistoryNeverTorn
<1>1. SchemaInv => HistoryNeverTorn
  BY DEF SchemaInv
<1> QED
  BY <1>1, SchemaInvariant, PTL

\* A backup exists beside a complete live schema only (replaceLegacyMySQLTables).
THEOREM BackupsNeverTheOnlyCopy == SchemaSpec => []BackupsAreSpare
<1>1. SchemaInv => BackupsAreSpare
  BY DEF SchemaInv
<1> QED
  BY <1>1, SchemaInvariant, PTL

\* The panel opens complete tables without leftovers (cmd/server.go).
THEOREM OpensOnlyClean == SchemaSpec => []OpensClean
<1>1. SchemaInv => OpensClean
  BY DEF SchemaInv
<1> QED
  BY <1>1, SchemaInvariant, PTL

-----------------------------------------------------------------------------
(* The panel's data: types. *)

RestorePcs == {"down", "snapshot", "wipe", "extract", "remove", "open", "migrate", "mark",
               "serve"}

\* What the records of ./data hold is typed.
LEMMA NothingTyped ==
    /\ NoData \in Data
    /\ NoZip \in [of : Data, whole : BOOLEAN]
    /\ NoStaging \in StagingRecord
    /\ NoPromise \in [on : BOOLEAN, of : Data]
    /\ NoUpgrade \in [on : BOOLEAN, from : Data, first : BOOLEAN, taken : Nat]
<1>1. NoData \in Data
  BY RestoreBounds DEF NoData, Data
<1> QED
  BY <1>1 DEF NoZip, NoStaging, NoPromise, NoUpgrade, StagingRecord

\* A start that goes on is a start.
LEMMA PanelGoes ==
    ASSUME panel \in PanelRecord, NEW pc \in RestorePcs, StartGoes(pc)
    PROVE  panel' \in PanelRecord
BY DEF PanelRecord, RestorePcs, StartGoes

\* An archive that is published or not is typed.
LEMMA PublishedTyped ==
    ASSUME RestoreTypeOK, NEW set \in SUBSET Archived, NEW purpose \in {"restore", "upgrade"}
    PROVE  /\ Published(set) \subseteq Archived
           /\ Displaced(purpose, set) \subseteq {"restore", "upgrade"} \X Data
BY DEF Published, Displaced, Archived, RestoreTypeOK

\* Pruning adds nothing.
LEMMA PrunedSmaller ==
    ASSUME NEW set, PrunedFrom(set)
    PROVE  /\ upgradeArchives' \subseteq set
           /\ set \ Excess(set) \subseteq upgradeArchives'
           /\ troubles' = troubles \/ (troubles < MaxTroubles /\ troubles' = troubles + 1)
BY DEF PrunedFrom, Excess, NoTrouble, Trouble

\* A failed step is counted up to its bound.
LEMMA TroublesBounded ==
    ASSUME RestoreTypeOK, Trouble \/ NoTrouble
    PROVE  troubles' \in 0..MaxTroubles
BY RestoreBounds DEF RestoreTypeOK, Trouble, NoTrouble

LEMMA FreshTyped ==
    ASSUME RestoreTypeOK, NEW n \in 1..MaxStates, Fresh(n)
    PROVE  n \in 0..MaxStates /\ made' \in 0..MaxStates
BY RestoreBounds DEF RestoreTypeOK, Fresh

\* The types hold at the start.
LEMMA RestoreTypesInit == RestoreInit => RestoreTypeOK
<1> SUFFICES ASSUME RestoreInit PROVE RestoreTypeOK
  OBVIOUS
<1>1. PICK v \in 0..MaxVersion : data = [state |-> 1, marker |-> v]
  BY DEF RestoreInit
<1>2. data \in Data
  BY <1>1, RestoreBounds DEF Data
<1> QED
  BY <1>2, NothingTyped, RestoreBounds
  DEF RestoreInit, RestoreTypeOK, PanelRecord, PanelVersions, Seconds

\* A step of a start that is no restore of data.
LEMMA StartTypes ==
    ASSUME RestoreTypeOK, PanelStarts \/ TakesSnapshot \/ RemovesZip \/ MigrationsEnd
    PROVE  RestoreTypeOK'
<1>1. CASE PanelStarts
  <2>1. second' \in Seconds /\ running' \in PanelVersions /\ panel' \in PanelRecord
    BY <1>1 DEF PanelStarts, PanelRecord
  <2>2. troubles' \in 0..MaxTroubles
    BY <1>1, TroublesBounded DEF PanelStarts
  <2> QED
    BY <1>1, <2>1, <2>2 DEF PanelStarts, RestoreTypeOK, archives, restoreHistory
<1>2. CASE TakesSnapshot
  <2>1. panel' \in PanelRecord
    BY <1>2, PanelGoes DEF TakesSnapshot, RestoreTypeOK, RestorePcs
  <2>2. /\ snapshots' \subseteq Archived
        /\ replaced' \subseteq {"restore", "upgrade"} \X Data
    <3>1. /\ Published(snapshots) \subseteq Archived
          /\ Displaced("restore", snapshots) \subseteq {"restore", "upgrade"} \X Data
      BY PublishedTyped DEF RestoreTypeOK
    <3> QED
      BY <1>2, <3>1 DEF TakesSnapshot, SnapshotTaken, SnapshotFails, RestoreTypeOK
  <2>3. troubles' \in 0..MaxTroubles
    BY <1>2, TroublesBounded DEF TakesSnapshot, SnapshotTaken, SnapshotFails
  <2> QED
    BY <1>2, <2>1, <2>2, <2>3 DEF TakesSnapshot, RestoreTypeOK
<1>3. CASE RemovesZip
  <2>1. panel' \in PanelRecord
    BY <1>3, PanelGoes DEF RemovesZip, RestoreTypeOK, RestorePcs
  <2>2. zip' \in [of : Data, whole : BOOLEAN]
    BY <1>3, NothingTyped DEF RemovesZip, RestoreTypeOK
  <2>3. troubles' \in 0..MaxTroubles
    BY <1>3, TroublesBounded DEF RemovesZip
  <2> QED
    BY <1>3, <2>1, <2>2, <2>3 DEF RemovesZip, RestoreTypeOK, archives, restoreHistory
<1>4. CASE MigrationsEnd
  <2>1. panel' \in PanelRecord
    BY <1>4, PanelGoes DEF MigrationsEnd, RestoreTypeOK, RestorePcs
  <2> QED
    BY <1>4, <2>1 DEF MigrationsEnd, RestoreTypeOK, archives, restoreHistory
<1> QED
  BY <1>1, <1>2, <1>3, <1>4

\* A step that replaces what ./data holds.
LEMMA DataTypes ==
    ASSUME RestoreTypeOK, Wipes \/ Extracts \/ Migrates \/ PanelWrites \/ Marks
    PROVE  RestoreTypeOK'
<1>1. CASE Wipes
  <2>1. PICK mixes \in BOOLEAN :
            /\ panel' = [panel EXCEPT !.pc = "extract", !.mixes = mixes]
            /\ IF mixes THEN Trouble ELSE NoTrouble
    BY <1>1 DEF Wipes
  <2>2. panel' \in PanelRecord
    BY <2>1 DEF PanelRecord, RestoreTypeOK
  <2>3. troubles' \in 0..MaxTroubles
    BY <2>1, TroublesBounded
  <2>4. data' \in Data /\ wiped' \subseteq Data
    BY <1>1, NothingTyped DEF Wipes, RestoreTypeOK
  <2> QED
    BY <1>1, <2>2, <2>3, <2>4, NothingTyped DEF Wipes, RestoreTypeOK, archives
<1>2. CASE Extracts
  <2>1. panel' \in PanelRecord
    BY <1>2, PanelGoes DEF Extracts, Extracted, RestoreTypeOK, RestorePcs
  <2>2. troubles' \in 0..MaxTroubles
    BY <1>2, TroublesBounded DEF Extracts, Extracted, ExtractionFails
  <2>3. data' \in Data /\ promised' \in [on : BOOLEAN, of : Data]
    BY <1>2, NothingTyped DEF Extracts, Extracted, ExtractionFails, RestoreTypeOK
  <2> QED
    BY <1>2, <2>1, <2>2, <2>3 DEF Extracts, RestoreTypeOK, archives
<1>3. CASE Migrates \/ PanelWrites
  <2>1. PICK n \in 1..MaxStates : Fresh(n) /\ data' = [data EXCEPT !.state = n]
    BY <1>3 DEF Migrates, PanelWrites
  <2>2. data' \in Data /\ made' \in 0..MaxStates
    BY <2>1, FreshTyped DEF Data, RestoreTypeOK
  <2> QED
    BY <1>3, <2>2 DEF Migrates, PanelWrites, RestoreTypeOK, archives, restoreHistory
<1>4. CASE Marks
  <2>1. panel' \in PanelRecord
    BY <1>4, PanelGoes DEF Marks, RestoreTypeOK, RestorePcs
  <2>2. troubles' \in 0..MaxTroubles
    BY <1>4, TroublesBounded DEF Marks
  <2>3. data' \in Data
    BY <1>4, RestoreBounds DEF Marks, RestoreTypeOK, Data, PanelVersions
  <2> QED
    BY <1>4, <2>1, <2>2, <2>3, NothingTyped DEF Marks, RestoreTypeOK, archives
<1> QED
  BY <1>1, <1>2, <1>3, <1>4

\* What is noted of an upgrade is typed.
LEMMA NoticedTyped ==
    ASSUME RestoreTypeOK, NEW success \in BOOLEAN
    PROVE  Noticed(success) \in [on : BOOLEAN, from : Data, first : BOOLEAN, taken : Nat]
BY DEF Noticed, RestoreTypeOK

\* The archive of an upgrade, and pruning.
LEMMA UpgradeTypes ==
    ASSUME RestoreTypeOK, Opens \/ DailyPrune
    PROVE  RestoreTypeOK'
<1>1. CASE Opens
  <2>1. \/ panel' = [panel EXCEPT !.pc = "migrate"]
        \/ panel' = [panel EXCEPT !.pc = "migrate", !.records = TRUE]
    BY <1>1 DEF Opens, NoUpgradeDue, NewInstall, ArchiveTaken, ArchiveFails
  <2>2. panel' \in PanelRecord
    BY <2>1 DEF PanelRecord, RestoreTypeOK
  <2>3. upgrade' \in [on : BOOLEAN, from : Data, first : BOOLEAN, taken : Nat]
    BY <1>1, NothingTyped, NoticedTyped
    DEF Opens, NoUpgradeDue, NewInstall, ArchiveTaken, ArchiveFails, RestoreTypeOK
  <2>4. /\ upgradeArchives' \subseteq Archived /\ troubles' \in 0..MaxTroubles
        /\ replaced' \subseteq {"restore", "upgrade"} \X Data
    <3>1. CASE ArchiveTaken
      <4>1. /\ Published(upgradeArchives) \subseteq Archived
            /\ Displaced("upgrade", upgradeArchives) \subseteq {"restore", "upgrade"} \X Data
        BY PublishedTyped DEF RestoreTypeOK
      <4> QED
        BY <3>1, <4>1, PrunedSmaller, RestoreBounds DEF ArchiveTaken, RestoreTypeOK
    <3>2. CASE NoUpgradeDue \/ NewInstall \/ ArchiveFails
      BY <3>2, TroublesBounded DEF NoUpgradeDue, NewInstall, ArchiveFails, RestoreTypeOK
    <3> QED
      BY <1>1, <3>1, <3>2 DEF Opens
  <2> QED
    BY <1>1, <2>2, <2>3, <2>4 DEF Opens, RestoreTypeOK
<1>2. CASE DailyPrune
  <2>1. upgradeArchives' \subseteq Archived /\ troubles' \in 0..MaxTroubles
    BY <1>2, PrunedSmaller, RestoreBounds DEF DailyPrune, RestoreTypeOK
  <2> QED
    BY <1>2, <2>1 DEF DailyPrune, RestoreTypeOK, restoreHistory
<1> QED
  BY <1>1, <1>2

\* A request that goes on, or returns, is a request.
LEMMA StagerTyped ==
    ASSUME RestoreTypeOK, NEW r \in Stagers,
           \/ StagerReturns(r)
           \/ \E stage \in {"replace", "copy", "saved", "told", "exit"} : StagerGoes(r, stage)
    PROVE  staging' \in [Stagers -> StagingRecord]
<1>1. staging[r] \in StagingRecord
  BY DEF RestoreTypeOK
<1>2. CASE StagerReturns(r)
  BY <1>2, NothingTyped DEF StagerReturns, RestoreTypeOK
<1>3. ASSUME NEW stage \in {"replace", "copy", "saved", "told", "exit"}, StagerGoes(r, stage)
      PROVE  staging' \in [Stagers -> StagingRecord]
  <2>1. [staging[r] EXCEPT !.stage = stage] \in StagingRecord
    BY <1>1 DEF StagingRecord
  <2> QED
    BY <1>3, <2>1 DEF StagerGoes, RestoreTypeOK
<1> QED
  BY <1>2, <1>3

\* The process ends.
LEMMA EndTypes ==
    ASSUME RestoreTypeOK, PanelEnds \/ \E r \in Stagers : ExitsToRestore(r)
    PROVE  RestoreTypeOK'
<1>1. PanelGone /\ (Trouble \/ NoTrouble)
  BY DEF PanelEnds, ExitsToRestore
<1>2. panel' \in PanelRecord
  BY <1>1, PanelGoes DEF PanelGone, RestoreTypeOK, RestorePcs
<1>3. staging' \in [Stagers -> StagingRecord]
  BY <1>1, NothingTyped DEF PanelGone
<1>4. troubles' \in 0..MaxTroubles
  BY <1>1, TroublesBounded
<1> QED
  BY <1>1, <1>2, <1>3, <1>4 DEF PanelGone, RestoreTypeOK, archives, restoreHistory

\* The requests.
LEMMA StagingTypes ==
    ASSUME RestoreTypeOK, NEW r \in Stagers,
           \/ StagesBackup(r) \/ ReplacesZip(r) \/ RenamesZip(r) \/ CopiesZip(r)
           \/ AnnouncesRestore(r) \/ ReleasesLock(r)
    PROVE  RestoreTypeOK'
<1>0. staging[r].of \in Data
  BY DEF RestoreTypeOK, StagingRecord
<1>1. CASE StagesBackup(r)
  <2>1. PICK n \in 1..MaxStates, v \in 0..MaxVersion :
            /\ Fresh(n)
            /\ staging' = [staging EXCEPT ![r] = [stage |-> "save",
                                                  of |-> [state |-> n, marker |-> v]]]
    BY <1>1 DEF StagesBackup
  <2>2. n \in 0..MaxStates /\ made' \in 0..MaxStates
    BY <2>1, FreshTyped
  <2>3. [stage |-> "save", of |-> [state |-> n, marker |-> v]] \in StagingRecord
    BY <2>2 DEF StagingRecord, Data
  <2>4. staging' \in [Stagers -> StagingRecord]
    BY <2>1, <2>3 DEF RestoreTypeOK
  <2> QED
    BY <1>1, <2>2, <2>4 DEF StagesBackup, RestoreTypeOK, archives, restoreHistory
<1>2. CASE ReplacesZip(r)
  <2>1. staging' \in [Stagers -> StagingRecord]
    BY <1>2, StagerTyped DEF ReplacesZip
  <2>2. troubles' \in 0..MaxTroubles
    BY <1>2, TroublesBounded DEF ReplacesZip
  <2>3. zip' \in [of : Data, whole : BOOLEAN] /\ promised' \in [on : BOOLEAN, of : Data]
    BY <1>2, NothingTyped DEF ReplacesZip, RestoreTypeOK
  <2> QED
    BY <1>2, <2>1, <2>2, <2>3 DEF ReplacesZip, RestoreTypeOK, archives
<1>3. CASE RenamesZip(r) \/ CopiesZip(r)
  <2>1. staging' \in [Stagers -> StagingRecord]
    BY <1>3, StagerTyped DEF RenamesZip, CopiesZip
  <2>2. troubles' \in 0..MaxTroubles
    BY <1>3, TroublesBounded DEF RenamesZip, CopiesZip
  <2>3. zip' \in [of : Data, whole : BOOLEAN]
    <3>1. [of |-> staging[r].of, whole |-> TRUE] \in [of : Data, whole : BOOLEAN]
      BY <1>0
    <3>2. [of |-> staging[r].of, whole |-> FALSE] \in [of : Data, whole : BOOLEAN]
      BY <1>0
    <3> QED
      BY <1>3, <3>1, <3>2 DEF RenamesZip, CopiesZip, RestoreTypeOK
  <2> QED
    BY <1>3, <2>1, <2>2, <2>3
    DEF RenamesZip, CopiesZip, RestoreTypeOK, archives, restoreHistory
<1>4. CASE AnnouncesRestore(r)
  <2>1. staging' \in [Stagers -> StagingRecord]
    BY <1>4, StagerTyped DEF AnnouncesRestore
  <2>2. troubles' \in 0..MaxTroubles
    BY <1>4, TroublesBounded DEF AnnouncesRestore
  <2>3. promised' \in [on : BOOLEAN, of : Data]
    <3>1. [on |-> TRUE, of |-> staging[r].of] \in [on : BOOLEAN, of : Data]
      BY <1>0
    <3> QED
      BY <1>4, <3>1 DEF AnnouncesRestore, RestoreTypeOK
  <2> QED
    BY <1>4, <2>1, <2>2, <2>3 DEF AnnouncesRestore, RestoreTypeOK, archives
<1>5. CASE ReleasesLock(r)
  <2>1. staging' \in [Stagers -> StagingRecord]
    BY <1>5, StagerTyped DEF ReleasesLock
  <2> QED
    BY <1>5, <2>1 DEF ReleasesLock, RestoreTypeOK, archives, restoreHistory
<1> QED
  BY <1>1, <1>2, <1>3, <1>4, <1>5

\* Every step keeps the types.
LEMMA RestoreTypesStep == RestoreTypeOK /\ [RestoreNext]_restoreVars => RestoreTypeOK'
<1> SUFFICES ASSUME RestoreTypeOK, [RestoreNext]_restoreVars PROVE RestoreTypeOK'
  OBVIOUS
<1>1. CASE PanelStarts \/ TakesSnapshot \/ RemovesZip \/ MigrationsEnd
  BY <1>1, StartTypes
<1>2. CASE Wipes \/ Extracts \/ Migrates \/ PanelWrites \/ Marks
  BY <1>2, DataTypes
<1>3. CASE Opens \/ DailyPrune
  BY <1>3, UpgradeTypes
<1>4. CASE PanelEnds \/ \E r \in Stagers : ExitsToRestore(r)
  BY <1>4, EndTypes
<1>5. ASSUME NEW r \in Stagers,
             \/ StagesBackup(r) \/ ReplacesZip(r) \/ RenamesZip(r) \/ CopiesZip(r)
             \/ AnnouncesRestore(r) \/ ReleasesLock(r)
      PROVE  RestoreTypeOK'
  BY <1>5, StagingTypes
<1>6. CASE UNCHANGED restoreVars
  BY <1>6 DEF restoreVars, archives, restoreHistory, RestoreTypeOK
<1> QED
  BY <1>1, <1>2, <1>3, <1>4, <1>5, <1>6 DEF RestoreNext, StagingStep

\* The staging, the restore, the archives and the upgrade keep their shape, for any
\* number of requests, versions, backups and failures.
THEOREM RestoreTyped == RestoreSpec => []RestoreTypeOK
BY RestoreTypesInit, RestoreTypesStep, PTL DEF RestoreSpec

-----------------------------------------------------------------------------
(* The panel's data: what a restore deletes is archived.                     *)

\* The snapshot of this start is taken when ./data is emptied.
SnapshotsOK == panel.pc = "wipe" => \E a \in snapshots : a.data = data

ArchivedInv == RestoreTypeOK /\ SnapshotsOK /\ WipedIsArchived

LEMMA ArchivedStep ==
    ASSUME ArchivedInv, [RestoreNext]_restoreVars
    PROVE  ArchivedInv'
<1>0. RestoreTypeOK'
  BY RestoreTypesStep DEF ArchivedInv
<1>1. CASE TakesSnapshot
  <2>1. UNCHANGED <<data, wiped>>
    BY <1>1 DEF TakesSnapshot
  <2>2. CASE SnapshotTaken
    <3>1. [second |-> second, data |-> data] \in snapshots'
      BY <2>2 DEF SnapshotTaken, Published
    <3>2. \E a \in snapshots' : a.data = data'
      BY <2>1, <3>1
    <3>3. ASSUME NEW a \in snapshots, <<"restore", a.data>> \notin replaced'
          PROVE  a \in snapshots'
      <4>1. CASE a.second = second
        <5>1. <<"restore", a.data>> \in Displaced("restore", snapshots)
          BY <3>3, <4>1 DEF Displaced
        <5> QED
          BY <2>2, <3>3, <5>1 DEF SnapshotTaken
      <4>2. CASE a.second # second
        BY <2>2, <3>3, <4>2 DEF SnapshotTaken, Published
      <4> QED
        BY <4>1, <4>2
    <3>4. replaced \subseteq replaced'
      BY <2>2 DEF SnapshotTaken
    <3>5. ASSUME NEW d \in wiped', <<"restore", d>> \notin replaced'
          PROVE  \E a \in snapshots' : a.data = d
      <4>1. PICK a \in snapshots : a.data = d
        BY <2>1, <3>4, <3>5 DEF ArchivedInv, WipedIsArchived
      <4> QED
        BY <3>3, <3>5, <4>1
    <3> QED
      BY <1>0, <3>2, <3>5 DEF ArchivedInv, SnapshotsOK, WipedIsArchived
  <2>3. CASE SnapshotFails /\ StartGoes("open")
    <3>1. panel'.pc = "open" /\ UNCHANGED <<snapshots, replaced>>
      BY <2>3 DEF SnapshotFails, StartGoes, ArchivedInv, RestoreTypeOK, PanelRecord
    <3> QED
      BY <1>0, <2>1, <3>1 DEF ArchivedInv, SnapshotsOK, WipedIsArchived
  <2> QED
    BY <1>1, <2>2, <2>3 DEF TakesSnapshot
<1>2. CASE Wipes
  <2>1. panel'.pc = "extract"
    BY <1>2 DEF Wipes, ArchivedInv, RestoreTypeOK, PanelRecord
  <2>2. UNCHANGED <<snapshots, replaced>> /\ wiped' = wiped \cup {data}
    BY <1>2 DEF Wipes, archives
  <2>3. \E a \in snapshots : a.data = data
    BY <1>2 DEF Wipes, ArchivedInv, SnapshotsOK
  <2> QED
    BY <1>0, <2>1, <2>2, <2>3 DEF ArchivedInv, SnapshotsOK, WipedIsArchived
<1>3. CASE \/ PanelStarts \/ Extracts \/ RemovesZip \/ Opens \/ MigrationsEnd \/ Marks
           \/ PanelEnds \/ \E r \in Stagers : ExitsToRestore(r)
  <2>1. panel'.pc # "wipe"
    <3>1. CASE PanelStarts
      BY <3>1 DEF PanelStarts
    <3>2. CASE Opens
      BY <3>2
      DEF Opens, NoUpgradeDue, NewInstall, ArchiveTaken, ArchiveFails, ArchivedInv,
          RestoreTypeOK, PanelRecord
    <3>3. CASE Extracts \/ RemovesZip \/ MigrationsEnd \/ Marks
      BY <3>3
      DEF Extracts, Extracted, RemovesZip, MigrationsEnd, Marks, StartGoes, ArchivedInv,
          RestoreTypeOK, PanelRecord
    <3>4. CASE PanelEnds \/ \E r \in Stagers : ExitsToRestore(r)
      BY <3>4
      DEF PanelEnds, ExitsToRestore, PanelGone, StartGoes, ArchivedInv, RestoreTypeOK,
          PanelRecord
    <3> QED
      BY <1>3, <3>1, <3>2, <3>3, <3>4
  <2>2. UNCHANGED <<snapshots, wiped>>
    BY <1>3
    DEF PanelStarts, Extracts, RemovesZip, Opens, MigrationsEnd, Marks, PanelEnds,
        ExitsToRestore, PanelGone, archives, restoreHistory
  <2>3. replaced \subseteq replaced'
    BY <1>3
    DEF PanelStarts, Extracts, RemovesZip, Opens, NoUpgradeDue, NewInstall, ArchiveTaken,
        ArchiveFails, MigrationsEnd, Marks, PanelEnds, ExitsToRestore, PanelGone,
        restoreHistory
  <2> QED
    BY <1>0, <2>1, <2>2, <2>3 DEF ArchivedInv, SnapshotsOK, WipedIsArchived
<1>4. CASE Migrates \/ PanelWrites
  <2>1. UNCHANGED <<snapshots, replaced, wiped, panel>> /\ panel.pc # "wipe"
    BY <1>4 DEF Migrates, PanelWrites, archives, restoreHistory
  <2> QED
    BY <1>0, <2>1 DEF ArchivedInv, SnapshotsOK, WipedIsArchived
<1>5. CASE UNCHANGED <<snapshots, replaced, wiped, panel, data>>
  BY <1>0, <1>5 DEF ArchivedInv, SnapshotsOK, WipedIsArchived
<1>6. ASSUME \/ DailyPrune \/ UNCHANGED restoreVars
             \/ \E r \in Stagers :
                 \/ StagesBackup(r) \/ ReplacesZip(r) \/ RenamesZip(r) \/ CopiesZip(r)
                 \/ AnnouncesRestore(r) \/ ReleasesLock(r)
      PROVE  UNCHANGED <<snapshots, replaced, wiped, panel, data>>
  BY <1>6
  DEF DailyPrune, StagesBackup, ReplacesZip, RenamesZip, CopiesZip, AnnouncesRestore,
      ReleasesLock, restoreVars, archives, restoreHistory
<1> QED
  BY <1>1, <1>2, <1>3, <1>4, <1>5, <1>6 DEF RestoreNext, StagingStep

\* Whatever a restore began to delete is in a snapshot, for any number of starts,
\* failed steps and deaths, but for what the snapshot of a start in the same second
\* replaced.
THEOREM RestoresLoseNothing == RestoreSpec => []WipedIsArchived
<1>1. RestoreInit => ArchivedInv
  <2> SUFFICES ASSUME RestoreInit PROVE ArchivedInv
    OBVIOUS
  <2>1. RestoreTypeOK
    BY RestoreTypesInit
  <2> QED
    BY <2>1 DEF RestoreInit, ArchivedInv, SnapshotsOK, WipedIsArchived
<1>2. ArchivedInv /\ [RestoreNext]_restoreVars => ArchivedInv'
  BY ArchivedStep
<1>3. ArchivedInv => WipedIsArchived
  BY DEF ArchivedInv
<1> QED
  BY <1>1, <1>2, <1>3, PTL DEF RestoreSpec

-----------------------------------------------------------------------------
(* The panel's data: what was promised stays staged.                         *)

\* One request at a time stages a backup, and what was promised is gone while another
\* takes its place and once it is in ./data.
StagersOK ==
    /\ \A q, r \in Stagers : HoldsLock(q) /\ HoldsLock(r) => q = r
    /\ panel.pc # "serve" => \A r \in Stagers : staging[r].stage = "none"
    /\ panel.pc = "remove" => ~promised.on
    /\ \A r \in Stagers :
        /\ staging[r].stage \in {"replace", "copy", "saved"} => ~promised.on
        /\ staging[r].stage = "copy" => zip = [of |-> staging[r].of, whole |-> FALSE]
        /\ staging[r].stage = "saved" => zip = [of |-> staging[r].of, whole |-> TRUE]

StagedInv == RestoreTypeOK /\ StagersOK /\ StagedUntilApplied

\* Where a request is after a step of it, and that the others stay.
LEMMA StagerMoves ==
    ASSUME RestoreTypeOK, NEW r \in Stagers, NEW stage, StagerGoes(r, stage)
    PROVE  /\ staging'[r].stage = stage /\ staging'[r].of = staging[r].of
           /\ \A q \in Stagers \ {r} : staging'[q] = staging[q]
<1>1. staging[r] \in StagingRecord
  BY DEF RestoreTypeOK
<1> QED
  BY <1>1 DEF StagerGoes, RestoreTypeOK, StagingRecord

LEMMA StagerLeaves ==
    ASSUME RestoreTypeOK, NEW r \in Stagers, StagerReturns(r)
    PROVE  /\ staging'[r].stage = "none"
           /\ \A q \in Stagers \ {r} : staging'[q] = staging[q]
BY DEF StagerReturns, RestoreTypeOK, NoStaging

\* The panel serves while a request is under way.
LEMMA StagerServes ==
    ASSUME StagedInv, NEW r \in Stagers, staging[r].stage # "none"
    PROVE  panel.pc = "serve"
BY DEF StagedInv, StagersOK

\* Nothing else stages while a request holds the lock.
LEMMA StagerAlone ==
    ASSUME StagedInv, NEW r \in Stagers, HoldsLock(r)
    PROVE  \A q \in Stagers \ {r} : staging[q].stage \in {"none", "exit"}
<1>1. \A q \in Stagers \ {r} : ~HoldsLock(q) /\ staging[q] \in StagingRecord
  BY DEF StagedInv, StagersOK, RestoreTypeOK
<1> QED
  BY <1>1 DEF HoldsLock, StagingRecord

\* The requests.
LEMMA StagingKeeps ==
    ASSUME StagedInv, RestoreTypeOK', NEW r \in Stagers,
           \/ StagesBackup(r) \/ ReplacesZip(r) \/ RenamesZip(r) \/ CopiesZip(r)
           \/ AnnouncesRestore(r) \/ ReleasesLock(r)
    PROVE  StagedInv'
<1>1. RestoreTypeOK /\ panel' = panel
  BY DEF StagedInv, StagesBackup, ReplacesZip, RenamesZip, CopiesZip, AnnouncesRestore,
         ReleasesLock
<1>2. panel.pc = "serve"
  BY StagerServes
  DEF StagesBackup, ReplacesZip, RenamesZip, CopiesZip, AnnouncesRestore, ReleasesLock
<1>3. CASE StagesBackup(r)
  <2>1. \A q \in Stagers : ~HoldsLock(q)
    BY <1>3 DEF StagesBackup, LockHeld
  <2>2. /\ staging'[r].stage = "save"
        /\ \A q \in Stagers \ {r} : staging'[q] = staging[q]
    BY <1>1, <1>3 DEF StagesBackup, RestoreTypeOK
  <2>3. \A q \in Stagers : staging'[q].stage \notin {"replace", "copy", "saved"}
    BY <2>1, <2>2 DEF HoldsLock
  <2>4. UNCHANGED <<zip, promised>>
    BY <1>3 DEF StagesBackup, restoreHistory
  <2>5. \A q \in Stagers : HoldsLock(q)' => q = r
    BY <2>1, <2>2 DEF HoldsLock
  <2> QED
    BY <1>1, <1>2, <2>3, <2>4, <2>5 DEF StagedInv, StagersOK, StagedUntilApplied
<1>4. CASE ~StagesBackup(r)
  <2>1. HoldsLock(r)
    BY <1>4
    DEF ReplacesZip, RenamesZip, CopiesZip, AnnouncesRestore, ReleasesLock, HoldsLock
  <2>2. \A q \in Stagers \ {r} : staging[q].stage \in {"none", "exit"}
    BY <2>1, StagerAlone
  <2>3. CASE StagerReturns(r)
    <3>1. /\ staging'[r].stage = "none"
          /\ \A q \in Stagers \ {r} : staging'[q] = staging[q]
      BY <1>1, <2>3, StagerLeaves
    <3>2. \A q \in Stagers : staging'[q].stage \in {"none", "exit"}
      BY <2>2, <3>1
    <3>3. UNCHANGED promised /\ (UNCHANGED zip \/ staging[r].stage = "copy")
      <4>1. staging[r].stage # "none"
        BY <2>1 DEF HoldsLock
      <4>2. \A stage \in {"replace", "saved", "told", "exit", "copy"} : ~StagerGoes(r, stage)
        <5>1. ASSUME NEW stage \in {"replace", "saved", "told", "exit", "copy"},
                     StagerGoes(r, stage)
              PROVE  FALSE
          BY <1>1, <3>1, <5>1, StagerMoves
        <5> QED
          BY <5>1
      <4> QED
        BY <1>4, <4>2
        DEF ReplacesZip, RenamesZip, CopiesZip, AnnouncesRestore, ReleasesLock, restoreHistory
    <3>4. promised.on => UNCHANGED zip
      BY <3>3 DEF StagedInv, StagersOK
    <3> QED
      BY <1>1, <1>2, <3>2, <3>3, <3>4
      DEF StagedInv, StagersOK, StagedUntilApplied, HoldsLock
  <2>4. CASE \E stage \in {"replace", "copy", "saved", "told", "exit"} : StagerGoes(r, stage)
    <3>1. PICK stage \in {"replace", "copy", "saved", "told", "exit"} : StagerGoes(r, stage)
      BY <2>4
    <3>2. /\ staging'[r].stage = stage /\ staging'[r].of = staging[r].of
          /\ \A q \in Stagers \ {r} : staging'[q] = staging[q]
      BY <1>1, <3>1, StagerMoves
    <3>3. \A q \in Stagers \ {r} : staging'[q].stage \in {"none", "exit"}
      BY <2>2, <3>2
    <3>4. \A q \in Stagers : HoldsLock(q)' => q = r
      BY <3>3 DEF HoldsLock
    <3>5. ~StagerReturns(r)
      BY <1>1, <3>2, StagerLeaves
    <3>6. /\ stage \in {"replace", "copy", "saved"} => ~promised'.on
          /\ stage = "copy" => zip' = [of |-> staging'[r].of, whole |-> FALSE]
          /\ stage = "saved" => zip' = [of |-> staging'[r].of, whole |-> TRUE]
          /\ promised'.on => zip' = [of |-> promised'.of, whole |-> TRUE]
      <4>1. CASE ReplacesZip(r)
        <5>1. StagerGoes(r, "replace")
          BY <3>5, <4>1 DEF ReplacesZip
        <5>2. stage = "replace" /\ ~Told
          BY <1>1, <2>2, <3>2, <4>1, <5>1, StagerMoves DEF ReplacesZip, Told
        <5> QED
          BY <3>5, <4>1, <5>2 DEF ReplacesZip, NoPromise
      <4>2. CASE RenamesZip(r)
        <5>1. CASE StagerGoes(r, "saved") /\ zip' = [of |-> staging[r].of, whole |-> TRUE]
          <6>1. stage = "saved"
            BY <1>1, <3>2, <5>1, StagerMoves
          <6> QED
            BY <3>2, <4>2, <5>1, <6>1 DEF RenamesZip, restoreHistory, StagedInv, StagersOK
        <5>2. CASE StagerGoes(r, "copy") /\ zip' = [of |-> staging[r].of, whole |-> FALSE]
          <6>1. stage = "copy"
            BY <1>1, <3>2, <5>2, StagerMoves
          <6> QED
            BY <3>2, <4>2, <5>2, <6>1 DEF RenamesZip, restoreHistory, StagedInv, StagersOK
        <5> QED
          BY <4>2, <5>1, <5>2 DEF RenamesZip
      <4>3. CASE CopiesZip(r)
        <5>1. StagerGoes(r, "saved") /\ zip' = [zip EXCEPT !.whole = TRUE]
          BY <3>5, <4>3 DEF CopiesZip
        <5>2. stage = "saved"
          BY <1>1, <3>2, <5>1, StagerMoves
        <5>3. zip = [of |-> staging[r].of, whole |-> FALSE] /\ ~promised.on
          BY <4>3 DEF CopiesZip, StagedInv, StagersOK
        <5> QED
          BY <3>2, <4>3, <5>1, <5>2, <5>3 DEF CopiesZip, restoreHistory
      <4>4. CASE AnnouncesRestore(r)
        <5>1. StagerGoes(r, "told") /\ promised' = [on |-> TRUE, of |-> staging[r].of]
          BY <3>5, <4>4 DEF AnnouncesRestore
        <5>2. stage = "told"
          BY <1>1, <3>2, <5>1, StagerMoves
        <5>3. zip' = [of |-> staging[r].of, whole |-> TRUE]
          BY <4>4 DEF AnnouncesRestore, StagedInv, StagersOK
        <5> QED
          BY <5>1, <5>2, <5>3
      <4>5. CASE ReleasesLock(r)
        <5>1. StagerGoes(r, "exit") /\ UNCHANGED <<zip, promised>>
          BY <4>5 DEF ReleasesLock, restoreHistory
        <5>2. stage = "exit"
          BY <1>1, <3>2, <5>1, StagerMoves
        <5> QED
          BY <5>1, <5>2 DEF StagedInv, StagedUntilApplied
      <4> QED
        BY <1>4, <4>1, <4>2, <4>3, <4>4, <4>5
    <3> QED
      BY <1>1, <1>2, <3>2, <3>3, <3>4, <3>6 DEF StagedInv, StagersOK, StagedUntilApplied
  <2> QED
    BY <1>4, <2>3, <2>4
    DEF ReplacesZip, RenamesZip, CopiesZip, AnnouncesRestore, ReleasesLock
<1> QED
  BY <1>3, <1>4

LEMMA StagedStep ==
    ASSUME StagedInv, [RestoreNext]_restoreVars
    PROVE  StagedInv'
<1>0. RestoreTypeOK'
  BY RestoreTypesStep DEF StagedInv
<1>1. ASSUME NEW r \in Stagers,
             \/ StagesBackup(r) \/ ReplacesZip(r) \/ RenamesZip(r) \/ CopiesZip(r)
             \/ AnnouncesRestore(r) \/ ReleasesLock(r)
      PROVE  StagedInv'
  BY <1>0, <1>1, StagingKeeps
<1>2. CASE Extracts
  <2>1. panel.pc # "serve" /\ UNCHANGED staging
    BY <1>2 DEF Extracts
  <2>2. panel'.pc \in {"remove", "open"} /\ UNCHANGED zip
    BY <1>2
    DEF Extracts, Extracted, ExtractionFails, StartGoes, StagedInv, RestoreTypeOK, PanelRecord
  <2>3. \A r \in Stagers : staging[r].stage = "none"
    BY <2>1 DEF StagedInv, StagersOK
  <2>4. CASE Extracted
    <3>1. promised.on => promised.of = zip.of
      BY DEF StagedInv, StagedUntilApplied
    <3>2. ~promised'.on
      BY <2>4, <3>1 DEF Extracted, NoPromise
    <3> QED
      BY <1>0, <2>1, <2>3, <3>2 DEF StagedInv, StagersOK, StagedUntilApplied, HoldsLock
  <2>5. CASE ExtractionFails /\ StartGoes("open")
    <3>1. panel'.pc = "open" /\ UNCHANGED promised
      BY <2>5 DEF ExtractionFails, StartGoes, StagedInv, RestoreTypeOK, PanelRecord
    <3> QED
      BY <1>0, <2>1, <2>2, <2>3, <3>1 DEF StagedInv, StagersOK, StagedUntilApplied, HoldsLock
  <2> QED
    BY <1>2, <2>4, <2>5 DEF Extracts
<1>3. CASE RemovesZip
  <2>1. panel.pc = "remove" /\ UNCHANGED <<staging, promised>>
    BY <1>3 DEF RemovesZip, restoreHistory
  <2>2. ~promised'.on /\ \A r \in Stagers : staging'[r].stage = "none"
    BY <2>1 DEF StagedInv, StagersOK
  <2> QED
    BY <1>0, <2>2 DEF StagedInv, StagersOK, StagedUntilApplied, HoldsLock
<1>4. CASE PanelEnds \/ \E r \in Stagers : ExitsToRestore(r)
  <2>1. PanelGone
    BY <1>4 DEF PanelEnds, ExitsToRestore
  <2>2. \A r \in Stagers : staging'[r].stage = "none"
    BY <2>1 DEF PanelGone, NoStaging
  <2>3. panel'.pc = "down" /\ UNCHANGED <<zip, promised>>
    BY <2>1
    DEF PanelGone, StartGoes, restoreHistory, StagedInv, RestoreTypeOK, PanelRecord
  <2> QED
    BY <1>0, <2>2, <2>3 DEF StagedInv, StagersOK, StagedUntilApplied, HoldsLock
<1>5. CASE \/ PanelStarts \/ TakesSnapshot \/ Wipes \/ Opens \/ Migrates \/ MigrationsEnd
           \/ Marks \/ PanelWrites \/ DailyPrune \/ UNCHANGED restoreVars
  <2>1. UNCHANGED <<zip, promised, staging>>
    BY <1>5
    DEF PanelStarts, TakesSnapshot, Wipes, Opens, Migrates, MigrationsEnd, Marks, PanelWrites,
        DailyPrune, restoreVars, archives, restoreHistory
  <2>2. /\ panel'.pc # "serve" => panel.pc # "serve"
        /\ panel'.pc = "remove" => panel.pc = "remove"
    <3>1. CASE Migrates \/ PanelWrites \/ DailyPrune \/ UNCHANGED restoreVars
      BY <3>1 DEF Migrates, PanelWrites, DailyPrune, restoreVars
    <3>2. CASE PanelStarts
      BY <3>2 DEF PanelStarts
    <3>3. CASE Opens
      BY <3>3
      DEF Opens, NoUpgradeDue, NewInstall, ArchiveTaken, ArchiveFails, StagedInv,
          RestoreTypeOK, PanelRecord
    <3>4. CASE TakesSnapshot \/ Wipes \/ MigrationsEnd \/ Marks
      BY <3>4
      DEF TakesSnapshot, Wipes, MigrationsEnd, Marks, StartGoes, StagedInv, RestoreTypeOK,
          PanelRecord
    <3> QED
      BY <1>5, <3>1, <3>2, <3>3, <3>4
  <2> QED
    BY <1>0, <2>1, <2>2 DEF StagedInv, StagersOK, StagedUntilApplied, HoldsLock
<1> QED
  BY <1>1, <1>2, <1>3, <1>4, <1>5 DEF RestoreNext, StagingStep

\* A backup that an administrator was told of is staged and whole until it was
\* extracted or a later upload took its place, for any number of requests.
THEOREM PromisesKept == RestoreSpec => []StagedUntilApplied
<1>1. RestoreInit => StagedInv
  <2> SUFFICES ASSUME RestoreInit PROVE StagedInv
    OBVIOUS
  <2>1. RestoreTypeOK /\ \A r \in Stagers : staging[r].stage = "none"
    BY RestoreTypesInit DEF RestoreInit, NoStaging
  <2>2. ~promised.on
    BY DEF RestoreInit, NoPromise
  <2> QED
    BY <2>1, <2>2 DEF StagedInv, StagersOK, StagedUntilApplied, HoldsLock
<1>2. StagedInv /\ [RestoreNext]_restoreVars => StagedInv'
  BY StagedStep
<1>3. StagedInv => StagedUntilApplied
  BY DEF StagedInv
<1> QED
  BY <1>1, <1>2, <1>3, PTL DEF RestoreSpec

-----------------------------------------------------------------------------
(* The panel's data: an upgrade can be rolled back.                          *)

\* The archives newer than one of them.
Newer(set, a) == {b \in set : b.second > a.second}

\* Archives are of this start or of earlier ones, and fewer archives are newer than
\* the one that an upgrade began with than were taken since.
UpgradesOK ==
    /\ IsFiniteSet(upgradeArchives)
    /\ \A a \in upgradeArchives : a.second <= second
    /\ /\ upgrade.on /\ upgrade.first /\ upgrade.taken <= Retention
       /\ <<"upgrade", upgrade.from>> \notin replaced
       => \E a \in upgradeArchives :
            /\ a.data = upgrade.from
            /\ Cardinality(Newer(upgradeArchives, a)) < upgrade.taken

UpgradeInv == RestoreTypeOK /\ UpgradesOK

\* Pruning keeps what fewer than Retention archives are newer than, and makes none newer.
LEMMA PrunedKeeps ==
    ASSUME NEW set, IsFiniteSet(set), PrunedFrom(set), NEW a \in set, NEW n \in 1..Retention,
           Cardinality(Newer(set, a)) < n
    PROVE  /\ IsFiniteSet(upgradeArchives') /\ upgradeArchives' \subseteq set
           /\ a \in upgradeArchives' /\ Cardinality(Newer(upgradeArchives', a)) < n
<1>1. upgradeArchives' \subseteq set /\ set \ Excess(set) \subseteq upgradeArchives'
  BY PrunedSmaller
<1>2. IsFiniteSet(upgradeArchives')
  BY <1>1, FS_Subset
<1>3. IsFiniteSet(Newer(set, a)) /\ Newer(upgradeArchives', a) \subseteq Newer(set, a)
  BY <1>1, FS_Subset DEF Newer
<1>4. Cardinality(Newer(set, a)) \in Nat
  BY <1>3, FS_CardinalityType
<1>5. /\ Cardinality(Newer(upgradeArchives', a)) \in Nat
      /\ Cardinality(Newer(upgradeArchives', a)) <= Cardinality(Newer(set, a))
  BY <1>3, <1>4, FS_Subset, FS_CardinalityType
<1>6. ~(Cardinality(Newer(set, a)) >= Retention)
  BY <1>4, RestoreBounds
<1>7. a \notin Excess(set)
  BY <1>6 DEF Excess, Newer
<1> QED
  BY <1>1, <1>2, <1>4, <1>5, <1>7

\* An archive of this start is one more that is newer than those of earlier ones.
LEMMA PublishedNewest ==
    ASSUME RestoreTypeOK, IsFiniteSet(upgradeArchives),
           \A a \in upgradeArchives : a.second <= second
    PROVE  /\ IsFiniteSet(Published(upgradeArchives))
           /\ \A a \in Published(upgradeArchives) : a.second <= second
           /\ \A a \in upgradeArchives : a.second # second =>
                /\ a \in Published(upgradeArchives)
                /\ \A n \in Nat : Cardinality(Newer(upgradeArchives, a)) < n
                    => Cardinality(Newer(Published(upgradeArchives), a)) < n + 1
           /\ \E a \in Published(upgradeArchives) :
                /\ a.data = data
                /\ Cardinality(Newer(Published(upgradeArchives), a)) < 1
<1> DEFINE new == [second |-> second, data |-> data]
           kept == {a \in upgradeArchives : a.second # second}
<1>1. second \in Nat /\ \A a \in upgradeArchives : a.second \in Nat
  BY DEF RestoreTypeOK, Archived, Seconds
<1>2. Published(upgradeArchives) = kept \cup {new} /\ IsFiniteSet(kept)
  BY FS_Subset DEF Published
<1>3. IsFiniteSet(Published(upgradeArchives))
  BY <1>2, FS_AddElement
<1>4. \A a \in Published(upgradeArchives) : a.second <= second
  BY <1>1, <1>2
<1>5. ASSUME NEW a \in upgradeArchives, a.second # second, NEW n \in Nat,
             Cardinality(Newer(upgradeArchives, a)) < n
      PROVE  Cardinality(Newer(Published(upgradeArchives), a)) < n + 1
  <2>1. Newer(Published(upgradeArchives), a) \subseteq Newer(upgradeArchives, a) \cup {new}
    BY <1>2 DEF Newer
  <2>2. IsFiniteSet(Newer(upgradeArchives, a))
    BY FS_Subset DEF Newer
  <2>3. /\ IsFiniteSet(Newer(upgradeArchives, a) \cup {new})
        /\ Cardinality(Newer(upgradeArchives, a)) \in Nat
        /\ Cardinality(Newer(upgradeArchives, a) \cup {new})
           <= Cardinality(Newer(upgradeArchives, a)) + 1
    <3>1. Cardinality(Newer(upgradeArchives, a)) \in Nat
      BY <2>2, FS_CardinalityType
    <3>2. /\ IsFiniteSet(Newer(upgradeArchives, a) \cup {new})
          /\ \/ Cardinality(Newer(upgradeArchives, a) \cup {new})
                = Cardinality(Newer(upgradeArchives, a)) + 1
             \/ Cardinality(Newer(upgradeArchives, a) \cup {new})
                = Cardinality(Newer(upgradeArchives, a))
      BY <2>2, FS_AddElement
    <3> QED
      BY <3>1, <3>2
  <2>4. /\ Cardinality(Newer(Published(upgradeArchives), a))
           <= Cardinality(Newer(upgradeArchives, a) \cup {new})
        /\ IsFiniteSet(Newer(Published(upgradeArchives), a))
    BY <2>1, <2>3, FS_Subset
  <2>5. /\ Cardinality(Newer(Published(upgradeArchives), a)) \in Nat
        /\ Cardinality(Newer(upgradeArchives, a) \cup {new}) \in Nat
    BY <2>3, <2>4, FS_CardinalityType
  <2> QED
    BY <1>5, <2>3, <2>4, <2>5
<1>6. Newer(Published(upgradeArchives), new) = {}
  <2>1. \A b \in Published(upgradeArchives) : b = new \/ b.second \in Nat
    BY <1>1, <1>2
  <2>2. \A b \in Published(upgradeArchives) : ~(b.second > new.second)
    BY <1>1, <1>4, <2>1
  <2> QED
    BY <2>2 DEF Newer
<1>7. new \in Published(upgradeArchives) /\ new.data = data
  BY <1>2
<1>8. Cardinality(Newer(Published(upgradeArchives), new)) < 1
  BY <1>6, FS_EmptySet
<1>9. \A a \in upgradeArchives : a.second # second => a \in Published(upgradeArchives)
  BY <1>2
<1> QED
  BY <1>3, <1>4, <1>5, <1>7, <1>8, <1>9

\* An archive taken keeps the first one of an upgrade within reach.
LEMMA ArchiveKeeps ==
    ASSUME UpgradeInv, panel.pc = "open", ArchiveTaken,
           upgrade'.on, upgrade'.first, upgrade'.taken <= Retention,
           <<"upgrade", upgrade'.from>> \notin replaced'
    PROVE  \E a \in upgradeArchives' :
            /\ a.data = upgrade'.from
            /\ Cardinality(Newer(upgradeArchives', a)) < upgrade'.taken
<1> DEFINE set == Published(upgradeArchives)
<1>1. /\ IsFiniteSet(set)
      /\ \A a \in upgradeArchives : a.second # second =>
            /\ a \in set
            /\ \A n \in Nat : Cardinality(Newer(upgradeArchives, a)) < n
                => Cardinality(Newer(set, a)) < n + 1
      /\ \E a \in set : a.data = data /\ Cardinality(Newer(set, a)) < 1
  BY PublishedNewest DEF UpgradeInv, UpgradesOK
<1>2. PrunedFrom(set) /\ upgrade' = Noticed(TRUE)
  BY DEF ArchiveTaken
<1>3. CASE upgrade.on
  <2>1. /\ upgrade.taken \in Nat /\ upgrade'.taken = upgrade.taken + 1
        /\ upgrade'.from = upgrade.from /\ upgrade'.first = upgrade.first
    BY <1>2, <1>3 DEF Noticed, UpgradeInv, RestoreTypeOK
  <2>2. upgrade.taken <= Retention /\ upgrade'.taken \in 1..Retention
    BY <2>1, RestoreBounds
  <2>3. PICK a \in upgradeArchives : /\ a.data = upgrade.from
                                     /\ Cardinality(Newer(upgradeArchives, a)) < upgrade.taken
    <3>1. <<"upgrade", upgrade.from>> \notin replaced
      BY <2>1 DEF ArchiveTaken
    <3> QED
      BY <1>3, <2>1, <2>2, <3>1 DEF UpgradeInv, UpgradesOK
  <2>4. a.second # second
    <3>1. a.second = second => <<"upgrade", a.data>> \in Displaced("upgrade", upgradeArchives)
      BY DEF Displaced
    <3> QED
      BY <2>1, <2>3, <3>1 DEF ArchiveTaken
  <2>5. a \in set /\ Cardinality(Newer(set, a)) < upgrade'.taken
    BY <1>1, <2>1, <2>3, <2>4
  <2>6. a \in upgradeArchives' /\ Cardinality(Newer(upgradeArchives', a)) < upgrade'.taken
    BY <1>1, <1>2, <2>2, <2>5, PrunedKeeps
  <2> QED
    BY <2>1, <2>3, <2>6
<1>4. CASE ~upgrade.on
  <2>1. upgrade'.taken = 1 /\ upgrade'.from = data
    BY <1>2, <1>4 DEF Noticed
  <2>2. PICK a \in set : a.data = data /\ Cardinality(Newer(set, a)) < 1
    BY <1>1
  <2>3. 1 \in 1..Retention
    BY RestoreBounds
  <2>4. a \in upgradeArchives' /\ Cardinality(Newer(upgradeArchives', a)) < 1
    BY <1>1, <1>2, <2>2, <2>3, PrunedKeeps
  <2> QED
    BY <2>1, <2>2, <2>4
<1> QED
  BY <1>3, <1>4

LEMMA UpgradeStep ==
    ASSUME UpgradeInv, [RestoreNext]_restoreVars
    PROVE  UpgradeInv'
<1>0. RestoreTypeOK /\ RestoreTypeOK' /\ second \in Nat
  BY RestoreTypesStep DEF UpgradeInv, RestoreTypeOK, Seconds
<1>1. CASE PanelStarts
  <2>1. second' \in {second, second + 1} /\ UNCHANGED <<upgradeArchives, upgrade, replaced>>
    BY <1>1 DEF PanelStarts, archives, restoreHistory
  <2>2. \A a \in upgradeArchives : a.second \in Nat /\ a.second <= second'
    BY <1>0, <2>1 DEF UpgradeInv, UpgradesOK, RestoreTypeOK, Archived, Seconds
  <2> QED
    BY <1>0, <2>1, <2>2 DEF UpgradeInv, UpgradesOK
<1>2. CASE TakesSnapshot
  <2>1. UNCHANGED <<second, upgradeArchives, upgrade>> /\ replaced \subseteq replaced'
    BY <1>2 DEF TakesSnapshot, SnapshotTaken, SnapshotFails
  <2> QED
    BY <1>0, <2>1 DEF UpgradeInv, UpgradesOK
<1>3. CASE Opens
  <2>1. panel.pc = "open" /\ UNCHANGED second
    BY <1>3 DEF Opens
  <2>3. CASE ArchiveTaken
    <3>1. /\ IsFiniteSet(Published(upgradeArchives))
          /\ \A a \in Published(upgradeArchives) : a.second <= second
      BY <1>0, PublishedNewest DEF UpgradeInv, UpgradesOK
    <3>2. upgradeArchives' \subseteq Published(upgradeArchives)
      BY <2>3, PrunedSmaller DEF ArchiveTaken
    <3>3. IsFiniteSet(upgradeArchives') /\ \A a \in upgradeArchives' : a.second <= second'
      BY <2>1, <3>1, <3>2, FS_Subset
    <3>4. /\ upgrade'.on /\ upgrade'.first /\ upgrade'.taken <= Retention
          /\ <<"upgrade", upgrade'.from>> \notin replaced'
          => \E a \in upgradeArchives' :
                /\ a.data = upgrade'.from
                /\ Cardinality(Newer(upgradeArchives', a)) < upgrade'.taken
      BY <2>1, <2>3, ArchiveKeeps
    <3> QED
      BY <1>0, <3>3, <3>4 DEF UpgradeInv, UpgradesOK
  <2>4. CASE ArchiveFails
    <3>1. UNCHANGED <<upgradeArchives, replaced>> /\ upgrade' = Noticed(FALSE)
      BY <2>4 DEF ArchiveFails
    <3>2. ~upgrade'.first \/ UNCHANGED upgrade
      BY <1>0, <3>1 DEF Noticed, RestoreTypeOK
    <3> QED
      BY <1>0, <2>1, <3>1, <3>2 DEF UpgradeInv, UpgradesOK
  <2>5. CASE NoUpgradeDue \/ NewInstall
    <3>1. UNCHANGED <<upgradeArchives, replaced>> /\ (~upgrade'.on \/ UNCHANGED upgrade)
      BY <2>5 DEF NoUpgradeDue, NewInstall, NoUpgrade
    <3> QED
      BY <1>0, <2>1, <3>1 DEF UpgradeInv, UpgradesOK
  <2> QED
    BY <1>3, <2>3, <2>4, <2>5 DEF Opens
<1>4. CASE DailyPrune
  <2>1. PrunedFrom(upgradeArchives) /\ UNCHANGED <<second, upgrade, replaced>>
    BY <1>4 DEF DailyPrune, restoreHistory
  <2>2. upgradeArchives' \subseteq upgradeArchives /\ IsFiniteSet(upgradeArchives')
    BY <2>1, PrunedSmaller, FS_Subset DEF UpgradeInv, UpgradesOK
  <2>3. ASSUME upgrade.on, upgrade.first, upgrade.taken <= Retention,
               <<"upgrade", upgrade.from>> \notin replaced
        PROVE  \E a \in upgradeArchives' :
                /\ a.data = upgrade.from
                /\ Cardinality(Newer(upgradeArchives', a)) < upgrade.taken
    <3>1. PICK a \in upgradeArchives :
              /\ a.data = upgrade.from
              /\ Cardinality(Newer(upgradeArchives, a)) < upgrade.taken
      BY <2>3 DEF UpgradeInv, UpgradesOK
    <3>2. IsFiniteSet(Newer(upgradeArchives, a))
      BY FS_Subset DEF UpgradeInv, UpgradesOK, Newer
    <3>3. upgrade.taken \in 1..Retention
      BY <1>0, <2>3, <3>1, <3>2, FS_CardinalityType, RestoreBounds DEF RestoreTypeOK
    <3>4. IsFiniteSet(upgradeArchives)
      BY DEF UpgradeInv, UpgradesOK
    <3> QED
      BY <2>1, <3>1, <3>3, <3>4, PrunedKeeps
  <2> QED
    BY <1>0, <2>1, <2>2, <2>3 DEF UpgradeInv, UpgradesOK
<1>5. CASE \/ Wipes \/ Extracts \/ RemovesZip \/ MigrationsEnd \/ Marks \/ PanelEnds
           \/ Migrates \/ PanelWrites \/ UNCHANGED restoreVars
           \/ \E r \in Stagers : StagingStep(r)
  <2>1. /\ UNCHANGED <<second, upgradeArchives, replaced>>
        /\ upgrade' = NoUpgrade \/ UNCHANGED upgrade
    BY <1>5
    DEF Wipes, Extracts, RemovesZip, MigrationsEnd, Marks, PanelEnds, Migrates, PanelWrites,
        StagingStep, StagesBackup, ReplacesZip, RenamesZip, CopiesZip, AnnouncesRestore,
        ReleasesLock, ExitsToRestore, PanelGone, restoreVars, archives, restoreHistory
  <2>2. ~NoUpgrade.on
    BY DEF NoUpgrade
  <2> QED
    BY <1>0, <2>1, <2>2 DEF UpgradeInv, UpgradesOK
<1> QED
  BY <1>1, <1>2, <1>3, <1>4, <1>5 DEF RestoreNext

\* While an upgrade is under way, what ./data was before it is in an archive, until
\* Retention archives were taken since or one of the same second replaced it.
THEOREM UpgradesReversible == RestoreSpec => []RollbackKept
<1>1. RestoreInit => UpgradeInv
  <2> SUFFICES ASSUME RestoreInit PROVE UpgradeInv
    OBVIOUS
  <2>1. RestoreTypeOK
    BY RestoreTypesInit
  <2> QED
    BY <2>1, FS_EmptySet DEF RestoreInit, UpgradeInv, UpgradesOK, NoUpgrade
<1>2. UpgradeInv /\ [RestoreNext]_restoreVars => UpgradeInv'
  BY UpgradeStep
<1>3. UpgradeInv => RollbackKept
  BY DEF UpgradeInv, UpgradesOK, RollbackKept
<1> QED
  BY <1>1, <1>2, <1>3, PTL DEF RestoreSpec
=============================================================================
