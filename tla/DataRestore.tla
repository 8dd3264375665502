----------------------------- MODULE DataRestore -----------------------------
(***************************************************************************)
(* ./data between the panel's processes: a backup that an administrator     *)
(* uploads is staged as ./data/backup.zip (web/backup/restore.go,           *)
(* web/api/admin/archive_upload.go), and the next start                     *)
(* (database/dbcore/dbcore.go) snapshots ./data, empties it and extracts    *)
(* the backup before it opens the database; a start of another version      *)
(* archives ./data before it migrates it.                                   *)
(*                                                                          *)
(* Every step may fail, and the process may die between any two.  What ./data *)
(* holds is the number of a state, with the version marker in its database; *)
(* state 0 is no state that anyone saved: emptied, torn, mixed or new.      *)
(* Archives are named by the second in which they are made, and a start     *)
(* makes at most one of each kind.                                          *)
(***************************************************************************)
EXTENDS Naturals, FiniteSets

CONSTANTS
    Retention,     \* upgradeArchiveRetention
    Stagers,       \* requests that stage a backup
    MaxVersion,    \* bound: versions of the panel
    MaxStates,     \* bound: states that are ever saved or uploaded
    MaxSeconds,    \* bound: the clock
    MaxTroubles    \* bound: failed steps, deaths before the panel serves, and starts in
                   \* the second of the one before

ASSUME RestoreBounds ==
    /\ Retention \in Nat \ {0} /\ MaxStates \in Nat \ {0}
    /\ {MaxVersion, MaxSeconds, MaxTroubles} \subseteq Nat

PanelVersions == 1..MaxVersion
Seconds == 0..MaxSeconds
Data == [state : 0..MaxStates, marker : 0..MaxVersion]
Archived == [second : Seconds, data : Data]

NoData == [state |-> 0, marker |-> 0]
NoZip == [of |-> NoData, whole |-> FALSE]
NoStaging == [stage |-> "none", of |-> NoData]
NoPromise == [on |-> FALSE, of |-> NoData]
NoUpgrade == [on |-> FALSE, from |-> NoData, first |-> FALSE, taken |-> 0]

VARIABLES
    second,           \* the second of the last start
    running,          \* versionID of the executable
    panel,            \* the process: how far its start is, whether the extraction mixes
                      \* with files that were not removed, and recordVersion
    data,             \* ./data, but for backup.zip and backup/
    zip,              \* ./data/backup.zip, and whether it is whole
    staging,          \* [Stagers -> record]: the calls of finalizeBackupUpload
    snapshots,        \* ./data/backup/pre-restore-<second>.zip
    upgradeArchives,  \* ./data/backup/upgrade-<second>.zip
    made,             \* number of states
    replaced,         \* history: what was in archives that a later one replaced
    wiped,            \* history: what restores began to delete
    promised,         \* history: the backup that an administrator was told will be applied
    upgrade,          \* history: what ./data was before the upgrade under way, whether it
                      \* was archived then, and the archives taken since
    troubles

archives == <<snapshots, upgradeArchives>>
restoreHistory == <<replaced, wiped, promised, upgrade>>
restoreVars == <<second, running, panel, data, zip, staging, archives, made,
                 restoreHistory, troubles>>

RestoreInit ==
    /\ second = 0 /\ running \in PanelVersions
    /\ panel = [pc |-> "down", mixes |-> FALSE, records |-> FALSE]
    /\ \E v \in 0..MaxVersion : data = [state |-> 1, marker |-> v]
    /\ zip = NoZip /\ staging = [r \in Stagers |-> NoStaging]
    /\ snapshots = {} /\ upgradeArchives = {}
    /\ made = 1 /\ replaced = {} /\ wiped = {} /\ promised = NoPromise /\ upgrade = NoUpgrade
    /\ troubles = 0

Trouble == troubles < MaxTroubles /\ troubles' = troubles + 1
NoTrouble == UNCHANGED troubles

StartGoes(pc) == panel' = [panel EXCEPT !.pc = pc]

\* A new state, of a panel that writes or a backup made elsewhere.
Fresh(n) == made < MaxStates /\ n = made + 1 /\ made' = n

-----------------------------------------------------------------------------
(* A start: the restore. *)

\* The supervisor starts the panel, after an update perhaps, and perhaps in the second
\* of the start before.
PanelStarts ==
    /\ panel.pc = "down"
    /\ second' \in {second, second + 1} \cap Seconds
    /\ IF second' = second THEN Trouble ELSE NoTrouble
    /\ running' \in PanelVersions
    /\ panel' = [pc |-> IF zip # NoZip THEN "snapshot" ELSE "open",
                 mixes |-> FALSE, records |-> FALSE]
    /\ UNCHANGED <<data, zip, staging, archives, made, restoreHistory>>

\* zipDirectoryExcluding renames a whole archive to its name; an archive of the
\* same second is replaced.
Published(set) ==
    {a \in set : a.second # second} \cup {[second |-> second, data |-> data]}
Displaced(purpose, set) ==
    {<<purpose, a.data>> : a \in {b \in set : b.second = second}}

SnapshotTaken ==
    /\ snapshots' = Published(snapshots)
    /\ replaced' = replaced \cup Displaced("restore", snapshots)
    /\ NoTrouble
SnapshotFails == Trouble /\ UNCHANGED <<snapshots, replaced>>

\* Mutant: a snapshot that failed is only logged.
SnapshotsOrNot ==
    /\ panel.pc = "snapshot"
    /\ SnapshotTaken \/ SnapshotFails
    /\ StartGoes("wipe")
    /\ UNCHANGED <<second, running, data, zip, staging, upgradeArchives, made, wiped,
                   promised, upgrade>>

\* Without a snapshot there is no restore.
TakesSnapshot ==
    /\ panel.pc = "snapshot"
    /\ \/ SnapshotTaken /\ StartGoes("wipe")
       \/ SnapshotFails /\ StartGoes("open")
    /\ UNCHANGED <<second, running, data, zip, staging, upgradeArchives, made, wiped,
                   promised, upgrade>>

\* removeAllInDirExcept stops at the first file that it cannot remove, and the
\* restore goes on.
Wipes ==
    /\ panel.pc = "wipe"
    /\ \E mixes \in BOOLEAN :
        /\ panel' = [panel EXCEPT !.pc = "extract", !.mixes = mixes]
        /\ IF mixes THEN Trouble ELSE NoTrouble
    /\ wiped' = wiped \cup {data}
    /\ data' = NoData /\ upgrade' = NoUpgrade
    /\ UNCHANGED <<second, running, zip, staging, archives, made, replaced, promised>>

Extracted ==
    /\ zip.whole
    /\ data' = IF panel.mixes THEN NoData ELSE zip.of
    /\ promised' = IF promised.of = zip.of THEN NoPromise ELSE promised
    /\ StartGoes("remove") /\ NoTrouble

ExtractionFails == (IF zip.whole THEN Trouble ELSE NoTrouble) /\ UNCHANGED <<data, promised>>

\* Mutant: the backup is removed although it was not extracted.
ExtractsOnce ==
    /\ panel.pc = "extract"
    /\ Extracted \/ (ExtractionFails /\ StartGoes("remove"))
    /\ UNCHANGED <<second, running, zip, staging, archives, made, replaced, wiped, upgrade>>

\* A backup that cannot be extracted stays for the next start, and this one goes on.
Extracts ==
    /\ panel.pc = "extract"
    /\ Extracted \/ (ExtractionFails /\ StartGoes("open"))
    /\ UNCHANGED <<second, running, zip, staging, archives, made, replaced, wiped, upgrade>>

RemovesZip ==
    /\ panel.pc = "remove"
    /\ \/ zip' = NoZip /\ NoTrouble
       \/ Trouble /\ UNCHANGED zip
    /\ StartGoes("open")
    /\ UNCHANGED <<second, running, data, staging, archives, made, restoreHistory>>

-----------------------------------------------------------------------------
(* A start: the upgrade. *)

\* Mutant: one archive less is kept.
ExcessEarly(set) ==
    {a \in set : Cardinality({b \in set : b.second > a.second}) >= Retention - 1}

\* pruneUpgradeArchives: what is older than the newest of them.
Excess(set) ==
    {a \in set : Cardinality({b \in set : b.second > a.second}) >= Retention}

\* Some of them may withstand.
PrunedFrom(set) ==
    \E left \in SUBSET Excess(set) :
        /\ upgradeArchives' = (set \ Excess(set)) \cup left
        /\ IF left = {} THEN NoTrouble ELSE Trouble

UpgradeDue == data.marker # running

\* The upgrade goes on that an earlier start began.
Noticed(success) ==
    IF upgrade.on
    THEN [upgrade EXCEPT !.taken = IF success THEN @ + 1 ELSE @]
    ELSE [on |-> TRUE, from |-> data, first |-> success, taken |-> IF success THEN 1 ELSE 0]

\* backupOnVersionUpgrade, once the database is open; its result is recordVersion.
NoUpgradeDue ==
    /\ ~UpgradeDue
    /\ upgrade' = NoUpgrade /\ NoTrouble
    /\ panel' = [panel EXCEPT !.pc = "migrate"]
    /\ UNCHANGED <<upgradeArchives, replaced>>

\* There was no database.
NewInstall ==
    /\ data = NoData
    /\ panel' = [panel EXCEPT !.pc = "migrate", !.records = TRUE]
    /\ NoTrouble /\ UNCHANGED <<upgradeArchives, replaced, upgrade>>

ArchiveTaken ==
    /\ UpgradeDue
    /\ PrunedFrom(Published(upgradeArchives))
    /\ replaced' = replaced \cup Displaced("upgrade", upgradeArchives)
    /\ panel' = [panel EXCEPT !.pc = "migrate", !.records = TRUE]
    /\ upgrade' = Noticed(TRUE)

ArchiveFails ==
    /\ UpgradeDue /\ Trouble
    /\ panel' = [panel EXCEPT !.pc = "migrate"]
    /\ upgrade' = Noticed(FALSE)
    /\ UNCHANGED <<upgradeArchives, replaced>>

Opens ==
    /\ panel.pc = "open"
    /\ NoUpgradeDue \/ NewInstall \/ ArchiveTaken \/ ArchiveFails
    /\ UNCHANGED <<second, running, data, zip, staging, snapshots, made, wiped, promised>>

\* migrations.Run: steps that commit on their own, for a database of another version.
Migrates ==
    /\ panel.pc = "migrate" /\ UpgradeDue
    /\ \E n \in 1..MaxStates : Fresh(n) /\ data' = [data EXCEPT !.state = n]
    /\ UNCHANGED <<second, running, panel, zip, staging, archives, restoreHistory, troubles>>

MigrationsEnd ==
    /\ panel.pc = "migrate" /\ StartGoes("mark")
    /\ UNCHANGED <<second, running, data, zip, staging, archives, made, restoreHistory,
                   troubles>>

\* writeVersionMarker.
Marks ==
    /\ panel.pc = "mark" /\ StartGoes("serve")
    /\ \/ /\ panel.records /\ data' = [data EXCEPT !.marker = running]
          /\ upgrade' = NoUpgrade /\ NoTrouble
       \/ /\ IF panel.records THEN Trouble ELSE NoTrouble
          /\ UNCHANGED <<data, upgrade>>
    /\ UNCHANGED <<second, running, zip, staging, archives, made, replaced, wiped, promised>>

-----------------------------------------------------------------------------
(* The panel serves. *)

PanelWrites ==
    /\ panel.pc = "serve"
    /\ \E n \in 1..MaxStates : Fresh(n) /\ data' = [data EXCEPT !.state = n]
    /\ UNCHANGED <<second, running, panel, zip, staging, archives, restoreHistory, troubles>>

\* RunUpgradeArchivePrune, every day.
DailyPrune ==
    /\ panel.pc = "serve" /\ Excess(upgradeArchives) # {}
    /\ PrunedFrom(upgradeArchives)
    /\ UNCHANGED <<second, running, panel, data, zip, staging, snapshots, made,
                   restoreHistory>>

\* The process ends: it is stopped, a migration fails, or it dies.
PanelGone ==
    /\ StartGoes("down")
    /\ staging' = [r \in Stagers |-> NoStaging]
    /\ UNCHANGED <<second, running, data, zip, archives, made, restoreHistory>>

PanelEnds ==
    /\ panel.pc # "down"
    /\ IF panel.pc = "serve" THEN NoTrouble ELSE Trouble
    /\ PanelGone

\* restoreMutex, from AcquireRestoreLock until just before the exit.
HoldsLock(r) == staging[r].stage \in {"save", "replace", "copy", "saved", "told"}
LockHeld == \E r \in Stagers : HoldsLock(r)

\* A request was answered, and nothing else is staged until its lock is released.
Told == \E r \in Stagers : staging[r].stage = "told"

StagerGoes(r, stage) == staging' = [staging EXCEPT ![r].stage = stage]
StagerReturns(r) == staging' = [staging EXCEPT ![r] = NoStaging]

\* SaveUploadedBackup: a file beside backup.zip, and its validation.
StagesBackup(r) ==
    /\ panel.pc = "serve" /\ staging[r].stage = "none" /\ ~LockHeld
    /\ \E n \in 1..MaxStates, v \in 0..MaxVersion :
        /\ Fresh(n)
        /\ staging' = [staging EXCEPT ![r] = [stage |-> "save",
                                              of |-> [state |-> n, marker |-> v]]]
    /\ UNCHANGED <<second, running, panel, data, zip, archives, restoreHistory, troubles>>

\* The backup staged before gives way, unless the new one is refused.
ReplacesZip(r) ==
    /\ staging[r].stage = "save"
    /\ \/ /\ StagerGoes(r, "replace") /\ NoTrouble
          /\ zip' = NoZip
          /\ promised' = IF Told THEN promised ELSE NoPromise
       \/ Trouble /\ StagerReturns(r) /\ UNCHANGED <<zip, promised>>
    /\ UNCHANGED <<second, running, panel, data, archives, made, replaced, wiped, upgrade>>

\* A rename, or when that fails a copy.
RenamesZip(r) ==
    /\ staging[r].stage = "replace"
    /\ \/ /\ zip' = [of |-> staging[r].of, whole |-> TRUE]
          /\ StagerGoes(r, "saved") /\ NoTrouble
       \/ /\ Trouble /\ zip' = [of |-> staging[r].of, whole |-> FALSE]
          /\ StagerGoes(r, "copy")
    /\ UNCHANGED <<second, running, panel, data, archives, made, restoreHistory>>

CopiesZip(r) ==
    /\ staging[r].stage = "copy"
    /\ \/ zip' = [zip EXCEPT !.whole = TRUE] /\ StagerGoes(r, "saved") /\ NoTrouble
       \/ Trouble /\ StagerReturns(r) /\ UNCHANGED zip
    /\ UNCHANGED <<second, running, panel, data, archives, made, restoreHistory>>

\* The administrator is told, unless the upload cannot be closed.
AnnouncesRestore(r) ==
    /\ staging[r].stage = "saved"
    /\ \/ /\ StagerGoes(r, "told") /\ NoTrouble
          /\ promised' = [on |-> TRUE, of |-> staging[r].of]
       \/ Trouble /\ StagerReturns(r) /\ UNCHANGED promised
    /\ UNCHANGED <<second, running, panel, data, zip, archives, made, replaced, wiped,
                   upgrade>>

\* Two seconds later the lock is released, and then the process exits.
ReleasesLock(r) ==
    /\ staging[r].stage = "told" /\ StagerGoes(r, "exit")
    /\ UNCHANGED <<second, running, panel, data, zip, archives, made, restoreHistory,
                   troubles>>

ExitsToRestore(r) ==
    /\ staging[r].stage = "exit"
    /\ PanelGone /\ NoTrouble

StagingStep(r) ==
    StagesBackup(r) \/ ReplacesZip(r) \/ RenamesZip(r) \/ CopiesZip(r)
    \/ AnnouncesRestore(r) \/ ReleasesLock(r) \/ ExitsToRestore(r)

-----------------------------------------------------------------------------
RestoreNext ==
    \/ PanelStarts \/ TakesSnapshot \/ Wipes \/ Extracts \/ RemovesZip
    \/ Opens \/ Migrates \/ MigrationsEnd \/ Marks
    \/ PanelWrites \/ DailyPrune \/ PanelEnds
    \/ \E r \in Stagers : StagingStep(r)

RestoreSpec == RestoreInit /\ [][RestoreNext]_restoreVars

-----------------------------------------------------------------------------
PanelRecord == [pc : {"down", "snapshot", "wipe", "extract", "remove", "open", "migrate",
                      "mark", "serve"},
                mixes : BOOLEAN, records : BOOLEAN]
StagingRecord == [stage : {"none", "save", "replace", "copy", "saved", "told",
                           "exit"},
                  of : Data]

\* Every variable keeps its shape.
RestoreTypeOK ==
    /\ second \in Seconds /\ running \in PanelVersions
    /\ panel \in PanelRecord /\ data \in Data
    /\ zip \in [of : Data, whole : BOOLEAN]
    /\ staging \in [Stagers -> StagingRecord]
    /\ snapshots \subseteq Archived /\ upgradeArchives \subseteq Archived
    /\ made \in 0..MaxStates /\ wiped \subseteq Data
    /\ replaced \subseteq {"restore", "upgrade"} \X Data
    /\ promised \in [on : BOOLEAN, of : Data]
    /\ upgrade \in [on : BOOLEAN, from : Data, first : BOOLEAN, taken : Nat]
    /\ troubles \in 0..MaxTroubles

\* What a restore began to delete is whole in an archive, however often the restore
\* failed, died and was begun again, but for what the archive of a start in the same
\* second replaced (the comment of doInitialize: no data is deleted without a copy).
WipedIsArchived ==
    \A d \in wiped : <<"restore", d>> \notin replaced => \E a \in snapshots : a.data = d

\* A backup that an administrator was told will be applied stays staged, and whole,
\* until it was extracted or another is uploaded once its lock is released (the
\* comments of RestoreLock and doInitialize).
StagedUntilApplied == promised.on => zip = [of |-> promised.of, whole |-> TRUE]

\* While an upgrade has not succeeded, what ./data was before it can be brought back,
\* unless that could not be archived, Retention starts have archived since, or one
\* did in the same second (backupOnVersionUpgrade, pruneUpgradeArchives).
RollbackKept ==
    /\ upgrade.on /\ upgrade.first /\ upgrade.taken <= Retention
    /\ <<"upgrade", upgrade.from>> \notin replaced
    => \E a \in upgradeArchives : a.data = upgrade.from
=============================================================================
