----------------------------- MODULE UploadStore -----------------------------
(***************************************************************************)
(* The store of archive uploads: backups, plugins and themes                *)
(* (web/upload/chunk.go, lifecycle.go and contention.go).                   *)
(*                                                                          *)
(* Everything is in the file system.  An upload is a directory of           *)
(* Store.Root with a upload.json, its chunks and in the end the archive.    *)
(* One lock is held for the whole of an operation; a caller that finds it   *)
(* taken gets ErrBusy and changes nothing.  So the steps of an operation    *)
(* are only cut by a crash or an error.  The pass at the start removes the  *)
(* scratch files and the empty directories that were left, as far as it can *)
(* remove them.                                                             *)
(* Before it admits an upload the store scans its root: expired directories *)
(* go, and anything it does not recognise refuses the upload.               *)
(*                                                                          *)
(* Every upload declares the same size, so that the quota on bytes and the  *)
(* one on sessions are one number.                                          *)
(***************************************************************************)
EXTENDS Integers, FiniteSets

CONSTANTS
    Archives,     \* upload ids
    NoArchive,    \* the id of an operation on no upload in particular
    ChunkCount,   \* chunks of an archive
    MaxArchives,  \* MaxSessions, MaxTotalSize: 16 sessions, 8 GB in the code
    ArchiveTTL,   \* Store.ttl: 24 hours
    StoreHorizon, \* bound: the clock stops there
    MaxCuts       \* bound: crashes, and errors of the file system

ASSUME NoArchiveIsNone == NoArchive \notin Archives
ASSUME StoreLimits == /\ ChunkCount \in Nat \ {0} /\ MaxArchives \in Nat \ {0}
                      /\ ArchiveTTL \in Nat \ {0} /\ StoreHorizon \in Nat
                      /\ MaxCuts \in Nat

VARIABLES
    storeClock,  \* time.Now
    dirs,        \* the upload directories of Store.Root
    foreign,     \* Store.Root holds the state file of an upload to an agent
    op,          \* the operation that holds Store.mu
    removing,    \* the directory its os.RemoveAll is in, if any
    reconciled,  \* startupPass has run since the last start
    issued,      \* upload ids given out
    cut,         \* history: uploads whose metadata or removal was cut half-way,
                 \* or whose empty directory the pass at the start could not remove
    cuts         \* crashes and errors so far

storeVars == <<storeClock, dirs, foreign, op, removing, reconciled, issued, cut, cuts>>

ArchiveChunks == 1..ChunkCount
Metadata == {"none", "torn", "good"}

\* scratch: scratch files that nobody is writing any more.
Dir == [made : BOOLEAN, meta : Metadata, at : Nat, chunks : SUBSET ArchiveChunks,
        scratch : BOOLEAN, zip : SUBSET ArchiveChunks]
NoDir == [made |-> FALSE, meta |-> "none", at |-> 0, chunks |-> {}, scratch |-> FALSE,
          zip |-> {}]

Kinds == {"none", "init", "chunk", "merge", "complete", "cancel", "cleanup", "startup"}
StoreStages == {"scan", "mkdir", "create", "write", "copy", "replace", "publish",
                "concatenate", "swap", "rename", "finalize", "remove"}
Operations == [kind : Kinds, on : Archives \cup {NoArchive}, chunk : 0..ChunkCount,
               stage : StoreStages]

\* Stages at which the operation has a scratch file of its own in the directory.
Writing == {"copy", "publish", "concatenate", "rename"}

NoOp == [kind |-> "none", on |-> NoArchive, chunk |-> 0, stage |-> "scan"]

StoreInit ==
    /\ storeClock = 0 /\ dirs = [a \in Archives |-> NoDir] /\ foreign = FALSE
    /\ op = NoOp /\ removing = {} /\ reconciled = FALSE /\ issued = {}
    /\ cut = {} /\ cuts = 0

-----------------------------------------------------------------------------
(* The lock and the directories. *)

Unlocked == op = NoOp

\* acquire: a second operation is refused.
Acquire(kind, a, c, stage) ==
    /\ Unlocked
    /\ op' = [kind |-> kind, on |-> a, chunk |-> c, stage |-> stage]

Stage(stage) == op.kind # "none" /\ op.stage = stage /\ removing = {}
Continue(stage) == op' = [op EXCEPT !.stage = stage]
Release == op' = NoOp

\* An entry of a directory changes; without metadata that sets its age.
DirBecomes(a, dir) ==
    dirs' = [dirs EXCEPT ![a] = IF dir.meta = "none" THEN [dir EXCEPT !.at = storeClock]
                                ELSE dir]

\* The age of a directory is its metadata's, else its own.
Expired(a) == dirs[a].made /\ storeClock - dirs[a].at >= ArchiveTTL

\* load: the upload is there, has its metadata and is not too old.
Loads(a) == a \in Archives /\ dirs[a].made /\ dirs[a].meta = "good" /\ ~Expired(a)

\* What scan returns an error for.
Unrecognised ==
    \/ foreign
    \/ \E a \in Archives : dirs[a].made /\ ~Expired(a) /\ dirs[a].meta # "good"

EmptyDir(dir) == dir.meta = "none" /\ dir.chunks = {} /\ dir.zip = {} /\ ~dir.scratch

-----------------------------------------------------------------------------
(* scan, and os.RemoveAll of a directory. *)

\* The entries come in the order of their random names: an expired directory is
\* removed, an unrecognised entry ends the scan.  A directory that expires while
\* the scan runs counts as one the scan comes to later.
ScanRemoves(a) ==
    /\ Stage("scan") /\ Expired(a)
    /\ removing' = {a}
    /\ UNCHANGED <<storeClock, dirs, foreign, op, reconciled, issued, cut, cuts>>

ScanFails ==
    /\ Stage("scan") /\ Unrecognised
    /\ Release
    /\ reconciled' = (reconciled \/ op.kind = "startup")
    /\ UNCHANGED <<storeClock, dirs, foreign, removing, issued, cut, cuts>>

\* admit: the quota counts what the scan found; a mutant lets one too many in.
AdmitsOneMore == Cardinality({a \in Archives : dirs[a].made}) <= MaxArchives
Admits == Cardinality({a \in Archives : dirs[a].made}) < MaxArchives

\* A scan to the end: Init goes on if it is admitted, a cleanup is done.
ScanEnds ==
    /\ Stage("scan") /\ ~Unrecognised /\ \A a \in Archives : ~Expired(a)
    /\ IF op.kind = "init" /\ Admits THEN Continue("mkdir") ELSE Release
    /\ reconciled' = (reconciled \/ op.kind = "startup")
    /\ UNCHANGED <<storeClock, dirs, foreign, removing, issued, cut, cuts>>

\* RemoveAll takes one entry after the other, and then the directory.
RemoveEntry(a) ==
    /\ a \in removing
    /\ \/ dirs[a].meta # "none" /\ DirBecomes(a, [dirs[a] EXCEPT !.meta = "none"])
       \/ \E c \in dirs[a].chunks : DirBecomes(a, [dirs[a] EXCEPT !.chunks = @ \ {c}])
       \/ dirs[a].zip # {} /\ DirBecomes(a, [dirs[a] EXCEPT !.zip = {}])
       \/ dirs[a].scratch /\ DirBecomes(a, [dirs[a] EXCEPT !.scratch = FALSE])
    /\ UNCHANGED <<storeClock, foreign, op, removing, reconciled, issued, cut, cuts>>

\* The removal ends an operation, unless it was one of a scan's.
RemoveDirectory(a) ==
    /\ a \in removing /\ EmptyDir(dirs[a])
    /\ dirs' = [dirs EXCEPT ![a] = NoDir]
    /\ removing' = {}
    /\ IF op.stage = "remove" THEN Release ELSE UNCHANGED op
    /\ cut' = cut \ {a}
    /\ UNCHANGED <<storeClock, foreign, reconciled, issued, cuts>>

\* An entry that cannot be removed: a scan gives up, Complete takes no notice.
RemoveFails(a) ==
    /\ a \in removing /\ cuts < MaxCuts /\ cuts' = cuts + 1
    /\ removing' = {} /\ cut' = cut \cup {a}
    /\ Release
    /\ reconciled' = (reconciled \/ op.kind = "startup")
    /\ UNCHANGED <<storeClock, dirs, foreign, issued>>

-----------------------------------------------------------------------------
(* Init and SaveChunk. *)

InitArchive(a) ==
    /\ a \notin issued /\ issued' = issued \cup {a}
    /\ Acquire("init", a, 0, "scan")
    /\ UNCHANGED <<storeClock, dirs, foreign, removing, reconciled, cut, cuts>>

MakeDirectory ==
    /\ Stage("mkdir")
    /\ dirs' = [dirs EXCEPT ![op.on] = [NoDir EXCEPT !.made = TRUE, !.at = storeClock]]
    /\ Continue("create")
    /\ UNCHANGED <<storeClock, foreign, removing, reconciled, issued, cut, cuts>>

\* os.WriteFile creates the file and then writes it.
CreateMetadata ==
    /\ Stage("create")
    /\ dirs' = [dirs EXCEPT ![op.on].meta = "torn", ![op.on].at = storeClock]
    /\ Continue("write")
    /\ UNCHANGED <<storeClock, foreign, removing, reconciled, issued, cut, cuts>>

WriteMetadata ==
    /\ Stage("write")
    /\ dirs' = [dirs EXCEPT ![op.on].meta = "good", ![op.on].at = storeClock]
    /\ Release
    /\ UNCHANGED <<storeClock, foreign, removing, reconciled, issued, cut, cuts>>

\* An error while the metadata is written: Init removes the directory.
MetadataFails ==
    /\ Stage("create") \/ Stage("write")
    /\ cuts < MaxCuts /\ cuts' = cuts + 1
    /\ Continue("remove") /\ removing' = {op.on}
    /\ UNCHANGED <<storeClock, dirs, foreign, reconciled, issued, cut>>

SaveChunk(a, c) ==
    /\ Loads(a) /\ Acquire("chunk", a, c, "copy")
    /\ UNCHANGED <<storeClock, dirs, foreign, removing, reconciled, issued, cut, cuts>>

\* An operation returns an error, for which the file system may be to blame.  Its
\* deferred os.Remove of the scratch file may fail too, and nobody looks.
GiveUp(errors) ==
    /\ Release
    /\ \E left \in {0, 1} :
         /\ cuts' = cuts + errors + left /\ cuts' <= MaxCuts
         /\ dirs' = [dirs EXCEPT ![op.on].scratch = @ \/ left = 1]
    /\ UNCHANGED <<storeClock, foreign, removing, reconciled, issued, cut>>

\* The request's body was too short, too long or broken off.
CopyRefused == Stage("copy") /\ GiveUp(0)

\* A file cannot be written, read, removed or renamed: the chunk whose old file has
\* gone, or the archive whose predecessor has, is missing then.
StepFails == \E stage \in Writing : Stage(stage) /\ GiveUp(1)

\* The chunk's old file goes first.
ReplaceChunk ==
    /\ Stage("copy")
    /\ DirBecomes(op.on, [dirs[op.on] EXCEPT !.chunks = @ \ {op.chunk}])
    /\ Continue("publish")
    /\ UNCHANGED <<storeClock, foreign, removing, reconciled, issued, cut, cuts>>

PublishChunk ==
    /\ Stage("publish")
    /\ DirBecomes(op.on, [dirs[op.on] EXCEPT !.chunks = @ \cup {op.chunk}])
    /\ Release
    /\ UNCHANGED <<storeClock, foreign, removing, reconciled, issued, cut, cuts>>

-----------------------------------------------------------------------------
(* Merge, Complete and Cancel. *)

MergeArchive(a, kind) ==
    /\ kind \in {"merge", "complete"}
    /\ Loads(a) /\ Acquire(kind, a, 0, "concatenate")
    /\ UNCHANGED <<storeClock, dirs, foreign, removing, reconciled, issued, cut, cuts>>

\* A merge that takes the chunks there are (mutant of ConcatenateChunks).
ConcatenateSome ==
    /\ Stage("concatenate") /\ dirs[op.on].chunks # {}
    /\ DirBecomes(op.on, [dirs[op.on] EXCEPT !.zip = {}])
    /\ Continue("rename")
    /\ UNCHANGED <<storeClock, foreign, removing, reconciled, issued, cut, cuts>>

\* Every chunk is there: the old archive goes first.
ConcatenateChunks ==
    /\ Stage("concatenate") /\ dirs[op.on].chunks = ArchiveChunks
    /\ DirBecomes(op.on, [dirs[op.on] EXCEPT !.zip = {}])
    /\ Continue("rename")
    /\ UNCHANGED <<storeClock, foreign, removing, reconciled, issued, cut, cuts>>

ChunkMissing ==
    /\ Stage("concatenate") /\ dirs[op.on].chunks # ArchiveChunks
    /\ GiveUp(0)

\* The archive appears; Complete hands it to the finalizer.
PublishArchive ==
    /\ Stage("rename")
    /\ DirBecomes(op.on, [dirs[op.on] EXCEPT !.zip = dirs[op.on].chunks])
    /\ IF op.kind = "complete" THEN Continue("finalize") ELSE Release
    /\ UNCHANGED <<storeClock, foreign, removing, reconciled, issued, cut, cuts>>

\* Whatever the finalizer returns, the deferred cancel removes the upload.
FinalizerReturns ==
    /\ Stage("finalize")
    /\ Continue("remove") /\ removing' = {op.on}
    /\ UNCHANGED <<storeClock, dirs, foreign, reconciled, issued, cut, cuts>>

CancelArchive(a) ==
    /\ a \in issued /\ dirs[a].made
    /\ Acquire("cancel", a, 0, "remove") /\ removing' = {a}
    /\ UNCHANGED <<storeClock, dirs, foreign, reconciled, issued, cut, cuts>>

-----------------------------------------------------------------------------
(* Maintenance, crashes and the clock. *)

\* The hourly CleanupExpired.
CleanupExpired ==
    /\ Acquire("cleanup", NoArchive, 0, "scan")
    /\ UNCHANGED <<storeClock, dirs, foreign, removing, reconciled, issued, cut, cuts>>

\* A directory without its scratch files, and what reconcileOrphans makes of it.
Swept(dir) ==
    [dir EXCEPT !.scratch = FALSE,
       !.at = IF dir.scratch /\ dir.meta = "none" THEN storeClock ELSE @]
Reclaimed(dir) == IF EmptyDir(Swept(dir)) THEN NoDir ELSE Swept(dir)

\* startupPass waits for the lock, which requests may take before it.  It goes on
\* after a scratch file, or an empty directory, that cannot be removed.
StartupPass ==
    /\ ~reconciled
    /\ Acquire("startup", NoArchive, 0, "scan")
    /\ \E kept \in SUBSET {a \in Archives : dirs[a].scratch} :
       \E stuck \in SUBSET {a \in Archives \ kept : dirs[a].made /\ EmptyDir(Swept(dirs[a]))} :
         /\ cuts' = cuts + Cardinality(kept \cup stuck) /\ cuts' <= MaxCuts
         /\ cut' = cut \cup stuck
         /\ dirs' = [a \in Archives |-> IF a \in kept THEN dirs[a]
                                       ELSE IF a \in stuck THEN Swept(dirs[a])
                                       ELSE Reclaimed(dirs[a])]
    /\ UNCHANGED <<storeClock, foreign, removing, reconciled, issued>>

\* The process dies between any two steps and starts again.
StoreCrash ==
    /\ cuts < MaxCuts /\ cuts' = cuts + 1
    /\ op' = NoOp /\ removing' = {} /\ reconciled' = FALSE
    /\ cut' = cut \cup removing \cup (IF Stage("write") THEN {op.on} ELSE {})
    /\ dirs' = [a \in Archives |-> IF a = op.on /\ op.stage \in Writing
                                  THEN [dirs[a] EXCEPT !.scratch = TRUE] ELSE dirs[a]]
    /\ UNCHANGED <<storeClock, foreign, issued>>

\* The file manager keeps the state files of its uploads in the same directory.
StateFileChanges ==
    /\ foreign' = ~foreign
    /\ UNCHANGED <<storeClock, dirs, op, removing, reconciled, issued, cut, cuts>>

StoreTick ==
    /\ storeClock < StoreHorizon /\ storeClock' = storeClock + 1
    /\ UNCHANGED <<dirs, foreign, op, removing, reconciled, issued, cut, cuts>>

StoreNext ==
    \/ \E a \in Archives :
         \/ ScanRemoves(a) \/ RemoveEntry(a) \/ RemoveDirectory(a) \/ RemoveFails(a)
         \/ InitArchive(a) \/ CancelArchive(a)
         \/ \E c \in ArchiveChunks : SaveChunk(a, c)
         \/ \E kind \in {"merge", "complete"} : MergeArchive(a, kind)
    \/ ScanFails \/ ScanEnds
    \/ MakeDirectory \/ CreateMetadata \/ WriteMetadata \/ MetadataFails
    \/ CopyRefused \/ ReplaceChunk \/ PublishChunk \/ StepFails
    \/ ConcatenateChunks \/ ChunkMissing \/ PublishArchive \/ FinalizerReturns
    \/ CleanupExpired \/ StartupPass \/ StoreCrash
    \/ StateFileChanges \/ StoreTick

StoreSpec == StoreInit /\ [][StoreNext]_storeVars

-----------------------------------------------------------------------------
(* Properties. *)

\* The state keeps its shape; a directory under removal is the operation's.
StoreTypeOK ==
    /\ storeClock \in Nat /\ op \in Operations
    /\ dirs \in [Archives -> Dir] /\ \A a \in Archives : dirs[a].made \/ dirs[a] = NoDir
    /\ removing \subseteq Archives /\ (Unlocked => removing = {})
    /\ {foreign, reconciled} \subseteq BOOLEAN /\ issued \subseteq Archives /\ cut \subseteq issued
    /\ cuts \in 0..MaxCuts

\* "Complete holds admission through finalization": whatever chunks were sent
\* again, lost to a crash or refused, and whatever ran before, the archive the
\* finalizer reads has every chunk.
FinalizedIsWhole ==
    Stage("finalize") => dirs[op.on].zip = ArchiveChunks

\* Uploads that crashes leave behind count against the quota until they expire:
\* the disk never holds more directories than it allows.
DirectoriesBounded ==
    Cardinality({a \in Archives : dirs[a].made}) <= MaxArchives

\* A crash between the two steps of Init that lifecycle.go:231-237 names does
\* not take uploads down: after startupPass, what stops a scan is an entry of
\* somebody else, or an upload whose removal or metadata was cut half-way, or whose
\* empty directory that pass could not remove.
DownOnlyIfCut ==
    Unlocked /\ reconciled /\ Unrecognised
        => foreign \/ \E a \in cut : dirs[a].made /\ dirs[a].meta # "good"
=============================================================================
