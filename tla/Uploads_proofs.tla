---------------------------- MODULE Uploads_proofs ----------------------------
(***************************************************************************)
(* Uploads, for every value of the constants.  The first half is about the  *)
(* store of archive uploads: what a crash may leave behind, what the        *)
(* finalizer reads and how many directories the disk holds.  The second is  *)
(* about uploads to an agent: slots are accounted for, what appears at a    *)
(* target is whole, and a browser is told of completion only after it       *)
(* appeared.                                                                *)
(***************************************************************************)
EXTENDS UploadStore, RemoteUpload, FiniteSetTheorems, TLAPS

-----------------------------------------------------------------------------
(* The store: the inductive invariant. *)

MadeDirs == {a \in Archives : dirs[a].made}

CountersOK ==
    /\ storeClock \in Nat /\ cuts \in 0..MaxCuts
    /\ foreign \in BOOLEAN /\ reconciled \in BOOLEAN
    /\ issued \subseteq Archives /\ cut \subseteq issued

\* An upload has its directory after its id was given out.
DirsOK ==
    /\ dirs \in [Archives -> Dir]
    /\ \A a \in Archives : IF dirs[a].made THEN a \in issued ELSE dirs[a] = NoDir

\* Which operation comes to which stage, and on which upload.
HolderOK ==
    /\ op \in Operations
    /\ op.kind = "none" => op = NoOp
    /\ op.kind \in {"cleanup", "startup"} => op.stage = "scan"
    /\ op.kind = "init" \/ op.stage # "scan" => op.on \in issued
    /\ op.stage \in {"mkdir", "create", "write"} => op.kind = "init"
    /\ op.stage \in {"copy", "publish"} => op.chunk \in ArchiveChunks

\* What the stage of the operation says of its directory.
StageOK ==
    /\ op.kind = "init" /\ op.stage \in {"scan", "mkdir"} => dirs[op.on] = NoDir
    /\ op.stage = "create" => dirs[op.on].made /\ EmptyDir(dirs[op.on])
    /\ op.stage \in Writing \cup {"write", "finalize"} => dirs[op.on].made
    /\ op.stage \in Writing => dirs[op.on].meta = "good"
    /\ op.stage = "rename" => dirs[op.on].chunks = ArchiveChunks
    /\ op.stage = "finalize" => dirs[op.on].zip = ArchiveChunks

\* One directory at a time is removed, by a scan or as the end of an operation.
RemovalOK ==
    /\ removing \subseteq Archives
    /\ \A a \in removing : removing = {a} /\ dirs[a].made
    /\ removing # {} => op.kind # "none" /\ op.stage \in {"scan", "remove"}
    /\ op.stage = "remove" => removing = {op.on}

\* The quota is counted under the lock: it still holds when the directory is made.
QuotaOK ==
    /\ IsFiniteSet(MadeDirs)
    /\ Cardinality(MadeDirs) <= MaxArchives
    /\ op.stage = "mkdir" => Cardinality(MadeDirs) < MaxArchives

\* What a crash leaves before the pass at the start has looked.
Unswept == ~reconciled /\ op.kind # "startup"

\* A directory without its metadata is about to get it, or about to go, or a crash or
\* an error left it: half-written, half-removed, or empty.
TornOK ==
    \A a \in Archives : dirs[a].made /\ dirs[a].meta # "good" =>
        \/ a \in cut \cup removing
        \/ op.stage \in {"create", "write"} /\ op.on = a
        \/ Unswept /\ EmptyDir(dirs[a])

StoreInv == /\ CountersOK /\ DirsOK /\ HolderOK /\ StageOK /\ RemovalOK /\ QuotaOK
            /\ TornOK

-----------------------------------------------------------------------------
(* Lemmas about the operators of the store. *)

\* The empty directory is one, and an operation that is none.
LEMMA Nothing == /\ NoDir \in Dir /\ ~NoDir.made /\ EmptyDir(NoDir)
                 /\ NoOp \in Operations
<1>1. NoDir \in Dir /\ ~NoDir.made /\ EmptyDir(NoDir)
  BY DEF NoDir, Dir, Metadata, EmptyDir
<1>2. NoOp \in Operations
  BY StoreLimits DEF NoOp, Operations, Kinds, StoreStages
<1> QED
  BY <1>1, <1>2

\* Continue changes the stage and nothing else.
LEMMA Continues ==
    ASSUME op \in Operations, NEW s \in StoreStages, Continue(s)
    PROVE  /\ op' \in Operations /\ op'.stage = s
           /\ op'.kind = op.kind /\ op'.on = op.on /\ op'.chunk = op.chunk
BY DEF Operations, Continue

\* An operation that is released holds nothing.
LEMMA Releases ==
    ASSUME Release
    PROVE  /\ op' \in Operations /\ op' = NoOp /\ op'.stage = "scan" /\ op'.kind = "none"
           /\ op'.on = NoArchive
BY Nothing DEF Release, NoOp

\* An operation that acquires the lock is the one given, and nothing was removed.
LEMMA Acquires ==
    ASSUME StoreInv, NEW k \in Kinds, NEW a \in Archives \cup {NoArchive},
           NEW c \in 0..ChunkCount, NEW s \in StoreStages, Acquire(k, a, c, s)
    PROVE  /\ op' \in Operations /\ op'.kind = k /\ op'.on = a /\ op'.chunk = c
           /\ op'.stage = s
           /\ op.kind = "none" /\ op.stage = "scan" /\ op.on = NoArchive /\ removing = {}
<1>1. op' = [kind |-> k, on |-> a, chunk |-> c, stage |-> s]
  BY DEF Acquire
<1>2. op = NoOp
  BY DEF Acquire, Unlocked
<1> QED
  BY <1>1, <1>2 DEF Operations, NoOp, StoreInv, RemovalOK

\* An entry that changes leaves the directory made and every other alone.
LEMMA Becomes ==
    ASSUME StoreInv, NEW a \in Archives, dirs[a].made, NEW d \in Dir, d.made, DirBecomes(a, d)
    PROVE  /\ dirs' \in [Archives -> Dir]
           /\ \A b \in Archives \ {a} : dirs'[b] = dirs[b]
           /\ dirs'[a].made /\ dirs'[a].meta = d.meta /\ dirs'[a].chunks = d.chunks
           /\ dirs'[a].scratch = d.scratch /\ dirs'[a].zip = d.zip
<1> DEFINE e == IF d.meta = "none" THEN [d EXCEPT !.at = storeClock] ELSE d
<1>1. /\ e \in Dir /\ e.made /\ e.meta = d.meta /\ e.chunks = d.chunks
      /\ e.scratch = d.scratch /\ e.zip = d.zip
  BY DEF StoreInv, CountersOK, Dir
<1>2. dirs' = [dirs EXCEPT ![a] = e]
  BY DEF DirBecomes
<1> HIDE DEF e
<1>3. dirs \in [Archives -> Dir]
  BY DEF StoreInv, DirsOK
<1> QED
  BY <1>1, <1>2, <1>3

\* The quota is kept by a step that makes no directory.
LEMMA QuotaKept ==
    ASSUME StoreInv, \A a \in Archives : dirs'[a].made => dirs[a].made,
           op'.stage = "mkdir" => op.stage = "mkdir"
    PROVE  QuotaOK'
<1> DEFINE now == MadeDirs
           then == MadeDirs'
<1>1. then \in SUBSET now
  BY DEF MadeDirs
<1>2. IsFiniteSet(now) /\ Cardinality(now) <= MaxArchives
      /\ (op.stage = "mkdir" => Cardinality(now) < MaxArchives)
  BY DEF StoreInv, QuotaOK
<1>3. IsFiniteSet(then) /\ Cardinality(then) <= Cardinality(now)
  BY <1>1, <1>2, FS_Subset
<1>4. Cardinality(now) \in Nat /\ Cardinality(then) \in Nat
  BY <1>2, <1>3, FS_CardinalityType
<1> HIDE DEF now, then
<1>5. /\ Cardinality(then) <= MaxArchives
      /\ (op'.stage = "mkdir" => Cardinality(then) < MaxArchives)
  BY <1>2, <1>3, <1>4, StoreLimits
<1> QED
  BY <1>3, <1>5 DEF QuotaOK, now, then

\* An operation past its scan holds an upload that was given out.
LEMMA AtStage ==
    ASSUME StoreInv, NEW s \in StoreStages \ {"scan"}, Stage(s)
    PROVE  /\ op \in Operations /\ op.kind # "none" /\ op.stage = s /\ removing = {}
           /\ op.on \in issued /\ op.on \in Archives
BY DEF StoreInv, HolderOK, CountersOK, Stage

\* What a step on the directory of its operation keeps, whatever it writes there.
LEMMA OwnDirectory ==
    ASSUME StoreInv, NEW a \in Archives, dirs[a].made, removing = {},
           op'.stage \notin {"mkdir", "remove"},
           UNCHANGED <<storeClock, foreign, removing, reconciled, issued, cut, cuts>>,
           dirs' \in [Archives -> Dir], dirs'[a].made,
           \A b \in Archives \ {a} : dirs'[b] = dirs[b]
    PROVE  CountersOK' /\ DirsOK' /\ RemovalOK' /\ QuotaOK'
<1>1. CountersOK'
  BY DEF StoreInv, CountersOK
<1>2. DirsOK'
  BY DEF StoreInv, DirsOK
<1>3. RemovalOK'
  BY DEF RemovalOK
<1>4. QuotaOK'
  <2>1. \A b \in Archives : dirs'[b].made => dirs[b].made
    OBVIOUS
  <2> QED
    BY <2>1, QuotaKept
<1> QED
  BY <1>1, <1>2, <1>3, <1>4

-----------------------------------------------------------------------------
(* The lock, the clock and the scan. *)

\* Time passes, and the file manager's state files come and go.
LEMMA TicksKeep ==
    ASSUME StoreInv, StoreTick \/ StateFileChanges
    PROVE  StoreInv'
<1>1. storeClock' \in Nat /\ foreign' \in BOOLEAN
  <2>1. storeClock \in Nat /\ foreign \in BOOLEAN
    BY DEF StoreInv, CountersOK
  <2>2. storeClock' = storeClock \/ storeClock' = storeClock + 1
    BY DEF StoreTick, StateFileChanges
  <2>3. foreign' = foreign \/ foreign' = ~foreign
    BY DEF StoreTick, StateFileChanges
  <2>4. storeClock' \in Nat
    BY <2>1, <2>2
  <2>5. foreign' \in BOOLEAN
    BY <2>1, <2>3, Zenon
  <2> QED
    BY <2>4, <2>5
<1>2. UNCHANGED <<dirs, op, removing, reconciled, issued, cut, cuts>>
  BY DEF StoreTick, StateFileChanges
<1>3. CountersOK'
  BY <1>1, <1>2 DEF StoreInv, CountersOK
<1>4. DirsOK' /\ HolderOK' /\ StageOK' /\ RemovalOK' /\ TornOK'
  BY <1>2 DEF StoreInv, DirsOK, HolderOK, StageOK, RemovalOK, TornOK, Unswept, EmptyDir
<1>5. QuotaOK'
  BY <1>2, QuotaKept
<1> QED
  BY <1>3, <1>4, <1>5 DEF StoreInv

LEMMA ScanRemovesKeeps ==
    ASSUME StoreInv, NEW a \in Archives, ScanRemoves(a)
    PROVE  StoreInv'
<1>1. /\ op.kind # "none" /\ op.stage = "scan" /\ removing = {} /\ removing' = {a}
      /\ dirs[a].made
  BY DEF ScanRemoves, Stage, Expired
<1>2. UNCHANGED <<storeClock, dirs, foreign, op, reconciled, issued, cut, cuts>>
  BY DEF ScanRemoves
<1>3. CountersOK' /\ DirsOK' /\ HolderOK' /\ StageOK'
  BY <1>2 DEF StoreInv, CountersOK, DirsOK, HolderOK, StageOK, Unswept, EmptyDir
<1>4. RemovalOK' /\ TornOK'
  BY <1>1, <1>2 DEF StoreInv, RemovalOK, TornOK, Unswept, EmptyDir
<1>5. QuotaOK'
  BY <1>2, QuotaKept
<1> QED
  BY <1>3, <1>4, <1>5 DEF StoreInv

\* A scan that ends or gives up; the startup's is the first since the start.
LEMMA ScanOverKeeps ==
    ASSUME StoreInv, ScanFails \/ ScanEnds
    PROVE  StoreInv'
<1>1. /\ op \in Operations /\ op.kind # "none" /\ op.stage = "scan" /\ removing = {}
      /\ reconciled' = (reconciled \/ op.kind = "startup")
  BY DEF ScanFails, ScanEnds, Stage, StoreInv, HolderOK
<1>2. UNCHANGED <<storeClock, dirs, foreign, removing, issued, cut, cuts>>
  BY DEF ScanFails, ScanEnds
<1>3. \/ Release
      \/ op.kind = "init" /\ Admits /\ Continue("mkdir")
  BY DEF ScanFails, ScanEnds
<1>4. CountersOK' /\ DirsOK'
  <2>1. reconciled' \in BOOLEAN
    BY <1>1, Zenon DEF StoreInv, CountersOK
  <2>2. CountersOK'
    BY <1>2, <2>1 DEF StoreInv, CountersOK
  <2>3. DirsOK'
    BY <1>2 DEF StoreInv, DirsOK
  <2> QED
    BY <2>2, <2>3
<1>5. CASE Release
  <2>1. /\ op' \in Operations /\ op' = NoOp /\ op'.stage = "scan" /\ op'.kind = "none"
        /\ op'.on = NoArchive
    BY <1>5, Releases
  <2>2. HolderOK' /\ StageOK' /\ RemovalOK'
    BY <2>1, <1>1, <1>2 DEF HolderOK, StageOK, RemovalOK, Writing
  <2>3. TornOK'
    BY <2>1, <1>1, <1>2 DEF StoreInv, TornOK, Unswept, Writing, EmptyDir
  <2>4. QuotaOK'
    BY <2>1, <1>2, QuotaKept
  <2> QED
    BY <1>4, <2>2, <2>3, <2>4 DEF StoreInv
<1>6. CASE op.kind = "init" /\ Admits /\ Continue("mkdir")
  <2>1. /\ op' \in Operations /\ op'.stage = "mkdir"
        /\ op'.kind = op.kind /\ op'.on = op.on /\ op'.chunk = op.chunk
    BY <1>1, <1>6, Continues DEF StoreStages
  <2>2. HolderOK' /\ StageOK' /\ RemovalOK'
    BY <2>1, <1>1, <1>2, <1>6 DEF StoreInv, HolderOK, StageOK, RemovalOK, Writing
  <2>3. TornOK'
    BY <2>1, <1>1, <1>2, <1>6 DEF StoreInv, TornOK, Unswept, Writing, EmptyDir
  <2>4. QuotaOK'
    BY <1>2, <1>6 DEF StoreInv, QuotaOK, Admits, MadeDirs
  <2> QED
    BY <1>4, <2>2, <2>3, <2>4 DEF StoreInv
<1> QED
  BY <1>3, <1>5, <1>6

-----------------------------------------------------------------------------
(* os.RemoveAll. *)

LEMMA RemoveEntryKeeps ==
    ASSUME StoreInv, NEW a \in Archives, RemoveEntry(a)
    PROVE  StoreInv'
<1>1. /\ a \in removing /\ removing = {a} /\ dirs[a].made /\ dirs[a] \in Dir
      /\ op.kind # "none" /\ op.stage \in {"scan", "remove"}
      /\ op.stage = "remove" => op.on = a
  BY DEF RemoveEntry, StoreInv, RemovalOK, DirsOK
<1>2. UNCHANGED <<storeClock, foreign, op, removing, reconciled, issued, cut, cuts>>
  BY DEF RemoveEntry
<1>3. PICK d \in Dir : d.made /\ DirBecomes(a, d)
  <2>1. \/ DirBecomes(a, [dirs[a] EXCEPT !.meta = "none"])
        \/ \E c \in dirs[a].chunks :
             DirBecomes(a, [dirs[a] EXCEPT !.chunks = dirs[a].chunks \ {c}])
        \/ DirBecomes(a, [dirs[a] EXCEPT !.zip = {}])
        \/ DirBecomes(a, [dirs[a] EXCEPT !.scratch = FALSE])
    BY DEF RemoveEntry
  <2> QED
    BY <1>1, <2>1 DEF Dir, Metadata
<1>4. /\ dirs' \in [Archives -> Dir] /\ dirs'[a].made
      /\ \A b \in Archives \ {a} : dirs'[b] = dirs[b]
  BY <1>1, <1>3, Becomes
<1>5. CountersOK' /\ DirsOK' /\ HolderOK'
  BY <1>1, <1>2, <1>4 DEF StoreInv, CountersOK, DirsOK, HolderOK
<1>6. StageOK'
  <2>1. op.kind = "init" /\ op.stage = "scan" => op.on # a
    BY <1>1, Nothing DEF StoreInv, StageOK
  <2>2. op.kind = "init" => op.on \in Archives
    BY DEF StoreInv, HolderOK, CountersOK
  <2> QED
    BY <1>1, <1>2, <1>4, <2>1, <2>2 DEF StoreInv, StageOK, Writing
<1>7. RemovalOK'
  BY <1>1, <1>2, <1>4 DEF StoreInv, RemovalOK
<1>8. QuotaOK'
  <2>1. \A b \in Archives : dirs'[b].made => dirs[b].made
    BY <1>1, <1>4
  <2> QED
    BY <1>2, <2>1, QuotaKept
<1>9. TornOK'
  BY <1>1, <1>2, <1>4 DEF StoreInv, TornOK, Unswept, EmptyDir
<1> QED
  BY <1>5, <1>6, <1>7, <1>8, <1>9 DEF StoreInv

LEMMA RemoveDirectoryKeeps ==
    ASSUME StoreInv, NEW a \in Archives, RemoveDirectory(a)
    PROVE  StoreInv'
<1>1. /\ removing = {a} /\ dirs[a].made /\ dirs \in [Archives -> Dir] /\ op \in Operations
      /\ op.kind # "none" /\ op.stage \in {"scan", "remove"}
  BY DEF RemoveDirectory, StoreInv, RemovalOK, DirsOK, HolderOK
<1>2. /\ dirs' = [dirs EXCEPT ![a] = NoDir] /\ removing' = {} /\ cut' = cut \ {a}
      /\ UNCHANGED <<storeClock, foreign, reconciled, issued, cuts>>
  BY DEF RemoveDirectory
<1>3. /\ dirs' \in [Archives -> Dir] /\ dirs'[a] = NoDir /\ ~dirs'[a].made
      /\ ~dirs'[a].scratch
      /\ \A b \in Archives \ {a} : dirs'[b] = dirs[b]
  BY <1>1, <1>2, Nothing DEF EmptyDir
<1>4. \/ /\ op.stage = "remove" /\ op' \in Operations /\ op' = NoOp /\ op'.stage = "scan"
         /\ op'.kind = "none" /\ op'.on = NoArchive
      \/ op.stage = "scan" /\ op' = op
  BY <1>1, Releases DEF RemoveDirectory
<1>5. CountersOK' /\ DirsOK' /\ RemovalOK'
  BY <1>1, <1>2, <1>3, <1>4 DEF StoreInv, CountersOK, DirsOK, RemovalOK
<1>6. HolderOK'
  BY <1>2, <1>4 DEF StoreInv, HolderOK
<1>7. StageOK'
  <2>1. op.kind = "init" => op.on \in Archives
    BY DEF StoreInv, HolderOK, CountersOK
  <2> QED
    BY <1>1, <1>3, <1>4, <2>1 DEF StoreInv, StageOK, Writing
<1>8. QuotaOK'
  <2>1. \A b \in Archives : dirs'[b].made => dirs[b].made
    BY <1>1, <1>3
  <2> QED
    BY <1>4, <2>1, QuotaKept
<1>9. TornOK'
  <2>1. op.kind = "startup" => op.stage = "scan"
    BY DEF StoreInv, HolderOK
  <2> QED
    BY <1>1, <1>2, <1>3, <1>4, <2>1 DEF StoreInv, TornOK, Unswept, EmptyDir
<1> QED
  BY <1>5, <1>6, <1>7, <1>8, <1>9 DEF StoreInv

LEMMA RemoveFailsKeeps ==
    ASSUME StoreInv, NEW a \in Archives, RemoveFails(a)
    PROVE  StoreInv'
<1>1. /\ removing = {a} /\ dirs[a].made /\ op.kind # "none" /\ op.stage \in {"scan", "remove"}
  BY DEF RemoveFails, StoreInv, RemovalOK
<1>2. /\ removing' = {} /\ cut' = cut \cup {a} /\ cuts' = cuts + 1 /\ cuts < MaxCuts
      /\ reconciled' = (reconciled \/ op.kind = "startup")
      /\ UNCHANGED <<storeClock, dirs, foreign, issued>>
  BY DEF RemoveFails
<1>3. /\ op' \in Operations /\ op' = NoOp /\ op'.stage = "scan" /\ op'.kind = "none"
      /\ op'.on = NoArchive
  BY Releases DEF RemoveFails
<1>4. CountersOK' /\ DirsOK'
  <2>1. reconciled' \in BOOLEAN
    BY <1>2, Zenon DEF StoreInv, CountersOK
  <2>2. a \in issued
    BY <1>1 DEF StoreInv, DirsOK
  <2>3. CountersOK'
    BY <1>2, <2>1, <2>2, StoreLimits DEF StoreInv, CountersOK
  <2>4. DirsOK'
    BY <1>2 DEF StoreInv, DirsOK
  <2> QED
    BY <2>3, <2>4
<1>5. HolderOK' /\ StageOK' /\ RemovalOK'
  BY <1>2, <1>3 DEF HolderOK, StageOK, RemovalOK, Writing
<1>6. QuotaOK'
  BY <1>2, <1>3, QuotaKept
<1>7. TornOK'
  BY <1>1, <1>2, <1>3 DEF StoreInv, TornOK, Unswept, Writing, EmptyDir
<1> QED
  BY <1>4, <1>5, <1>6, <1>7 DEF StoreInv

-----------------------------------------------------------------------------
(* Init and SaveChunk. *)

LEMMA InitArchiveKeeps ==
    ASSUME StoreInv, NEW a \in Archives, InitArchive(a)
    PROVE  StoreInv'
<1>1. /\ op' \in Operations /\ op'.kind = "init" /\ op'.on = a /\ op'.stage = "scan"
      /\ op.kind = "none" /\ op.stage = "scan" /\ removing = {}
  BY Acquires, StoreLimits DEF InitArchive, Kinds, StoreStages
<1>2. /\ a \notin issued /\ issued' = issued \cup {a} /\ dirs[a] = NoDir
      /\ UNCHANGED <<storeClock, dirs, foreign, removing, reconciled, cut, cuts>>
  BY DEF InitArchive, StoreInv, DirsOK
<1>3. CountersOK' /\ DirsOK'
  BY <1>2 DEF StoreInv, CountersOK, DirsOK
<1>4. HolderOK' /\ StageOK' /\ RemovalOK'
  BY <1>1, <1>2 DEF HolderOK, StageOK, RemovalOK, Writing
<1>5. QuotaOK'
  BY <1>1, <1>2, QuotaKept
<1>6. TornOK'
  BY <1>1, <1>2 DEF StoreInv, TornOK, Unswept, Writing, EmptyDir
<1> QED
  BY <1>3, <1>4, <1>5, <1>6 DEF StoreInv

LEMMA MakeDirectoryKeeps ==
    ASSUME StoreInv, MakeDirectory
    PROVE  StoreInv'
<1> DEFINE a == op.on
           new == [NoDir EXCEPT !.made = TRUE, !.at = storeClock]
<1>1. /\ op \in Operations /\ op.kind = "init" /\ op.stage = "mkdir" /\ removing = {}
      /\ a \in issued /\ a \in Archives /\ dirs[a] = NoDir
  BY AtStage DEF MakeDirectory, StoreStages, StoreInv, HolderOK, StageOK
<1>2. /\ op' \in Operations /\ op'.stage = "create"
      /\ op'.kind = op.kind /\ op'.on = a /\ op'.chunk = op.chunk
  BY <1>1, Continues DEF MakeDirectory, StoreStages
<1>3. UNCHANGED <<storeClock, foreign, removing, reconciled, issued, cut, cuts>>
  BY DEF MakeDirectory
<1>4. new \in Dir /\ new.made /\ EmptyDir(new) /\ ~new.scratch
  BY DEF NoDir, Dir, Metadata, EmptyDir, StoreInv, CountersOK
<1>5. dirs \in [Archives -> Dir] /\ dirs' = [dirs EXCEPT ![a] = new]
  BY DEF MakeDirectory, StoreInv, DirsOK
<1> HIDE DEF new
<1>6. /\ dirs' \in [Archives -> Dir] /\ dirs'[a] = new
      /\ \A b \in Archives \ {a} : dirs'[b] = dirs[b]
  BY <1>1, <1>4, <1>5
<1>7. CountersOK' /\ DirsOK'
  BY <1>1, <1>3, <1>4, <1>6 DEF StoreInv, CountersOK, DirsOK
<1>8. HolderOK' /\ StageOK' /\ RemovalOK'
  BY <1>1, <1>2, <1>3, <1>4, <1>6 DEF HolderOK, StageOK, RemovalOK, Writing
<1>9. QuotaOK'
  <2>1. MadeDirs' = MadeDirs \cup {a}
    BY <1>1, <1>4, <1>6 DEF MadeDirs
  <2>2. a \notin MadeDirs
    BY <1>1, Nothing DEF MadeDirs
  <2>3. IsFiniteSet(MadeDirs) /\ Cardinality(MadeDirs) < MaxArchives
    BY <1>1 DEF StoreInv, QuotaOK
  <2>4. /\ IsFiniteSet(MadeDirs')
        /\ Cardinality(MadeDirs') = Cardinality(MadeDirs) + 1
    BY <2>1, <2>2, <2>3, FS_AddElement
  <2>5. Cardinality(MadeDirs) \in Nat
    BY <2>3, FS_CardinalityType
  <2>6. Cardinality(MadeDirs') <= MaxArchives
    BY <2>3, <2>4, <2>5, StoreLimits
  <2> QED
    BY <1>2, <2>4, <2>6 DEF QuotaOK
<1>10. TornOK'
  BY <1>1, <1>2, <1>3, <1>4, <1>6
     DEF StoreInv, TornOK, Unswept, Writing, EmptyDir
<1> QED
  BY <1>7, <1>8, <1>9, <1>10 DEF StoreInv

\* The metadata is created empty and then written; the last step ends Init.
LEMMA MetadataKeeps ==
    ASSUME StoreInv, CreateMetadata \/ WriteMetadata
    PROVE  StoreInv'
<1> DEFINE a == op.on
<1>1. /\ op \in Operations /\ op.stage \in {"create", "write"} /\ removing = {}
      /\ op.kind = "init" /\ a \in issued /\ a \in Archives /\ dirs[a].made
  BY AtStage DEF CreateMetadata, WriteMetadata, StoreStages, StoreInv, HolderOK, StageOK,
                 Writing
<1>2. UNCHANGED <<storeClock, foreign, removing, reconciled, issued, cut, cuts>>
  BY DEF CreateMetadata, WriteMetadata
<1>3. PICK m \in {"torn", "good"} :
        /\ dirs' = [dirs EXCEPT ![a].meta = m, ![a].at = storeClock]
        /\ \/ m = "torn" /\ Continue("write")
           \/ m = "good" /\ Release
  BY DEF CreateMetadata, WriteMetadata
<1>4. /\ dirs' \in [Archives -> Dir] /\ dirs'[a].made /\ dirs'[a].meta = m
      /\ dirs'[a].scratch = dirs[a].scratch
      /\ \A b \in Archives \ {a} : dirs'[b] = dirs[b]
  BY <1>1, <1>3 DEF Dir, Metadata, StoreInv, DirsOK, CountersOK
<1>5. op' \in Operations
      /\ \/ /\ m = "torn" /\ op'.stage = "write"
            /\ op'.kind = op.kind /\ op'.on = a /\ op'.chunk = op.chunk
         \/ /\ m = "good" /\ op' = NoOp /\ op'.stage = "scan" /\ op'.kind = "none"
            /\ op'.on = NoArchive
  BY <1>1, <1>3, Continues, Releases DEF StoreStages
<1>6. CountersOK' /\ DirsOK' /\ RemovalOK' /\ QuotaOK'
  BY <1>1, <1>2, <1>4, <1>5, OwnDirectory
<1>7. HolderOK' /\ StageOK'
  BY <1>1, <1>2, <1>4, <1>5 DEF HolderOK, StageOK, Writing
<1>8. TornOK'
  BY <1>1, <1>2, <1>4, <1>5 DEF StoreInv, TornOK, Unswept, Writing, EmptyDir
<1> QED
  BY <1>6, <1>7, <1>8 DEF StoreInv

\* The steps that give the directory of the operation to the removal.
LEMMA HandsOverKeeps ==
    ASSUME StoreInv, MetadataFails \/ FinalizerReturns
    PROVE  StoreInv'
<1>1. /\ op \in Operations /\ op.kind # "none" /\ op.stage \in {"create", "write", "finalize"}
      /\ removing = {} /\ op.on \in issued /\ op.on \in Archives /\ dirs[op.on].made
  BY AtStage DEF MetadataFails, FinalizerReturns, StoreStages, StoreInv, StageOK
<1>2. /\ op' \in Operations /\ op'.stage = "remove"
      /\ op'.kind = op.kind /\ op'.on = op.on /\ op'.chunk = op.chunk
  BY <1>1, Continues DEF MetadataFails, FinalizerReturns, StoreStages
<1>3. /\ removing' = {op.on}
      /\ UNCHANGED <<storeClock, dirs, foreign, reconciled, issued, cut>>
      /\ \/ cuts' = cuts
         \/ cuts < MaxCuts /\ cuts' = cuts + 1
  BY DEF MetadataFails, FinalizerReturns
<1>4. CountersOK' /\ DirsOK'
  BY <1>3, StoreLimits DEF StoreInv, CountersOK, DirsOK
<1>5. HolderOK' /\ StageOK' /\ RemovalOK'
  BY <1>1, <1>2, <1>3 DEF StoreInv, HolderOK, StageOK, RemovalOK, Writing
<1>6. QuotaOK'
  BY <1>2, <1>3, QuotaKept
<1>7. TornOK'
  BY <1>1, <1>2, <1>3 DEF StoreInv, TornOK, Unswept, EmptyDir
<1> QED
  BY <1>4, <1>5, <1>6, <1>7 DEF StoreInv

\* A request for an upload that loads takes the lock and opens a scratch file.
LEMMA OpensScratchKeeps ==
    ASSUME StoreInv, NEW a \in Archives,
           \/ \E c \in ArchiveChunks : SaveChunk(a, c)
           \/ \E kind \in {"merge", "complete"} : MergeArchive(a, kind)
    PROVE  StoreInv'
<1>1. PICK k \in {"chunk", "merge", "complete"}, c \in 0..ChunkCount,
           s \in {"copy", "concatenate"} :
        /\ Acquire(k, a, c, s)
        /\ s = "copy" => c \in ArchiveChunks
  BY StoreLimits DEF SaveChunk, MergeArchive, ArchiveChunks
<1>2. /\ dirs[a].made /\ dirs[a].meta = "good" /\ a \in issued
      /\ UNCHANGED <<storeClock, dirs, foreign, removing, reconciled, issued, cut, cuts>>
  BY DEF SaveChunk, MergeArchive, Loads, StoreInv, DirsOK
<1>3. /\ op' \in Operations /\ op'.kind = k /\ op'.on = a /\ op'.chunk = c /\ op'.stage = s
      /\ op.kind = "none" /\ op.stage = "scan" /\ removing = {}
  BY <1>1, Acquires DEF Kinds, StoreStages
<1>4. CountersOK' /\ DirsOK'
  BY <1>2 DEF StoreInv, CountersOK, DirsOK
<1>5. HolderOK' /\ StageOK' /\ RemovalOK'
  BY <1>1, <1>2, <1>3 DEF HolderOK, StageOK, RemovalOK, Writing
<1>6. QuotaOK'
  BY <1>2, <1>3, QuotaKept
<1>7. TornOK'
  BY <1>2, <1>3 DEF StoreInv, TornOK, Unswept, EmptyDir
<1> QED
  BY <1>4, <1>5, <1>6, <1>7 DEF StoreInv

-----------------------------------------------------------------------------
(* SaveChunk, Merge and Complete, once they hold the lock. *)

\* A step that writes to the directory of its operation, and goes on or ends.
LEMMA WritesOwn ==
    ASSUME StoreInv, op.stage \in Writing, op.kind # "none", removing = {},
           NEW d \in Dir, d.made, d.meta = "good", DirBecomes(op.on, d),
           UNCHANGED <<storeClock, foreign, removing, reconciled, issued, cut, cuts>>,
           \/ Release
           \/ Continue("publish") /\ op.stage = "copy"
           \/ Continue("rename") /\ d.chunks = ArchiveChunks
           \/ Continue("finalize") /\ d.zip = ArchiveChunks
    PROVE  StoreInv'
<1> DEFINE a == op.on
<1>1. /\ op \in Operations /\ a \in issued /\ a \in Archives /\ dirs[a].made
      /\ op.stage \notin {"scan", "mkdir", "create", "write", "remove"}
  BY DEF StoreInv, HolderOK, StageOK, CountersOK, Writing
<1>2. /\ dirs' \in [Archives -> Dir] /\ dirs'[a].made /\ dirs'[a].meta = "good"
      /\ dirs'[a].chunks = d.chunks /\ dirs'[a].zip = d.zip
      /\ \A b \in Archives \ {a} : dirs'[b] = dirs[b]
  BY <1>1, Becomes
<1>3. /\ op' \in Operations
      /\ \/ op' = NoOp /\ op'.stage = "scan" /\ op'.kind = "none" /\ op'.on = NoArchive
         \/ /\ op'.kind = op.kind /\ op'.on = a /\ op'.chunk = op.chunk
            /\ \/ op'.stage = "publish" /\ op.stage = "copy"
               \/ op'.stage = "rename" /\ d.chunks = ArchiveChunks
               \/ op'.stage = "finalize" /\ d.zip = ArchiveChunks
  BY <1>1, Continues, Releases DEF StoreStages
<1>4. CountersOK' /\ DirsOK' /\ RemovalOK' /\ QuotaOK'
  BY <1>1, <1>2, <1>3, OwnDirectory
<1>5. HolderOK'
  BY <1>1, <1>3 DEF StoreInv, HolderOK
<1>6. StageOK'
  <2>1. op'.kind = "init" => op'.stage \notin {"scan", "mkdir"}
    BY <1>3
  <2> QED
    BY <1>1, <1>2, <1>3, <2>1 DEF StageOK, Writing
<1>7. TornOK'
  <2>1. op'.kind # "startup" \/ op.kind = "startup"
    BY <1>3
  <2> QED
    BY <1>1, <1>2, <1>3, <2>1 DEF StoreInv, TornOK, Unswept, EmptyDir
<1> QED
  BY <1>4, <1>5, <1>6, <1>7 DEF StoreInv

\* An operation that gives up may leave its scratch file, and changes nothing else.
LEMMA GivesUpKeeps ==
    ASSUME StoreInv, NEW errors \in {0, 1}, op.stage \in Writing, op.kind # "none",
           removing = {}, GiveUp(errors)
    PROVE  StoreInv'
<1> DEFINE a == op.on
<1>1. /\ op \in Operations /\ a \in issued /\ a \in Archives /\ dirs[a].made
      /\ dirs[a].meta = "good" /\ dirs[a] \in Dir /\ op.stage \notin {"scan", "create", "write"}
  BY DEF StoreInv, HolderOK, StageOK, CountersOK, DirsOK, Writing
<1>2. PICK left \in {0, 1} :
        /\ cuts' = cuts + errors + left /\ cuts' <= MaxCuts
        /\ dirs' = [dirs EXCEPT ![a].scratch = dirs[a].scratch \/ left = 1]
  BY DEF GiveUp
<1>3. UNCHANGED <<storeClock, foreign, removing, reconciled, issued, cut>>
  BY DEF GiveUp
<1>4. /\ op' \in Operations /\ op' = NoOp /\ op'.stage = "scan" /\ op'.kind = "none"
      /\ op'.on = NoArchive
  BY Releases DEF GiveUp
<1>5. PICK b \in BOOLEAN : dirs' = [dirs EXCEPT ![a].scratch = b]
  <2>1. (dirs[a].scratch \/ left = 1) \in BOOLEAN
    BY Zenon
  <2> QED
    BY <1>2, <2>1
<1>6. /\ dirs' \in [Archives -> Dir] /\ dirs'[a].made /\ dirs'[a].meta = "good"
      /\ \A c \in Archives \ {a} : dirs'[c] = dirs[c]
  BY <1>1, <1>5 DEF Dir, StoreInv, DirsOK
<1>7. CountersOK'
  BY <1>2, <1>3, StoreLimits DEF StoreInv, CountersOK
<1>8. DirsOK'
  BY <1>1, <1>3, <1>6 DEF StoreInv, DirsOK
<1>9. HolderOK' /\ StageOK' /\ RemovalOK'
  BY <1>3, <1>4 DEF HolderOK, StageOK, RemovalOK, Writing
<1>10. QuotaOK'
  <2>1. \A c \in Archives : dirs'[c].made => dirs[c].made
    BY <1>1, <1>6
  <2> QED
    BY <1>4, <2>1, QuotaKept
<1>11. TornOK'
  BY <1>1, <1>3, <1>4, <1>6 DEF StoreInv, TornOK, Unswept, EmptyDir
<1> QED
  BY <1>7, <1>8, <1>9, <1>10, <1>11 DEF StoreInv

\* Each step of SaveChunk and of the merge writes to its own directory or gives up.
LEMMA UploadStepKeeps ==
    ASSUME StoreInv,
           \/ CopyRefused \/ ReplaceChunk \/ PublishChunk \/ StepFails
           \/ ConcatenateChunks \/ ChunkMissing \/ PublishArchive
    PROVE  StoreInv'
<1> DEFINE dir == dirs[op.on]
<1>1. op.kind # "none" /\ op.stage \in Writing /\ removing = {}
  BY DEF CopyRefused, ReplaceChunk, PublishChunk, StepFails, ConcatenateChunks, ChunkMissing,
         PublishArchive, Stage, Writing
<1>2. dir \in Dir /\ dir.made /\ dir.meta = "good"
  BY <1>1 DEF StoreInv, DirsOK, StageOK, HolderOK, CountersOK, Writing
<1>3. ASSUME NEW d \in Dir, d.made, d.meta = "good", DirBecomes(op.on, d),
             UNCHANGED <<storeClock, foreign, removing, reconciled, issued, cut, cuts>>,
             \/ Release
             \/ Continue("publish") /\ op.stage = "copy"
             \/ Continue("rename") /\ d.chunks = ArchiveChunks
             \/ Continue("finalize") /\ d.zip = ArchiveChunks
      PROVE  StoreInv'
  BY <1>1, <1>3, WritesOwn
<1>4. CASE CopyRefused \/ ChunkMissing \/ StepFails
  <2>1. \E errors \in {0, 1} : GiveUp(errors)
    BY <1>4 DEF CopyRefused, ChunkMissing, StepFails
  <2> QED
    BY <1>1, <2>1, GivesUpKeeps
<1>5. CASE ReplaceChunk
  <2> DEFINE d == [dir EXCEPT !.chunks = dir.chunks \ {op.chunk}]
  <2>1. d \in Dir /\ d.made /\ d.meta = "good"
    BY <1>2 DEF Dir
  <2>2. /\ DirBecomes(op.on, d) /\ Continue("publish") /\ op.stage = "copy"
        /\ UNCHANGED <<storeClock, foreign, removing, reconciled, issued, cut, cuts>>
    BY <1>5 DEF ReplaceChunk, Stage
  <2> HIDE DEF d
  <2> QED
    BY <1>3, <2>1, <2>2
<1>6. CASE PublishChunk
  <2> DEFINE d == [dir EXCEPT !.chunks = dir.chunks \cup {op.chunk}]
  <2>1. op.chunk \in ArchiveChunks
    BY <1>6 DEF PublishChunk, Stage, StoreInv, HolderOK
  <2>2. d \in Dir /\ d.made /\ d.meta = "good"
    BY <1>2, <2>1 DEF Dir
  <2>3. /\ DirBecomes(op.on, d) /\ Release
        /\ UNCHANGED <<storeClock, foreign, removing, reconciled, issued, cut, cuts>>
    BY <1>6 DEF PublishChunk
  <2> HIDE DEF d
  <2> QED
    BY <1>3, <2>2, <2>3
<1>7. CASE ConcatenateChunks
  <2> DEFINE d == [dir EXCEPT !.zip = {}]
  <2>1. d \in Dir /\ d.made /\ d.meta = "good" /\ d.chunks = dir.chunks
    BY <1>2 DEF Dir
  <2>2. /\ DirBecomes(op.on, d) /\ Continue("rename") /\ dir.chunks = ArchiveChunks
        /\ UNCHANGED <<storeClock, foreign, removing, reconciled, issued, cut, cuts>>
    BY <1>7 DEF ConcatenateChunks
  <2> HIDE DEF d
  <2> QED
    BY <1>3, <2>1, <2>2
<1>8. CASE PublishArchive
  <2> DEFINE d == [dir EXCEPT !.zip = dir.chunks]
  <2>1. dir.chunks = ArchiveChunks
    BY <1>8 DEF PublishArchive, Stage, StoreInv, StageOK
  <2>2. d \in Dir /\ d.made /\ d.meta = "good" /\ d.zip = ArchiveChunks
    BY <1>2, <2>1 DEF Dir
  <2>3. /\ DirBecomes(op.on, d) /\ (Continue("finalize") \/ Release)
        /\ UNCHANGED <<storeClock, foreign, removing, reconciled, issued, cut, cuts>>
    BY <1>8 DEF PublishArchive
  <2> HIDE DEF d
  <2> QED
    BY <1>3, <2>2, <2>3
<1> QED
  BY <1>4, <1>5, <1>6, <1>7, <1>8

-----------------------------------------------------------------------------
(* Cancel, maintenance and crashes. *)

LEMMA CancelArchiveKeeps ==
    ASSUME StoreInv, NEW a \in Archives, CancelArchive(a)
    PROVE  StoreInv'
<1>1. /\ op' \in Operations /\ op'.kind = "cancel" /\ op'.on = a /\ op'.stage = "remove"
      /\ op.kind = "none" /\ op.stage = "scan" /\ removing = {}
  BY Acquires, StoreLimits DEF CancelArchive, Kinds, StoreStages
<1>2. /\ a \in issued /\ dirs[a].made /\ removing' = {a}
      /\ UNCHANGED <<storeClock, dirs, foreign, reconciled, issued, cut, cuts>>
  BY DEF CancelArchive
<1>3. CountersOK' /\ DirsOK'
  BY <1>2 DEF StoreInv, CountersOK, DirsOK
<1>4. HolderOK' /\ StageOK' /\ RemovalOK'
  BY <1>1, <1>2 DEF HolderOK, StageOK, RemovalOK, Writing
<1>5. QuotaOK'
  BY <1>1, <1>2, QuotaKept
<1>6. TornOK'
  BY <1>1, <1>2 DEF StoreInv, TornOK, Unswept, Writing, EmptyDir
<1> QED
  BY <1>3, <1>4, <1>5, <1>6 DEF StoreInv

LEMMA CleanupExpiredKeeps ==
    ASSUME StoreInv, CleanupExpired
    PROVE  StoreInv'
<1>1. /\ op' \in Operations /\ op'.kind = "cleanup" /\ op'.on = NoArchive
      /\ op'.stage = "scan" /\ op.kind = "none" /\ op.stage = "scan" /\ removing = {}
  <2>1. Acquire("cleanup", NoArchive, 0, "scan")
    BY DEF CleanupExpired
  <2> QED
    BY <2>1, Acquires, StoreLimits DEF Kinds, StoreStages
<1>2. UNCHANGED <<storeClock, dirs, foreign, removing, reconciled, issued, cut, cuts>>
  BY DEF CleanupExpired
<1>3. CountersOK' /\ DirsOK'
  BY <1>2 DEF StoreInv, CountersOK, DirsOK
<1>4. HolderOK' /\ StageOK' /\ RemovalOK'
  BY <1>1, <1>2 DEF HolderOK, StageOK, RemovalOK, Writing
<1>5. QuotaOK'
  BY <1>1, <1>2, QuotaKept
<1>6. TornOK'
  BY <1>1, <1>2 DEF StoreInv, TornOK, Unswept, Writing, EmptyDir
<1> QED
  BY <1>3, <1>4, <1>5, <1>6 DEF StoreInv

\* What the pass at the start makes of a directory, and what a removal that fails
\* leaves of it: neither makes a directory, and an empty one goes or counts as cut.
LEMMA Reclaims ==
    ASSUME StoreInv, NEW a \in Archives
    PROVE  /\ \A d \in {Swept(dirs[a]), Reclaimed(dirs[a])} :
                 d \in Dir /\ (d = NoDir \/ (d.made = dirs[a].made /\ d.meta = dirs[a].meta))
           /\ EmptyDir(dirs[a]) => Reclaimed(dirs[a]) = NoDir
<1> DEFINE dir == dirs[a]
           s == Swept(dir)
<1>1. dir \in Dir /\ storeClock \in Nat
  BY DEF StoreInv, DirsOK, CountersOK
<1>2. /\ s \in Dir /\ ~s.scratch /\ s.made = dir.made /\ s.meta = dir.meta
      /\ s.chunks = dir.chunks /\ s.zip = dir.zip
  BY <1>1 DEF Dir, Swept
<1>3. EmptyDir(dir) => EmptyDir(s)
  BY <1>2 DEF EmptyDir
<1>4. Reclaimed(dir) = IF EmptyDir(s) THEN NoDir ELSE s
  BY DEF Reclaimed
<1> HIDE DEF s
<1> QED
  BY <1>2, <1>3, <1>4, Nothing DEF s

LEMMA StartupPassKeeps ==
    ASSUME StoreInv, StartupPass
    PROVE  StoreInv'
<1>1. /\ op' \in Operations /\ op'.kind = "startup" /\ op'.on = NoArchive
      /\ op'.stage = "scan" /\ op.kind = "none" /\ op.stage = "scan" /\ removing = {}
  BY Acquires, StoreLimits DEF StartupPass, Kinds, StoreStages
<1>2. UNCHANGED <<storeClock, foreign, removing, reconciled, issued>>
  BY DEF StartupPass
<1> DEFINE Pass(kept, stuck) ==
             /\ cuts' = cuts + Cardinality(kept \cup stuck) /\ cuts' <= MaxCuts
             /\ cut' = cut \cup stuck
             /\ dirs' = [a \in Archives |-> IF a \in kept THEN dirs[a]
                                           ELSE IF a \in stuck THEN Swept(dirs[a])
                                           ELSE Reclaimed(dirs[a])]
<1>3. PICK kept \in SUBSET {a \in Archives : dirs[a].scratch} :
        \E stuck \in SUBSET {a \in Archives \ kept : dirs[a].made /\ EmptyDir(Swept(dirs[a]))} :
          Pass(kept, stuck)
  BY DEF StartupPass
<1>4. PICK stuck \in SUBSET {a \in Archives \ kept : dirs[a].made /\ EmptyDir(Swept(dirs[a]))} :
        Pass(kept, stuck)
  BY <1>3
<1>5. \A a \in Archives : /\ dirs[a] \in Dir
                          /\ IF dirs[a].made THEN a \in issued ELSE dirs[a] = NoDir
  BY DEF StoreInv, DirsOK
<1>6. kept \cup stuck \subseteq MadeDirs
  <2>1. ~NoDir.scratch
    BY Nothing DEF EmptyDir
  <2> QED
    BY <1>5, <2>1 DEF MadeDirs
<1>7. \A a \in Archives :
        dirs'[a] \in Dir
        /\ (dirs'[a] = NoDir \/ (dirs'[a].made = dirs[a].made /\ dirs'[a].meta = dirs[a].meta))
  BY <1>4, <1>5, Reclaims
<1>8. dirs' \in [Archives -> Dir]
  BY <1>4, <1>7
<1>9. CountersOK'
  <2>1. IsFiniteSet(kept \cup stuck)
    BY <1>6, FS_Subset DEF StoreInv, QuotaOK
  <2>2. Cardinality(kept \cup stuck) \in Nat
    BY <2>1, FS_CardinalityType
  <2>3. cuts' \in 0..MaxCuts
    BY <1>4, <2>2, StoreLimits DEF StoreInv, CountersOK
  <2>4. stuck \subseteq issued
    BY <1>5, <1>6 DEF MadeDirs
  <2> QED
    BY <1>2, <1>4, <2>3, <2>4 DEF StoreInv, CountersOK
<1>10. DirsOK'
  <2>1. \A a \in Archives : ~dirs[a].made => dirs'[a] = NoDir
    <3> SUFFICES ASSUME NEW a \in Archives, ~dirs[a].made PROVE dirs'[a] = NoDir
      OBVIOUS
    <3>1. dirs[a] = NoDir /\ a \notin kept \cup stuck
      BY <1>5, <1>6 DEF MadeDirs
    <3>2. dirs'[a] = Reclaimed(dirs[a]) /\ EmptyDir(dirs[a])
      BY <1>4, <3>1, Nothing
    <3> QED
      BY <3>2, Reclaims
  <2> QED
    BY <1>2, <1>5, <1>7, <1>8, <2>1, Nothing DEF DirsOK
<1>11. HolderOK' /\ StageOK' /\ RemovalOK'
  BY <1>1, <1>2 DEF HolderOK, StageOK, RemovalOK, Writing
<1>12. QuotaOK'
  <2>1. \A a \in Archives : dirs'[a].made => dirs[a].made
    BY <1>7, Nothing
  <2> QED
    BY <1>1, <2>1, QuotaKept
<1>13. TornOK'
  <2> SUFFICES ASSUME NEW a \in Archives, dirs'[a].made, dirs'[a].meta # "good"
               PROVE  a \in cut'
    BY DEF TornOK
  <2>1. dirs[a].made /\ dirs[a].meta # "good"
    BY <1>7, Nothing
  <2>2. a \in cut \/ EmptyDir(dirs[a])
    BY <1>1, <2>1 DEF StoreInv, TornOK
  <2>3. a \in kept => ~EmptyDir(dirs[a])
    BY DEF EmptyDir
  <2>4. EmptyDir(dirs[a]) => a \in stuck
    BY <1>4, <2>3, Nothing, Reclaims
  <2> QED
    BY <1>4, <2>2, <2>4
<1> QED
  BY <1>9, <1>10, <1>11, <1>12, <1>13 DEF StoreInv

LEMMA StoreCrashKeeps ==
    ASSUME StoreInv, StoreCrash
    PROVE  StoreInv'
<1>1. /\ op' = NoOp /\ op' \in Operations /\ op'.kind = "none" /\ op'.stage = "scan"
      /\ op'.on = NoArchive
  BY Nothing DEF StoreCrash, NoOp
<1>2. /\ removing' = {} /\ reconciled' = FALSE /\ cuts < MaxCuts /\ cuts' = cuts + 1
      /\ cut' = cut \cup removing \cup (IF Stage("write") THEN {op.on} ELSE {})
      /\ UNCHANGED <<storeClock, foreign, issued>>
  BY DEF StoreCrash
<1>3. Stage("write") => op.on \in issued
  BY AtStage DEF StoreStages
<1>4. op.stage = "write" => Stage("write")
  BY DEF StoreInv, HolderOK, RemovalOK, Stage
<1>5. dirs' = [a \in Archives |-> IF a = op.on /\ op.stage \in Writing
                                 THEN [dirs[a] EXCEPT !.scratch = TRUE] ELSE dirs[a]]
  BY DEF StoreCrash
<1>6. \A a \in Archives :
        /\ dirs'[a] \in Dir /\ dirs'[a].made = dirs[a].made /\ dirs'[a].meta = dirs[a].meta
        /\ dirs[a].meta # "good" \/ ~dirs[a].made => dirs'[a] = dirs[a]
  <2> SUFFICES ASSUME NEW a \in Archives
               PROVE  /\ dirs'[a] \in Dir /\ dirs'[a].made = dirs[a].made
                      /\ dirs'[a].meta = dirs[a].meta
                      /\ dirs[a].meta # "good" \/ ~dirs[a].made => dirs'[a] = dirs[a]
    OBVIOUS
  <2>1. dirs[a] \in Dir
    BY DEF StoreInv, DirsOK
  <2>2. CASE a = op.on /\ op.stage \in Writing
    <3>1. dirs[a].made /\ dirs[a].meta = "good"
      BY <2>2 DEF StoreInv, StageOK
    <3> QED
      BY <1>5, <2>1, <2>2, <3>1 DEF Dir
  <2>3. CASE ~(a = op.on /\ op.stage \in Writing)
    BY <1>5, <2>1, <2>3
  <2> QED
    BY <2>2, <2>3
<1>7. CountersOK'
  <2>1. removing \subseteq issued
    BY DEF StoreInv, RemovalOK, DirsOK
  <2>2. cut' \subseteq issued
    BY <1>2, <1>3, <2>1 DEF StoreInv, CountersOK
  <2>3. cuts' \in 0..MaxCuts
    BY <1>2, StoreLimits DEF StoreInv, CountersOK
  <2> QED
    BY <1>2, <2>2, <2>3 DEF StoreInv, CountersOK
<1>8. DirsOK'
  BY <1>2, <1>5, <1>6 DEF StoreInv, DirsOK
<1>9. HolderOK' /\ StageOK' /\ RemovalOK'
  BY <1>1, <1>2 DEF HolderOK, StageOK, RemovalOK, Writing
<1>10. QuotaOK'
  BY <1>1, <1>6, QuotaKept
<1>11. TornOK'
  <2> SUFFICES ASSUME NEW a \in Archives, dirs'[a].made, dirs'[a].meta # "good"
               PROVE  a \in cut' \/ EmptyDir(dirs'[a])
    BY <1>1, <1>2 DEF TornOK, Unswept
  <2>1. dirs[a].made /\ dirs[a].meta # "good" /\ dirs'[a] = dirs[a]
    BY <1>6
  <2>2. CASE op.stage = "create" /\ op.on = a
    BY <2>1, <2>2 DEF StoreInv, StageOK
  <2>3. CASE op.stage = "write" /\ op.on = a
    BY <1>2, <1>4, <2>3
  <2>4. CASE ~(op.stage \in {"create", "write"} /\ op.on = a)
    BY <1>2, <2>1, <2>4 DEF StoreInv, TornOK
  <2> QED
    BY <2>2, <2>3, <2>4
<1> QED
  BY <1>7, <1>8, <1>9, <1>10, <1>11 DEF StoreInv

-----------------------------------------------------------------------------
(* The invariant, and the theorems. *)

LEMMA InitStoreInv == StoreInit => StoreInv
<1> SUFFICES ASSUME StoreInit PROVE StoreInv
  OBVIOUS
<1>1. /\ op = NoOp /\ op \in Operations /\ op.kind = "none" /\ op.stage = "scan"
      /\ op.on = NoArchive /\ removing = {} /\ reconciled = FALSE
  BY Nothing DEF StoreInit, NoOp
<1>2. CountersOK
  <2>1. cuts \in 0..MaxCuts
    BY StoreLimits DEF StoreInit
  <2>2. foreign \in BOOLEAN /\ reconciled \in BOOLEAN
    BY Zenon DEF StoreInit
  <2> QED
    BY <2>1, <2>2 DEF StoreInit, CountersOK
<1>3. /\ dirs \in [Archives -> Dir]
      /\ \A a \in Archives : /\ dirs[a] = NoDir /\ ~dirs[a].made /\ ~dirs[a].scratch
  BY Nothing DEF StoreInit, EmptyDir
<1>4. DirsOK /\ TornOK
  BY <1>3 DEF DirsOK, TornOK
<1>5. HolderOK /\ StageOK /\ RemovalOK
  BY <1>1 DEF HolderOK, StageOK, RemovalOK, Writing
<1>6. QuotaOK
  <2>1. MadeDirs = {}
    BY <1>3 DEF MadeDirs
  <2> QED
    BY <1>1, <2>1, FS_EmptySet, StoreLimits DEF QuotaOK
<1> QED
  BY <1>2, <1>4, <1>5, <1>6 DEF StoreInv

LEMMA NextStoreInv == StoreInv /\ [StoreNext]_storeVars => StoreInv'
<1> SUFFICES ASSUME StoreInv, [StoreNext]_storeVars PROVE StoreInv'
  OBVIOUS
<1>1. ASSUME NEW a \in Archives,
             \/ ScanRemoves(a) \/ RemoveEntry(a) \/ RemoveDirectory(a) \/ RemoveFails(a)
             \/ InitArchive(a) \/ CancelArchive(a)
      PROVE  StoreInv'
  BY <1>1, ScanRemovesKeeps, RemoveEntryKeeps, RemoveDirectoryKeeps, RemoveFailsKeeps,
     InitArchiveKeeps, CancelArchiveKeeps
<1>2. ASSUME NEW a \in Archives,
             \/ \E c \in ArchiveChunks : SaveChunk(a, c)
             \/ \E kind \in {"merge", "complete"} : MergeArchive(a, kind)
      PROVE  StoreInv'
  BY <1>2, OpensScratchKeeps
<1>3. ASSUME \/ ScanFails \/ ScanEnds
             \/ MakeDirectory \/ CreateMetadata \/ WriteMetadata \/ MetadataFails
             \/ FinalizerReturns
      PROVE  StoreInv'
  BY <1>3, ScanOverKeeps, MakeDirectoryKeeps, MetadataKeeps, HandsOverKeeps
<1>4. ASSUME \/ CopyRefused \/ ReplaceChunk \/ PublishChunk \/ StepFails
             \/ ConcatenateChunks \/ ChunkMissing \/ PublishArchive
      PROVE  StoreInv'
  BY <1>4, UploadStepKeeps
<1>5. ASSUME CleanupExpired \/ StartupPass \/ StoreCrash \/ StateFileChanges \/ StoreTick
      PROVE  StoreInv'
  BY <1>5, CleanupExpiredKeeps, StartupPassKeeps, StoreCrashKeeps, TicksKeep
<1>6. CASE UNCHANGED storeVars
  <2>1. CountersOK' /\ DirsOK' /\ HolderOK' /\ StageOK' /\ RemovalOK' /\ TornOK'
    BY <1>6 DEF storeVars, StoreInv, CountersOK, DirsOK, HolderOK, StageOK, RemovalOK,
                TornOK, Unswept, EmptyDir
  <2>2. QuotaOK'
    BY <1>6, QuotaKept DEF storeVars
  <2> QED
    BY <2>1, <2>2 DEF StoreInv
<1> QED
  BY <1>1, <1>2, <1>3, <1>4, <1>5, <1>6 DEF StoreNext

THEOREM StoreInvariant == StoreSpec => []StoreInv
  BY InitStoreInv, NextStoreInv, PTL DEF StoreSpec

\* The state of the upload store keeps its shape, for any set of upload ids.
THEOREM StoreTypes == StoreSpec => []StoreTypeOK
<1>1. StoreInv => StoreTypeOK
  <2> SUFFICES ASSUME StoreInv PROVE StoreTypeOK
    OBVIOUS
  <2>1. storeClock \in Nat /\ op \in Operations /\ cuts \in 0..MaxCuts
    BY DEF StoreInv, CountersOK, HolderOK
  <2>2. dirs \in [Archives -> Dir] /\ \A a \in Archives : dirs[a].made \/ dirs[a] = NoDir
    BY DEF StoreInv, DirsOK
  <2>3. removing \subseteq Archives /\ (Unlocked => removing = {})
    BY DEF StoreInv, RemovalOK, Unlocked, NoOp
  <2>4. /\ {foreign, reconciled} \subseteq BOOLEAN
        /\ issued \subseteq Archives /\ cut \subseteq issued
    BY DEF StoreInv, CountersOK
  <2> QED
    BY <2>1, <2>2, <2>3, <2>4 DEF StoreTypeOK
<1> QED
  BY <1>1, StoreInvariant, PTL

\* Complete hands the finalizer an archive with every chunk, for any number of chunks
\* and whatever crashes and errors came before.
THEOREM FinalizedWhole == StoreSpec => []FinalizedIsWhole
<1>1. StoreInv => FinalizedIsWhole
  BY DEF StoreInv, StageOK, FinalizedIsWhole, Stage
<1> QED
  BY <1>1, StoreInvariant, PTL

\* The quota bounds the directories on the disk, for any quota and however many
\* crashes: what is counted by one scan is made under the same lock.
THEOREM DirectoriesStayBounded == StoreSpec => []DirectoriesBounded
<1>1. StoreInv => DirectoriesBounded
  BY DEF StoreInv, QuotaOK, MadeDirs, DirectoriesBounded
<1> QED
  BY <1>1, StoreInvariant, PTL

\* A crash in the middle of Init does not take uploads down past the next pass at the
\* start: what does is a removal or a metadata file cut half-way, an empty directory
\* that the pass failed to remove, or an entry of the file manager.
THEOREM DownOnlyWhenCut == StoreSpec => []DownOnlyIfCut
<1>1. StoreInv => DownOnlyIfCut
  BY DEF StoreInv, TornOK, RemovalOK, DownOnlyIfCut, Unrecognised, Unlocked, NoOp, Unswept
<1> QED
  BY <1>1, StoreInvariant, PTL

-----------------------------------------------------------------------------
(* Uploads to an agent: the inductive invariant. *)

USE DEF Parts, Objects, CallIds

\* RemoteTypeOK, by the variables a step changes together.
SessionsTyped ==
    /\ uploadClock \in Nat /\ slots \in Int
    /\ objects \in [Uploads -> 0..MaxObjects]
    /\ session \in [Uploads -> 0..MaxObjects] /\ \A u \in Uploads : session[u] <= objects[u]
    /\ expiresAt \in [Uploads -> [Objects -> Nat]]
    /\ stateFile \in [Uploads -> Nat \cup {NoFile}]

CallersTyped == caller \in [Callers -> CallerRecord]
CallsTyped == calls \in [CallIds -> CallRecord \cup {NoCall}] /\ made \in 0..MaxCalls

AgentTyped ==
    /\ known \subseteq Uploads /\ cancelled \subseteq Uploads
    /\ got \in [Uploads -> SUBSET Parts] /\ \A u \in Uploads \ known : got[u] = {}
    /\ partFile \in [Uploads -> [exists : BOOLEAN, data : SUBSET Parts]]
    /\ target \in [Uploads -> SUBSET Parts]

\* A request has its upload, its session object and its call when it needs them.
Waits(h) == caller[h].stage \in {"wait", "stat"}

CallerOK(h) ==
    /\ caller[h].stage # "idle" => caller[h].on \in Uploads
    /\ caller[h].stage # "idle" => caller[h].object <= objects[caller[h].on]
    /\ caller[h].stage \notin {"idle", "restore"} => caller[h].object # 0
    /\ IF Waits(h) THEN caller[h].call # 0 ELSE caller[h].call = 0

CallersOK == \A h \in Callers : CallerOK(h)

\* The call that a request makes.
KindOf(h) == IF caller[h].stage = "stat" THEN "stat"
             ELSE IF caller[h].kind = "merge" THEN "commit" ELSE calls[caller[h].call].kind

\* A request waits for its own call, on its own upload, until it ended.
WaitOK(h) ==
    /\ calls[caller[h].call] # NoCall
    /\ calls[caller[h].call].on = caller[h].on
    /\ calls[caller[h].call].kind = KindOf(h)

WaitsOK ==
    /\ \A h \in Callers : Waits(h) => WaitOK(h)
    /\ \A h \in Callers, g \in Callers : Waits(h) /\ caller[g].call = caller[h].call => g = h

\* Every call in use was made.
Used == {i \in CallIds : calls[i] # NoCall}
UsedOK == Cardinality(Used) <= made

\* A slot is a session in the map.
Taken == {u \in Uploads : session[u] # 0}
SlotsOK == IsFiniteSet(Taken) /\ slots = Cardinality(Taken) /\ slots <= UploadSlots

\* A cancelled upload that nothing writes to any more.
Removed(u) == u \in cancelled /\ NoStream(u) /\ partFile[u] = NoPartFile

\* While nothing is published, a chunk that counts is in the part file, a
\* stream that found the entry still has it, and a commit that found all chunks
\* still has them, unless the upload was cancelled.
CallOK(i) ==
    LET u == calls[i].on IN
    /\ calls[i].kind = "cancel" /\ calls[i].stage = "alone" => u \in cancelled
    /\ calls[i].kind = "commit" /\ calls[i].stage \in {"renamed", "ok"} => target[u] # {}
    /\ calls[i].kind = "stat" /\ calls[i].stage = "ok" => target[u] # {} \/ u \in SameSize
    /\ target[u] = {} =>
         /\ calls[i].kind = "stream" =>
              /\ calls[i].stage \in {"checked", "open", "written"} => u \in known
              /\ calls[i].stage # "detached"
              /\ calls[i].stage = "written" => calls[i].part \in partFile[u].data
         /\ calls[i].kind = "commit" /\ calls[i].stage = "checked" =>
              (u \in known /\ got[u] = Parts) \/ Removed(u)

AgentOK ==
    /\ \A u \in Uploads : target[u] = {} => got[u] \subseteq partFile[u].data
    /\ \A i \in Used : CallOK(i)

CompletedOK == completed \subseteq Uploads /\ CompleteMeansStored

RemoteInv ==
    /\ SessionsTyped /\ CallersTyped /\ CallsTyped /\ AgentTyped
    /\ CallersOK /\ WaitsOK /\ UsedOK /\ SlotsOK /\ AgentOK /\ CompletedOK

-----------------------------------------------------------------------------
(* Calls and requests. *)

\* Only calls that were made are in use, so the next one finds a free id.
LEMMA FreeCallIsFree ==
    ASSUME CallsTyped, UsedOK, made < MaxCalls
    PROVE  FreeCall \in CallIds /\ calls[FreeCall] = NoCall
<1>1. IsFiniteSet(CallIds) /\ Cardinality(CallIds) = MaxCalls
  BY UploadBounds, FS_Interval DEF CallsTyped
<1>2. Used # CallIds
  BY <1>1, UploadBounds DEF UsedOK, CallsTyped
<1>3. PICK i \in CallIds : calls[i] = NoCall
  BY <1>2 DEF Used
<1> QED
  BY <1>3 DEF FreeCall

\* A call in use is one of the records.
LEMMA CallTyped ==
    ASSUME CallsTyped, NEW i \in CallIds, calls[i] # NoCall
    PROVE  calls[i] \in CallRecord
  BY DEF CallsTyped

\* No record of a call is the free one.
LEMMA CallIsNotFree ==
    ASSUME NEW c \in CallRecord
    PROVE  c # NoCall
  BY DEF CallRecord, CallKinds, NoCall

\* What a step may do to the calls in use, but for a new one.
UsedShrinks == \A i \in CallIds : calls[i] = NoCall => calls'[i] = NoCall

LEMMA UsedKept ==
    ASSUME UsedOK, CallsTyped, made' \in Nat, made <= made', UsedShrinks
    PROVE  UsedOK'
<1>1. IsFiniteSet(CallIds)
  BY UploadBounds, FS_Interval
<1>2. IsFiniteSet(Used) /\ Used' \subseteq Used
  BY <1>1, FS_Subset DEF Used, UsedShrinks
<1>3. Cardinality(Used') <= Cardinality(Used) /\ Cardinality(Used) \in Nat /\ Cardinality(Used') \in Nat
  BY <1>2, FS_Subset, FS_CardinalityType
<1> QED
  BY <1>3 DEF UsedOK, CallsTyped

\* A set with one member more.
LEMMA OneMore ==
    ASSUME NEW S, IsFiniteSet(S), NEW A, NEW B, NEW x, A \subseteq S, B \subseteq S,
           \A i \in S : i \in A <=> i \in B \/ i = x
    PROVE  Cardinality(A) \in Nat /\ Cardinality(B) \in Nat /\ Cardinality(A) <= Cardinality(B) + 1
<1>1. IsFiniteSet(A) /\ IsFiniteSet(B) /\ A \subseteq B \cup {x}
  BY FS_Subset
<1>2. IsFiniteSet(B \cup {x}) /\ Cardinality(B \cup {x}) <= Cardinality(B) + 1
  <2>1. Cardinality(B) \in Nat
    BY <1>1, FS_CardinalityType
  <2>2. /\ IsFiniteSet(B \cup {x})
        /\ Cardinality(B \cup {x}) = Cardinality(B) \/ Cardinality(B \cup {x}) = Cardinality(B) + 1
    BY <1>1, FS_AddElement, ZenonT(30)
  <2> QED
    BY <2>1, <2>2
<1>3. Cardinality(A) <= Cardinality(B \cup {x})
  BY <1>1, <1>2, FS_Subset
<1> QED
  BY <1>1, <1>2, <1>3, FS_CardinalityType

\* A new call, which nobody waits for yet.
LEMMA NewCallMade ==
    ASSUME CallsTyped, UsedOK, WaitsOK, CallersOK, NEW u \in Uploads, NEW part \in Parts,
           NEW kind \in CallKinds, NewCall(kind, u, part)
    PROVE  /\ CallsTyped' /\ UsedOK'
           /\ FreeCall \in CallIds /\ calls[FreeCall] = NoCall
           /\ calls'[FreeCall] = [kind |-> kind, on |-> u, part |-> part, stage |-> "sent"]
           /\ \A i \in CallIds \ {FreeCall} : calls'[i] = calls[i]
           /\ \A h \in Callers : caller[h].call # FreeCall
<1>1. FreeCall \in CallIds /\ calls[FreeCall] = NoCall
  BY FreeCallIsFree DEF NewCall
<1> DEFINE new == [kind |-> kind, on |-> u, part |-> part, stage |-> "sent"]
<1>2. new \in CallRecord
  BY DEF CallRecord, CallStages
<1>3. calls' = [calls EXCEPT ![FreeCall] = new] /\ made < MaxCalls /\ made' = made + 1
  BY DEF NewCall
<1>4. new # NoCall
  BY <1>2, CallIsNotFree
<1> HIDE DEF new
<1>5. PICK free \in CallIds : free = FreeCall
  BY <1>1
<1>6. calls' = [calls EXCEPT ![free] = new]
  BY <1>3, <1>5
<1>7. CallsTyped'
  <2>1. calls' \in [CallIds -> CallRecord \cup {NoCall}]
    BY <1>2, <1>6, Zenon DEF CallsTyped
  <2> QED
    BY <1>3, <2>1, UploadBounds DEF CallsTyped
<1>8. calls'[free] = new /\ \A i \in CallIds \ {free} : calls'[i] = calls[i]
  BY <1>6 DEF CallsTyped
<1>9. UsedOK'
  <2>1. IsFiniteSet(CallIds)
    BY UploadBounds, FS_Interval
  <2>2. Used' \subseteq CallIds /\ Used \subseteq CallIds
    BY DEF Used
  <2>3. \A i \in CallIds : i \in Used' <=> i \in Used \/ i = free
    BY <1>4, <1>8 DEF Used
  <2> HIDE DEF CallIds
  <2>4. /\ Cardinality(Used') \in Nat /\ Cardinality(Used) \in Nat
        /\ Cardinality(Used') <= Cardinality(Used) + 1
    BY <2>1, <2>2, <2>3, OneMore, Zenon
  <2> QED
    BY <1>3, <2>4 DEF UsedOK, CallsTyped
<1>10. \A h \in Callers : caller[h].call # free
  BY <1>1, <1>5 DEF WaitsOK, WaitOK, CallersOK, CallerOK
<1> QED
  BY <1>1, <1>5, <1>7, <1>8, <1>9, <1>10 DEF new

\* The other requests stay as they are.
OthersStay(h) == \A g \in Callers \ {h} : caller'[g] = caller[g]

LEMMA FreeTyped == Free \in CallerRecord /\ Free.stage = "idle" /\ Free.call = 0
  BY UploadBounds, UploadSizes DEF Free, CallerRecord, CallerKinds, CallerStages

\* A request becomes another record, goes to another stage or is done.
LEMMA CallerBecomes ==
    ASSUME CallersTyped, NEW h \in Callers, NEW c \in CallerRecord, caller' = [caller EXCEPT ![h] = c]
    PROVE  CallersTyped' /\ caller'[h] = c /\ OthersStay(h)
  BY DEF CallersTyped, OthersStay

LEMMA CallerMoves ==
    ASSUME CallersTyped, NEW h \in Callers, NEW stage \in CallerStages, CallerGoes(h, stage)
    PROVE  /\ CallersTyped' /\ OthersStay(h)
           /\ caller'[h].stage = stage
           /\ caller'[h].kind = caller[h].kind /\ caller'[h].on = caller[h].on
           /\ caller'[h].object = caller[h].object /\ caller'[h].call = caller[h].call
           /\ caller'[h].part = caller[h].part
<1>1. caller[h] \in CallerRecord
  BY DEF CallersTyped
<1>2. caller' = [caller EXCEPT ![h] = [caller[h] EXCEPT !.stage = stage]]
  BY DEF CallerGoes
<1>3. [caller[h] EXCEPT !.stage = stage] \in CallerRecord
  BY <1>1 DEF CallerRecord
<1>4. CallersTyped' /\ caller'[h] = [caller[h] EXCEPT !.stage = stage] /\ OthersStay(h)
  BY <1>2, <1>3, CallerBecomes
<1> QED
  BY <1>1, <1>4 DEF CallerRecord

LEMMA CallerLeaves ==
    ASSUME CallersTyped, NEW h \in Callers, CallerDone(h)
    PROVE  CallersTyped' /\ OthersStay(h) /\ caller'[h].stage = "idle" /\ caller'[h].call = 0
  BY FreeTyped, CallerBecomes DEF CallerDone

\* The other requests keep what they need while objects are only added.
LEMMA CallersKept ==
    ASSUME CallersTyped, CallersOK, SessionsTyped, SessionsTyped', NEW h \in Callers, OthersStay(h),
           CallerOK(h)', \A u \in Uploads : objects[u] <= objects'[u]
    PROVE  CallersOK'
<1> SUFFICES ASSUME NEW g \in Callers, g # h PROVE CallerOK(g)'
  BY DEF CallersOK
<1>1. caller'[g] = caller[g] /\ caller[g] \in CallerRecord /\ CallerOK(g)
  BY DEF OthersStay, CallersTyped, CallersOK
<1>2. /\ caller[g].object \in Nat
      /\ caller[g].on \in Uploads => objects[caller[g].on] \in Nat /\ objects'[caller[g].on] \in Nat
  BY <1>1, UploadBounds DEF CallerRecord, SessionsTyped
<1> QED
  BY <1>1, <1>2 DEF CallerOK, Waits

\* A call that keeps its kind and its upload.
Same(i) == calls'[i] # NoCall /\ calls'[i].on = calls[i].on /\ calls'[i].kind = calls[i].kind

\* Requests that wait keep their calls.
LEMMA WaitsKept ==
    ASSUME WaitsOK, CallersOK',
           \A h \in Callers : Waits(h)' => caller'[h] = caller[h] /\ Same(caller[h].call)
    PROVE  WaitsOK'
<1>1. ASSUME NEW h \in Callers, Waits(h)' PROVE WaitOK(h)'
  BY <1>1 DEF WaitsOK, WaitOK, Waits, KindOf, Same
<1>2. ASSUME NEW h \in Callers, NEW g \in Callers, Waits(h)', caller'[g].call = caller'[h].call
      PROVE  g = h
  <2>1. caller'[h].call # 0
    BY <1>2 DEF CallersOK, CallerOK
  <2>2. Waits(g)'
    BY <1>2, <2>1 DEF CallersOK, CallerOK
  <2> QED
    BY <1>2, <2>2 DEF WaitsOK, Waits
<1> QED
  BY <1>1, <1>2 DEF WaitsOK

-----------------------------------------------------------------------------
(* Slots. *)

\* A session put into the map takes a slot.
LEMMA SlotTaken ==
    ASSUME SessionsTyped, SlotsOK, NEW u \in Uploads, NEW n \in Objects,
           session[u] = 0, slots < UploadSlots, slots' = slots + 1,
           session' = [session EXCEPT ![u] = n]
    PROVE  SlotsOK'
<1>1. Taken' = Taken \cup {u} /\ u \notin Taken
  BY DEF SessionsTyped, Taken
<1>2. IsFiniteSet(Taken') /\ Cardinality(Taken') = Cardinality(Taken) + 1
  BY <1>1, FS_AddElement DEF SlotsOK
<1> QED
  BY <1>2, UploadSizes DEF SlotsOK, SessionsTyped

\* A session taken from the map gives its slot back.
LEMMA SlotFreed ==
    ASSUME SessionsTyped, SlotsOK, NEW u \in Uploads, session[u] # 0,
           slots' = slots - 1, session' = [session EXCEPT ![u] = 0]
    PROVE  SlotsOK'
<1>1. Taken' = Taken \ {u} /\ u \in Taken
  BY DEF SessionsTyped, Taken
<1>2. IsFiniteSet(Taken') /\ Cardinality(Taken') = Cardinality(Taken) - 1
  BY <1>1, FS_RemoveElement DEF SlotsOK
<1> QED
  BY <1>2, UploadSizes DEF SlotsOK, SessionsTyped

\* A state file is written or removed, and an object's expiry is set.
LEMMA FileTyped ==
    ASSUME SessionsTyped, NEW u \in Uploads, NEW t \in Nat \cup {NoFile},
           stateFile' = [stateFile EXCEPT ![u] = t]
    PROVE  stateFile' \in [Uploads -> Nat \cup {NoFile}]
  BY DEF SessionsTyped

LEMMA ExpiryTyped ==
    ASSUME SessionsTyped, NEW u \in Uploads, NEW n, NEW t \in Nat,
           expiresAt' = [expiresAt EXCEPT ![u][n] = t]
    PROVE  expiresAt' \in [Uploads -> [Objects -> Nat]]
<1>1. [expiresAt[u] EXCEPT ![n] = t] \in [Objects -> Nat]
  BY DEF SessionsTyped
<1> QED
  BY <1>1, Zenon DEF SessionsTyped

\* The session is finished: it gives back the slot of the object it has.
LEMMA Finished ==
    ASSUME SessionsTyped, SlotsOK, NEW u \in Uploads, NEW n, n # 0, FinishSession(u, n),
           UNCHANGED uploadClock
    PROVE  SessionsTyped' /\ SlotsOK' /\ UNCHANGED objects
<1>1. stateFile' \in [Uploads -> Nat \cup {NoFile}] /\ UNCHANGED <<objects, expiresAt>>
  BY FileTyped DEF FinishSession
<1>2. CASE session[u] = n
  <2>1. session' = [session EXCEPT ![u] = 0] /\ slots' = slots - 1
    BY <1>2 DEF FinishSession
  <2>2. SlotsOK'
    BY <1>2, <2>1, SlotFreed
  <2>3. /\ session' \in [Uploads -> 0..MaxObjects] /\ slots' \in Int
        /\ \A w \in Uploads : session'[w] <= objects[w]
    BY <2>1, UploadBounds DEF SessionsTyped
  <2> QED
    BY <1>1, <2>2, <2>3 DEF SessionsTyped
<1>3. CASE session[u] # n
  <2>1. UNCHANGED <<session, slots>>
    BY <1>3 DEF FinishSession
  <2> QED
    BY <1>1, <2>1 DEF SessionsTyped, SlotsOK, Taken
<1> QED
  BY <1>2, <1>3

\* The session's state file is written.
LEMMA Saved ==
    ASSUME SessionsTyped, SlotsOK, NEW u \in Uploads, NEW n \in Objects, SaveState(u, n),
           UNCHANGED <<uploadClock, session, objects, expiresAt, slots>>
    PROVE  SessionsTyped' /\ SlotsOK'
<1>1. expiresAt[u][n] \in Nat
  BY DEF SessionsTyped
<1>2. stateFile' \in [Uploads -> Nat \cup {NoFile}]
  BY <1>1, FileTyped DEF SaveState
<1> QED
  BY <1>2 DEF SessionsTyped, SlotsOK, Taken

-----------------------------------------------------------------------------
(* What a step that leaves the agent alone does to its invariant. *)

\* The panel adds calls, and forgets calls that ended or that the agent has not
\* seen.
PanelCalls == \A i \in CallIds : calls'[i] = calls[i] \/ calls'[i].stage \in {"sent", "over"}

LEMMA AgentRests ==
    ASSUME AgentTyped, AgentOK, CallsTyped', UNCHANGED agentState, PanelCalls
    PROVE  AgentTyped' /\ AgentOK'
<1> USE DEF agentState
<1>1. AgentTyped'
  BY DEF AgentTyped
<1>2. \A u \in Uploads : Removed(u) => Removed(u)'
  BY DEF Removed, NoStream, PanelCalls, StreamActive
<1>3. ASSUME NEW i \in CallIds, calls'[i] # NoCall PROVE CallOK(i)'
  <2>1. CASE calls'[i] = calls[i]
    <3>1. CallOK(i) /\ calls'[i].on \in Uploads
      BY <1>3, <2>1 DEF AgentOK, Used, CallsTyped, CallRecord
    <3> QED
      BY <1>2, <2>1, <3>1 DEF CallOK
  <2>2. CASE calls'[i].stage \in {"sent", "over"}
    BY <2>2 DEF CallOK
  <2> QED
    BY <2>1, <2>2 DEF PanelCalls
<1>4. \A u \in Uploads : target'[u] = {} => got'[u] \subseteq partFile'[u].data
  BY DEF AgentOK
<1> QED
  BY <1>1, <1>3, <1>4 DEF AgentOK, Used

\* Groups of variables that a step leaves alone.
LEMMA PanelRests ==
    ASSUME RemoteInv
    PROVE  /\ UNCHANGED <<uploadClock, sessionState>> => SessionsTyped' /\ SlotsOK'
           /\ UNCHANGED callState => CallsTyped' /\ UsedOK' /\ PanelCalls
           /\ UNCHANGED <<completed, agentState>> => CompletedOK'
<1> USE DEF RemoteInv, sessionState, callState, agentState
<1>1. UNCHANGED <<uploadClock, sessionState>> => SessionsTyped' /\ SlotsOK'
  BY DEF SessionsTyped, SlotsOK, Taken
<1>2. UNCHANGED callState => CallsTyped' /\ UsedOK' /\ PanelCalls
  BY DEF CallsTyped, UsedOK, Used, PanelCalls
<1>3. UNCHANGED <<completed, agentState>> => CompletedOK'
  BY DEF CompletedOK, CompleteMeansStored
<1> QED
  BY <1>1, <1>2, <1>3

-----------------------------------------------------------------------------
(* The panel's actions. *)

\* A step of one request that makes no call and ends none.
LEMMA QuietStep ==
    ASSUME RemoteInv, NEW h \in Callers, OthersStay(h), CallersTyped', CallerOK(h)', ~Waits(h)',
           SessionsTyped', SlotsOK', \A u \in Uploads : objects[u] <= objects'[u],
           UNCHANGED <<calls, agentState, completed>>, made' \in 0..MaxCalls, made <= made'
    PROVE  RemoteInv'
<1> USE DEF RemoteInv
<1>1. CallersOK'
  BY CallersKept
<1>2. CallsTyped' /\ PanelCalls /\ UsedShrinks
  BY DEF CallsTyped, PanelCalls, UsedShrinks
<1>3. UsedOK'
  BY <1>2, UsedKept, UploadBounds DEF CallsTyped
<1>4. WaitsOK'
  <2>1. \A g \in Callers : Waits(g)' => caller'[g] = caller[g] /\ Same(caller[g].call)
    BY DEF OthersStay, Waits, Same, WaitsOK, WaitOK
  <2> QED
    BY <1>1, <2>1, WaitsKept
<1>5. AgentTyped' /\ AgentOK' /\ CompletedOK'
  BY <1>2, AgentRests, PanelRests
<1> QED
  BY <1>1, <1>2, <1>3, <1>4, <1>5

\* The map, the state files and the objects.
LEMMA SessionSteps ==
    ASSUME RemoteInv,
           \/ \E u \in Uploads : InitUpload(u)
           \/ \E h \in Callers, u \in Uploads, kind \in CallerKinds, part \in Parts :
                LookUp(h, u, kind, part)
           \/ \E h \in Callers : CheckExpiry(h) \/ RestoreSession(h) \/ InsertRestored(h)
    PROVE  RemoteInv'
<1> USE DEF RemoteInv, callState, sessionState
<1>0. /\ caller \in [Callers -> CallerRecord] /\ 0 \in Parts /\ made \in 0..MaxCalls
      /\ \A u \in Uploads : session[u] \in 0..MaxObjects /\ objects[u] \in 0..MaxObjects
                            /\ session[u] <= objects[u]
  BY UploadSizes DEF CallersTyped, CallsTyped, SessionsTyped
<1>1. ASSUME NEW u \in Uploads, InitUpload(u) PROVE RemoteInv'
  <2>1. session[u] = 0 /\ 1 \in Objects /\ slots < UploadSlots /\ slots' = slots + 1
    BY <1>0, <1>1, UploadBounds DEF InitUpload
  <2>2. SlotsOK'
    BY <1>1, <2>1, SlotTaken DEF InitUpload
  <2>3. uploadClock + SessionTTL \in Nat
    BY UploadTimes DEF SessionsTyped
  <2>4. /\ expiresAt' \in [Uploads -> [Objects -> Nat]]
        /\ stateFile' \in [Uploads -> Nat \cup {NoFile}]
    BY <1>1, <2>3, ExpiryTyped, FileTyped DEF InitUpload
  <2>5. /\ objects' = [objects EXCEPT ![u] = 1] /\ session' = [session EXCEPT ![u] = 1]
        /\ objects[u] = 0
        /\ UNCHANGED <<uploadClock, caller, calls, made, agentState, completed>>
    BY <1>1 DEF InitUpload
  <2>6. /\ objects' \in [Uploads -> 0..MaxObjects] /\ session' \in [Uploads -> 0..MaxObjects]
        /\ \A w \in Uploads : session'[w] <= objects'[w] /\ objects[w] <= objects'[w]
    BY <1>0, <2>1, <2>5 DEF SessionsTyped
  <2>7. SessionsTyped'
    BY <2>1, <2>4, <2>5, <2>6 DEF SessionsTyped
  <2>8. CallersOK'
    <3> SUFFICES ASSUME NEW h \in Callers PROVE CallerOK(h)'
      BY DEF CallersOK
    <3>1. caller[h].object \in Nat /\ CallerOK(h)
      BY <1>0 DEF CallerRecord, CallersOK
    <3>2. \A w \in Uploads : objects[w] \in Nat /\ objects'[w] \in Nat
      BY <1>0, <2>6
    <3> QED
      BY <2>5, <2>6, <3>1, <3>2 DEF CallerOK, Waits
  <2>9. WaitsOK' /\ CallersTyped'
    BY <2>5 DEF WaitsOK, WaitOK, Waits, KindOf, CallersTyped
  <2>10. CallsTyped' /\ UsedOK' /\ AgentTyped' /\ AgentOK' /\ CompletedOK'
    BY <2>5, PanelRests, AgentRests
  <2> QED
    BY <2>2, <2>7, <2>8, <2>9, <2>10
<1>2. ASSUME NEW h \in Callers, NEW u \in Uploads, NEW kind \in CallerKinds, NEW part \in Parts,
             LookUp(h, u, kind, part)
      PROVE  RemoteInv'
  <2> DEFINE c == [Free EXCEPT !.kind = kind, !.on = u, !.part = part, !.object = session[u],
                               !.stage = IF session[u] = 0 THEN "restore" ELSE "check"]
  <2>1. /\ c \in CallerRecord /\ c.on = u /\ c.object = session[u] /\ c.call = 0
        /\ c.stage = IF session[u] = 0 THEN "restore" ELSE "check"
    <3> DEFINE stage == IF session[u] = 0 THEN "restore" ELSE "check"
    <3>1. stage \in CallerStages /\ session[u] \in 0..MaxObjects
      BY <1>0 DEF CallerStages
    <3>2. PICK r \in CallerRecord : r = Free
      BY FreeTyped
    <3>3. PICK s \in CallerStages : s = stage
      BY <3>1
    <3>4. c = [r EXCEPT !.kind = kind, !.on = u, !.part = part, !.object = session[u], !.stage = s]
      BY <3>2, <3>3
    <3> HIDE DEF c, stage
    <3>5. /\ c \in CallerRecord /\ c.on = u /\ c.object = session[u] /\ c.call = r.call
          /\ c.stage = s
      BY <3>1, <3>4 DEF CallerRecord
    <3> QED
      BY <3>2, <3>3, <3>5, FreeTyped DEF stage
  <2>2. caller' = [caller EXCEPT ![h] = c]
    BY <1>2 DEF LookUp
  <2> HIDE DEF c
  <2>3. CallersTyped' /\ caller'[h] = c /\ OthersStay(h)
    BY <2>1, <2>2, CallerBecomes
  <2>4. UNCHANGED <<uploadClock, sessionState, callState, agentState, completed>>
    BY <1>2 DEF LookUp
  <2>5. CallerOK(h)' /\ ~Waits(h)'
    BY <1>0, <2>1, <2>3, <2>4 DEF CallerOK, Waits
  <2>6. SessionsTyped' /\ SlotsOK'
    BY <2>4, PanelRests
  <2> QED
    BY <1>0, <2>3, <2>4, <2>5, <2>6, QuietStep
<1>3. ASSUME NEW h \in Callers, CheckExpiry(h) PROVE RemoteInv'
  <2>1. UNCHANGED <<uploadClock, sessionState, callState, agentState, completed>>
    BY <1>3 DEF CheckExpiry
  <2>2. SessionsTyped' /\ SlotsOK'
    BY <2>1, PanelRests
  <2>3. CallerOK(h) /\ caller[h].stage = "check"
    BY <1>3 DEF CallersOK, CheckExpiry, CallerIs
  <2>4. CASE CallerDone(h)
    <3>1. CallersTyped' /\ OthersStay(h) /\ caller'[h].stage = "idle" /\ caller'[h].call = 0
      BY <2>4, CallerLeaves
    <3> QED
      BY <1>0, <2>1, <2>2, <3>1, QuietStep DEF CallerOK, Waits
  <2>5. ASSUME NEW stage \in {"remove", "use"}, CallerGoes(h, stage) PROVE RemoteInv'
    <3>1. stage \in CallerStages
      BY DEF CallerStages
    <3>2. CallerOK(h)' /\ ~Waits(h)' /\ CallersTyped' /\ OthersStay(h)
      BY <2>1, <2>3, <2>5, <3>1, CallerMoves DEF CallerOK, Waits
    <3> QED
      BY <1>0, <2>1, <2>2, <3>2, QuietStep
  <2> QED
    BY <1>3, <2>4, <2>5 DEF CheckExpiry
<1>4. ASSUME NEW h \in Callers, RestoreSession(h) PROVE RemoteInv'
  <2>1. /\ UNCHANGED <<uploadClock, session, slots, calls, agentState, completed>>
        /\ caller[h].stage = "restore" /\ caller[h].on \in Uploads /\ CallerOK(h)
    BY <1>4 DEF RestoreSession, CallersOK, CallerOK, CallerIs
  <2>2. PICK u \in Uploads : u = caller[h].on
    BY <2>1
  <2>3. SlotsOK'
    BY <2>1 DEF SlotsOK, Taken
  <2>4. CASE /\ stateFile' = [stateFile EXCEPT ![u] = NoFile] /\ CallerDone(h)
             /\ UNCHANGED <<objects, expiresAt, made>>
    <3>1. CallersTyped' /\ OthersStay(h) /\ caller'[h].stage = "idle" /\ caller'[h].call = 0
      BY <2>4, CallerLeaves
    <3>2. SessionsTyped'
      BY <2>1, <2>4, FileTyped DEF SessionsTyped
    <3> QED
      BY <1>0, <2>1, <2>3, <2>4, <3>1, <3>2, QuietStep DEF CallerOK, Waits
  <2>5. CASE /\ objects[u] + 1 \in Objects /\ made < MaxCalls /\ made' = made + 1
             /\ stateFile[u] # NoFile
             /\ objects' = [objects EXCEPT ![u] = objects[u] + 1]
             /\ expiresAt' = [expiresAt EXCEPT ![u][objects[u] + 1] = stateFile[u]]
             /\ caller' = [caller EXCEPT ![h].stage = "insert", ![h].object = objects[u] + 1]
             /\ UNCHANGED stateFile
    <3>1. PICK n \in Objects : n = objects[u] + 1
      BY <2>5
    <3>2. stateFile[u] \in Nat
      BY <2>5 DEF SessionsTyped
    <3>3. expiresAt' \in [Uploads -> [Objects -> Nat]]
      BY <2>5, <3>2, ExpiryTyped
    <3>4. /\ objects' \in [Uploads -> 0..MaxObjects] /\ objects'[u] = n
          /\ \A w \in Uploads : session[w] <= objects'[w] /\ objects[w] <= objects'[w]
      BY <1>0, <2>5, <3>1 DEF SessionsTyped
    <3>5. SessionsTyped'
      BY <2>1, <2>5, <3>3, <3>4 DEF SessionsTyped
    <3> DEFINE c == [caller[h] EXCEPT !.stage = "insert", !.object = n]
    <3>6. /\ c \in CallerRecord /\ c.stage = "insert" /\ c.object = n
          /\ c.on = caller[h].on /\ c.call = caller[h].call
      <4>1. caller[h] \in CallerRecord /\ n \in 0..MaxObjects /\ "insert" \in CallerStages
        BY <1>0, UploadBounds DEF CallerStages
      <4> QED
        BY <4>1 DEF CallerRecord
    <3>7. caller' = [caller EXCEPT ![h] = c]
      BY <2>5, <3>1
    <3> HIDE DEF c
    <3>8. CallersTyped' /\ caller'[h] = c /\ OthersStay(h)
      BY <3>6, <3>7, CallerBecomes
    <3>9. CallerOK(h)' /\ ~Waits(h)'
      BY <2>1, <2>2, <3>1, <3>4, <3>6, <3>8 DEF CallerOK, Waits
    <3>10. made' \in 0..MaxCalls /\ made <= made'
      BY <1>0, <2>5, UploadBounds
    <3> QED
      BY <2>1, <2>3, <3>4, <3>5, <3>8, <3>9, <3>10, QuietStep
  <2> QED
    BY <1>4, <2>2, <2>4, <2>5 DEF RestoreSession
<1>5. ASSUME NEW h \in Callers, InsertRestored(h) PROVE RemoteInv'
  <2>1. /\ UNCHANGED <<uploadClock, objects, expiresAt, stateFile, calls, made, agentState, completed>>
        /\ caller[h].stage = "insert" /\ caller[h].on \in Uploads /\ CallerOK(h)
    BY <1>5 DEF InsertRestored, CallersOK, CallerOK, CallerIs
  <2>2. PICK u \in Uploads : u = caller[h].on
    BY <2>1
  <2>3. ASSUME UNCHANGED <<session, slots>> PROVE SessionsTyped' /\ SlotsOK'
    BY <2>1, <2>3, PanelRests
  <2>4. CASE /\ session[u] # 0 /\ UNCHANGED <<session, slots>>
             /\ caller' = [caller EXCEPT ![h].stage = "use", ![h].object = session[u]]
    <3> DEFINE c == [caller[h] EXCEPT !.stage = "use", !.object = session[u]]
    <3>1. /\ c \in CallerRecord /\ c.stage = "use" /\ c.object = session[u]
          /\ c.on = caller[h].on /\ c.call = caller[h].call
      BY <1>0 DEF CallerRecord, CallerStages
    <3>2. caller' = [caller EXCEPT ![h] = c]
      BY <2>4
    <3> HIDE DEF c
    <3>3. CallersTyped' /\ caller'[h] = c /\ OthersStay(h)
      BY <3>1, <3>2, CallerBecomes
    <3>4. CallerOK(h)' /\ ~Waits(h)'
      BY <1>0, <2>1, <2>2, <2>4, <3>1, <3>3 DEF CallerOK, Waits
    <3> QED
      BY <1>0, <2>1, <2>3, <2>4, <3>3, <3>4, QuietStep
  <2>5. CASE /\ session[u] = 0 /\ slots < UploadSlots /\ slots' = slots + 1
             /\ session' = [session EXCEPT ![u] = caller[h].object] /\ CallerGoes(h, "use")
    <3>1. PICK n \in Objects : n = caller[h].object
      BY <1>0, <2>1 DEF CallerRecord, CallerOK
    <3>2. SlotsOK'
      BY <2>5, <3>1, SlotTaken
    <3>3. /\ session' \in [Uploads -> 0..MaxObjects] /\ slots' \in Int
          /\ \A w \in Uploads : session'[w] <= objects[w]
      BY <1>0, <2>1, <2>2, <2>5, <3>1 DEF SessionsTyped, CallerOK
    <3>4. SessionsTyped'
      BY <2>1, <3>3 DEF SessionsTyped
    <3>5. CallerOK(h)' /\ ~Waits(h)' /\ CallersTyped' /\ OthersStay(h)
      BY <2>1, <2>5, CallerMoves DEF CallerOK, Waits, CallerStages
    <3> QED
      BY <1>0, <2>1, <3>2, <3>4, <3>5, QuietStep
  <2>6. CASE CallerDone(h) /\ UNCHANGED <<session, slots>>
    <3>1. CallersTyped' /\ OthersStay(h) /\ caller'[h].stage = "idle" /\ caller'[h].call = 0
      BY <2>6, CallerLeaves
    <3> QED
      BY <1>0, <2>1, <2>3, <2>6, <3>1, QuietStep DEF CallerOK, Waits
  <2> QED
    BY <1>5, <2>2, <2>4, <2>5, <2>6 DEF InsertRestored
<1> QED
  BY <1>1, <1>2, <1>3, <1>4, <1>5

\* A request makes its call.
LEMMA StartStep ==
    ASSUME RemoteInv, NEW h \in Callers, NEW kind \in CallKinds, caller[h].stage = "use",
           caller[h].kind = "merge" => kind = "commit", Dispatch(h, kind, "wait"),
           SessionsTyped', SlotsOK', UNCHANGED <<objects, agentState, completed>>
    PROVE  RemoteInv'
<1> USE DEF RemoteInv
<1>1. caller[h] \in CallerRecord /\ caller[h].on \in Uploads /\ caller[h].part \in Parts /\ CallerOK(h)
  BY DEF CallersTyped, CallersOK, CallerOK, CallerRecord
<1>2. PICK i \in CallIds : i = FreeCall
  BY <1>1, NewCallMade DEF Dispatch
<1>3. /\ CallsTyped' /\ UsedOK' /\ calls[i] = NoCall
      /\ calls'[i] = [kind |-> kind, on |-> caller[h].on, part |-> caller[h].part, stage |-> "sent"]
      /\ \A j \in CallIds \ {i} : calls'[j] = calls[j]
      /\ \A g \in Callers : caller[g].call # i
  BY <1>1, <1>2, NewCallMade DEF Dispatch
<1> DEFINE c == [caller[h] EXCEPT !.stage = "wait", !.call = i]
<1>4. /\ c \in CallerRecord /\ c.stage = "wait" /\ c.call = i /\ c.on = caller[h].on
      /\ c.object = caller[h].object /\ c.kind = caller[h].kind
  <2>1. "wait" \in CallerStages /\ i \in 0..MaxCalls
    BY UploadBounds DEF CallerStages
  <2> QED
    BY <1>1, <2>1 DEF CallerRecord
<1>5. caller' = [caller EXCEPT ![h] = c]
  BY <1>2 DEF Dispatch
<1> HIDE DEF c
<1>6. CallersTyped' /\ caller'[h] = c /\ OthersStay(h)
  BY <1>4, <1>5, CallerBecomes
<1>7. i # 0
  BY DEF CallIds
<1>8. CallersOK'
  <2>1. CallerOK(h)'
    BY <1>1, <1>4, <1>6, <1>7 DEF CallerOK, Waits
  <2>2. \A u \in Uploads : objects[u] <= objects'[u]
    BY UploadBounds DEF SessionsTyped
  <2> QED
    BY <1>6, <2>1, <2>2, CallersKept
<1>9. WaitsOK'
  <2>1. WaitOK(h)'
    <3>1. calls'[i] # NoCall
      BY <1>3 DEF NoCall
    <3> QED
      BY <1>3, <1>4, <1>6, <3>1 DEF WaitOK, KindOf
  <2>2. ASSUME NEW g \in Callers, g # h, Waits(g)' PROVE WaitOK(g)'
    <3>1. caller'[g] = caller[g] /\ Waits(g) /\ WaitOK(g)
      BY <1>6, <2>2 DEF OthersStay, Waits, WaitsOK
    <3>2. caller[g].call \in CallIds
      BY <1>6, <2>2, <3>1, UploadBounds DEF CallersOK, CallerOK, CallersTyped, CallerRecord
    <3>3. calls'[caller[g].call] = calls[caller[g].call]
      BY <1>3, <3>2
    <3> QED
      BY <3>1, <3>3 DEF WaitOK, KindOf
  <2>3. ASSUME NEW f \in Callers, NEW g \in Callers, Waits(f)', caller'[g].call = caller'[f].call
        PROVE  g = f
    <3>1. CASE f = h \/ g = h
      BY <1>3, <1>4, <1>6, <2>3, <3>1 DEF OthersStay
    <3>2. CASE f # h /\ g # h
      BY <1>6, <2>3, <3>2 DEF OthersStay, Waits, WaitsOK
    <3> QED
      BY <3>1, <3>2
  <2> QED
    BY <2>1, <2>2, <2>3 DEF WaitsOK
<1>10. PanelCalls
  BY <1>3 DEF PanelCalls
<1>11. AgentTyped' /\ AgentOK' /\ CompletedOK'
  BY <1>3, <1>10, AgentRests, PanelRests
<1> QED
  BY <1>3, <1>6, <1>8, <1>9, <1>11

\* A request has the answer of its call, or gives up.
LEMMA EndStep ==
    ASSUME RemoteInv, NEW h \in Callers, Waits(h), CallerDone(h), NEW answer, Learns(h, answer),
           SessionsTyped', SlotsOK', CompletedOK', UNCHANGED <<objects, agentState, made>>
    PROVE  RemoteInv'
<1> USE DEF RemoteInv
<1>1. CallersTyped' /\ OthersStay(h) /\ caller'[h].stage = "idle" /\ caller'[h].call = 0
  BY CallerLeaves
<1>2. PICK i \in CallIds : i = caller[h].call
  BY UploadBounds DEF CallersTyped, CallerRecord, CallersOK, CallerOK
<1>3. /\ calls' \in [CallIds -> CallRecord \cup {NoCall}]
      /\ calls'[i] = NoCall \/ calls'[i] = calls[i]
      /\ \A j \in CallIds \ {i} : calls'[j] = calls[j]
  <2>1. calls \in [CallIds -> CallRecord \cup {NoCall}]
    BY DEF CallsTyped
  <2>2. PICK c \in CallRecord \cup {NoCall} : /\ calls' = [calls EXCEPT ![i] = c]
                                              /\ c = NoCall \/ c = calls[i]
    BY <1>2, <2>1 DEF Learns
  <2> QED
    BY <2>1, <2>2
<1>4. CallsTyped' /\ PanelCalls /\ UsedShrinks
  <2>1. NoCall.stage = "over"
    BY DEF NoCall
  <2> QED
    BY <1>3, <2>1 DEF CallsTyped, PanelCalls, UsedShrinks
<1>5. UsedOK'
  BY <1>4, UsedKept, UploadBounds DEF CallsTyped
<1>6. CallersOK'
  <2>1. CallerOK(h)' /\ \A u \in Uploads : objects[u] <= objects'[u]
    BY <1>1, UploadBounds DEF CallerOK, Waits, SessionsTyped
  <2> QED
    BY <1>1, <2>1, CallersKept
<1>7. WaitsOK'
  <2>1. ASSUME NEW g \in Callers, Waits(g)' PROVE caller'[g] = caller[g] /\ Same(caller[g].call)
    <3>1. g # h /\ caller'[g] = caller[g] /\ Waits(g)
      BY <1>1, <2>1 DEF Waits, OthersStay
    <3>2. caller[g].call \in CallIds /\ caller[g].call # i
      BY <1>2, <3>1, UploadBounds DEF CallersTyped, CallerRecord, CallersOK, CallerOK, WaitsOK
    <3>3. calls[caller[g].call] # NoCall /\ calls'[caller[g].call] = calls[caller[g].call]
      BY <1>3, <3>1, <3>2 DEF WaitsOK, WaitOK
    <3> QED
      BY <3>1, <3>3 DEF Same
  <2> QED
    BY <1>6, <2>1, WaitsKept
<1>8. AgentTyped' /\ AgentOK'
  BY <1>4, AgentRests
<1> QED
  BY <1>1, <1>4, <1>5, <1>6, <1>7, <1>8

\* A request that waits has a session and a call on its own upload.
LEMMA Waiting ==
    ASSUME RemoteInv, NEW h \in Callers, Waits(h)
    PROVE  /\ caller[h].on \in Uploads /\ caller[h].object \in Objects
           /\ caller[h].call \in Used /\ WaitOK(h)
  BY UploadBounds DEF RemoteInv, CallersTyped, CallerRecord, CallersOK, CallerOK, Waits, WaitsOK,
                      WaitOK, Used

\* Requests that make their call.
LEMMA StartSteps ==
    ASSUME RemoteInv, NEW h \in Callers, StartChunk(h) \/ StartMerge(h) \/ StartCancel(h)
    PROVE  RemoteInv'
<1> USE DEF RemoteInv
<1>1. CASE StartChunk(h)
  <2>1. /\ caller[h].stage = "use" /\ caller[h].kind = "chunk" /\ Dispatch(h, "stream", "wait")
        /\ UNCHANGED <<uploadClock, session, objects, slots, agentState, completed>>
    BY <1>1 DEF StartChunk, CallerIs
  <2>2. PICK u \in Uploads : u = caller[h].on
    BY <2>1 DEF CallersOK, CallerOK
  <2>3. uploadClock + StreamTTL \in Nat
    BY UploadTimes DEF SessionsTyped
  <2>4. /\ expiresAt' \in [Uploads -> [Objects -> Nat]]
        /\ stateFile' \in [Uploads -> Nat \cup {NoFile}]
    BY <1>1, <2>2, <2>3, ExpiryTyped, FileTyped DEF StartChunk
  <2>5. SessionsTyped' /\ SlotsOK'
    BY <2>1, <2>4 DEF SessionsTyped, SlotsOK, Taken
  <2> QED
    BY <2>1, <2>5, StartStep DEF CallKinds
<1>2. CASE StartMerge(h) \/ StartCancel(h)
  <2>1. UNCHANGED <<uploadClock, sessionState, agentState, completed>> /\ caller[h].stage = "use"
    BY <1>2 DEF StartMerge, StartCancel, CallerIs
  <2>2. SessionsTyped' /\ SlotsOK' /\ UNCHANGED objects
    BY <2>1, PanelRests DEF sessionState
  <2>3. PICK kind \in CallKinds : /\ Dispatch(h, kind, "wait")
                                  /\ caller[h].kind = "merge" => kind = "commit"
    BY <1>2 DEF StartMerge, StartCancel, CallKinds
  <2> QED
    BY <2>1, <2>2, <2>3, StartStep
<1> QED
  BY <1>1, <1>2

\* Requests that end.
LEMMA EndSteps ==
    ASSUME RemoteInv, NEW h \in Callers,
           EndChunk(h) \/ MergeAnswered(h) \/ StatAnswered(h) \/ MergeFailed(h) \/ EndCancel(h)
    PROVE  RemoteInv'
<1> USE DEF RemoteInv
<1>1. Waits(h)
  BY DEF Waits, EndChunk, MergeAnswered, StatAnswered, MergeFailed, EndCancel, CallerIs
<1>2. PICK u \in Uploads, n \in Objects : u = caller[h].on /\ n = caller[h].object
  BY <1>1, Waiting
<1>3. CompletedOK
  OBVIOUS
<1>4. CASE EndChunk(h)
  <2>1. /\ UNCHANGED <<uploadClock, made, session, objects, expiresAt, slots, agentState, completed>>
        /\ CallerDone(h) /\ (SaveState(u, n) \/ UNCHANGED stateFile)
    BY <1>2, <1>4 DEF EndChunk
  <2>2. PICK answer : Learns(h, answer)
    BY <1>4 DEF EndChunk
  <2>3. SessionsTyped' /\ SlotsOK'
    BY <2>1, Saved, PanelRests DEF sessionState
  <2>4. CompletedOK'
    BY <2>1, PanelRests
  <2> QED
    BY <1>1, <2>1, <2>2, <2>3, <2>4, EndStep
<1>5. CASE MergeFailed(h)
  <2>1. /\ UNCHANGED <<uploadClock, made, session, objects, expiresAt, slots, agentState, completed>>
        /\ CallerDone(h) /\ SaveState(u, n) /\ Learns(h, "failed")
    BY <1>2, <1>5 DEF MergeFailed
  <2>2. SessionsTyped' /\ SlotsOK' /\ CompletedOK'
    BY <2>1, Saved, PanelRests
  <2> QED
    BY <1>1, <2>1, <2>2, EndStep
<1>6. CASE EndCancel(h)
  <2>1. FinishSession(u, n) /\ CallerDone(h) /\ UNCHANGED <<uploadClock, made, agentState, completed>>
    BY <1>2, <1>6 DEF EndCancel
  <2>2. PICK answer : Learns(h, answer)
    BY <1>6 DEF EndCancel
  <2>3. SessionsTyped' /\ SlotsOK' /\ UNCHANGED objects /\ CompletedOK'
    BY <1>2, <2>1, Finished, PanelRests
  <2> QED
    BY <1>1, <2>1, <2>2, <2>3, EndStep
<1>7. CASE MergeAnswered(h) \/ StatAnswered(h)
  <2>1. /\ FinishSession(u, n) /\ CallerDone(h) /\ Learns(h, "ok")
        /\ UNCHANGED <<uploadClock, made, agentState>> /\ completed' = completed \cup {u}
    BY <1>2, <1>7 DEF MergeAnswered, StatAnswered
  <2>2. SessionsTyped' /\ SlotsOK' /\ UNCHANGED objects
    BY <1>2, <2>1, Finished
  <2>3. PICK i \in Used : i = caller[h].call /\ calls[i].on = u /\ calls[i].stage = "ok"
    BY <1>1, <1>2, <2>1, Waiting DEF Learns, WaitOK
  <2>4. CallOK(i) /\ calls[i].kind \in {"commit", "stat"}
    <3>1. calls[i].kind = KindOf(h)
      BY <1>1, <2>3, Waiting DEF WaitOK
    <3> QED
      BY <1>7, <2>3, <3>1 DEF KindOf, AgentOK, MergeAnswered, StatAnswered, CallerIs
  <2>5. target[u] # {} \/ u \in SameSize
    BY <2>3, <2>4 DEF CallOK
  <2>6. CompletedOK'
    BY <1>3, <2>1, <2>5 DEF CompletedOK, CompleteMeansStored, agentState
  <2> QED
    BY <1>1, <2>1, <2>2, <2>6, EndStep
<1> QED
  BY <1>4, <1>5, <1>6, <1>7

\* A merge whose upload the agent does not know asks for the target.
LEMMA AsksForTarget ==
    ASSUME RemoteInv, NEW h \in Callers, MergeUnknown(h)
    PROVE  RemoteInv'
<1> USE DEF RemoteInv
<1>1. Waits(h) /\ UNCHANGED <<uploadClock, made, sessionState, agentState, completed>>
  BY DEF Waits, MergeUnknown, CallerIs
<1>2. PICK i \in CallIds : i = caller[h].call
  BY <1>1, Waiting DEF Used
<1>3. calls[i] # NoCall /\ calls[i] \in CallRecord /\ calls[i].on = caller[h].on
  BY <1>1, <1>2, Waiting, CallTyped DEF WaitOK
<1> DEFINE c == [calls[i] EXCEPT !.kind = "stat", !.stage = "sent"]
<1>4. c \in CallRecord /\ c.kind = "stat" /\ c.stage = "sent" /\ c.on = calls[i].on
  BY <1>3 DEF CallRecord, CallKinds, CallStages
<1>5. calls' = [calls EXCEPT ![i] = c]
  BY <1>2 DEF MergeUnknown
<1> HIDE DEF c
<1>6. /\ CallsTyped' /\ calls'[i] = c /\ \A j \in CallIds \ {i} : calls'[j] = calls[j]
  <2>1. calls' \in [CallIds -> CallRecord \cup {NoCall}]
    BY <1>4, <1>5 DEF CallsTyped
  <2> QED
    BY <1>1, <1>5, <2>1 DEF CallsTyped
<1>7. UsedOK' /\ PanelCalls
  <2>1. UsedShrinks /\ PanelCalls
    BY <1>3, <1>4, <1>6 DEF UsedShrinks, PanelCalls
  <2> QED
    BY <1>1, <2>1, UsedKept, UploadBounds DEF CallsTyped
<1>8. /\ CallersTyped' /\ OthersStay(h) /\ caller'[h].stage = "stat"
      /\ caller'[h].on = caller[h].on /\ caller'[h].object = caller[h].object
      /\ caller'[h].call = caller[h].call
  BY CallerMoves DEF MergeUnknown, CallerStages
<1>9. SessionsTyped' /\ SlotsOK' /\ UNCHANGED objects
  BY <1>1, PanelRests DEF sessionState
<1>10. CallersOK'
  <2>1. CallerOK(h)
    BY DEF CallersOK
  <2>2. CallerOK(h)'
    BY <1>1, <1>8, <1>9, <2>1 DEF CallerOK, Waits
  <2>3. \A u \in Uploads : objects[u] <= objects'[u]
    BY <1>9, UploadBounds DEF SessionsTyped
  <2> QED
    BY <1>8, <1>9, <2>2, <2>3, CallersKept
<1>11. WaitsOK'
  <2>1. WaitOK(h)'
    <3>1. c # NoCall
      BY <1>4, CallIsNotFree
    <3> QED
      BY <1>2, <1>3, <1>4, <1>6, <1>8, <3>1 DEF WaitOK, KindOf
  <2>2. ASSUME NEW g \in Callers, g # h, Waits(g)'
        PROVE  caller'[g] = caller[g] /\ Waits(g) /\ WaitOK(g) /\ WaitOK(g)'
    <3>1. caller'[g] = caller[g] /\ Waits(g) /\ WaitOK(g)
      BY <1>8, <2>2 DEF OthersStay, Waits, WaitsOK
    <3>2. caller[g].call \in CallIds /\ caller[g].call # i
      BY <1>1, <1>2, <2>2, <3>1, Waiting DEF Used, WaitsOK
    <3>3. calls'[caller[g].call] = calls[caller[g].call]
      BY <1>6, <3>2
    <3> QED
      BY <3>1, <3>3 DEF WaitOK, KindOf
  <2>3. ASSUME NEW f \in Callers, NEW g \in Callers, Waits(f)', caller'[g].call = caller'[f].call
        PROVE  g = f
    <3>1. caller'[f].call = caller[f].call /\ caller'[g].call = caller[g].call
      BY <1>8 DEF OthersStay
    <3>2. Waits(f)
      BY <1>1, <2>2, <2>3
    <3> QED
      BY <2>3, <3>1, <3>2 DEF WaitsOK
  <2> QED
    BY <2>1, <2>2, <2>3 DEF WaitsOK
<1>12. AgentTyped' /\ AgentOK' /\ CompletedOK'
  BY <1>1, <1>6, <1>7, AgentRests, PanelRests
<1> QED
  BY <1>6, <1>7, <1>8, <1>9, <1>10, <1>11, <1>12

\* An expired session is removed, and the agent is told.
LEMMA RemovesExpired ==
    ASSUME RemoteInv, NEW h \in Callers, RemoveExpired(h)
    PROVE  RemoteInv'
<1> USE DEF RemoteInv
<1>1. /\ caller[h].stage = "remove" /\ CallerOK(h) /\ caller[h] \in CallerRecord
      /\ UNCHANGED <<uploadClock, objects, expiresAt, agentState, completed>>
  BY DEF RemoveExpired, CallerIs, CallersOK, CallersTyped
<1>2. PICK u \in Uploads : u = caller[h].on
  BY <1>1 DEF CallerOK
<1>3. \A w \in Uploads : objects[w] <= objects'[w]
  BY <1>1, UploadBounds DEF SessionsTyped
<1>4. CASE session[u] # caller[h].object
  <2>1. /\ UNCHANGED <<session, slots, stateFile, calls, made>>
        /\ CallerDone(h) \/ CallerGoes(h, "use")
    BY <1>2, <1>4 DEF RemoveExpired, callState
  <2>2. SessionsTyped' /\ SlotsOK'
    BY <1>1, <2>1, PanelRests DEF sessionState
  <2>3. CallerOK(h)' /\ ~Waits(h)' /\ CallersTyped' /\ OthersStay(h)
    BY <1>1, <2>1, CallerLeaves, CallerMoves DEF CallerOK, Waits, CallerStages
  <2> QED
    BY <1>1, <1>3, <2>1, <2>2, <2>3, UploadBounds, QuietStep DEF CallsTyped
<1>5. CASE session[u] = caller[h].object
  <2>1. /\ session' = [session EXCEPT ![u] = 0] /\ slots' = slots - 1 /\ session[u] # 0
        /\ stateFile' = [stateFile EXCEPT ![u] = NoFile] /\ NewCall("cancel", u, 0)
    BY <1>1, <1>2, <1>5 DEF RemoveExpired, CallerOK
  <2>2. PICK c \in CallerRecord : /\ caller' = [caller EXCEPT ![h] = c]
                                  /\ c.stage \in {"idle", "restore"} /\ c.call = 0
                                  /\ c.stage # "idle" => c.on = u /\ c.object = caller[h].object
    <3>1. "restore" \in CallerStages
      BY DEF CallerStages
    <3>2. PICK c : /\ c = Free \/ c = [caller[h] EXCEPT !.stage = "restore"]
                   /\ caller' = [caller EXCEPT ![h] = c]
      BY <1>2, <1>5 DEF RemoveExpired
    <3>3. CASE c = Free
      BY <3>2, <3>3, FreeTyped
    <3>4. CASE c = [caller[h] EXCEPT !.stage = "restore"]
      <4>1. /\ c \in CallerRecord /\ c.stage = "restore" /\ c.call = caller[h].call
            /\ c.on = caller[h].on /\ c.object = caller[h].object
        BY <1>1, <3>1, <3>4 DEF CallerRecord
      <4> QED
        BY <1>1, <1>2, <3>2, <4>1 DEF CallerOK, Waits
    <3> QED
      BY <3>2, <3>3, <3>4
  <2>3. CallersTyped' /\ caller'[h] = c /\ OthersStay(h)
    BY <2>2, CallerBecomes
  <2>4. SlotsOK'
    BY <2>1, SlotFreed
  <2>5. SessionsTyped'
    <3>1. /\ session' \in [Uploads -> 0..MaxObjects] /\ slots' \in Int
          /\ \A w \in Uploads : session'[w] <= objects[w]
      BY <2>1, UploadBounds DEF SessionsTyped
    <3> QED
      BY <1>1, <2>1, <3>1, FileTyped DEF SessionsTyped
  <2>6. CallersOK'
    <3>1. CallerOK(h)'
      BY <1>1, <1>2, <2>2, <2>3 DEF CallerOK, Waits
    <3> QED
      BY <1>3, <2>3, <2>5, <3>1, CallersKept
  <2>7. PICK i \in CallIds : i = FreeCall
    BY <2>1, FreeCallIsFree DEF NewCall
  <2>8. /\ CallsTyped' /\ UsedOK' /\ calls'[i].stage = "sent"
        /\ \A j \in CallIds \ {i} : calls'[j] = calls[j]
        /\ \A g \in Callers : caller[g].call # i
    <3>1. 0 \in Parts /\ "cancel" \in CallKinds
      BY UploadSizes DEF CallKinds
    <3>2. calls'[i] = [kind |-> "cancel", on |-> u, part |-> 0, stage |-> "sent"]
      BY <2>1, <2>7, <3>1, NewCallMade
    <3> QED
      BY <2>1, <2>7, <3>1, <3>2, NewCallMade
  <2>9. WaitsOK'
    <3>1. ASSUME NEW g \in Callers, Waits(g)' PROVE caller'[g] = caller[g] /\ Same(caller[g].call)
      <4>1. caller'[g] = caller[g] /\ Waits(g)
        BY <2>2, <2>3, <3>1 DEF OthersStay, Waits
      <4>2. caller[g].call \in Used /\ caller[g].call # i
        BY <2>8, <4>1, Waiting
      <4> QED
        BY <2>8, <4>1, <4>2 DEF Same, Used
    <3> QED
      BY <2>6, <3>1, WaitsKept
  <2>10. AgentTyped' /\ AgentOK' /\ CompletedOK'
    <3>1. PanelCalls
      BY <2>8 DEF PanelCalls
    <3> QED
      BY <1>1, <2>8, <3>1, AgentRests, PanelRests
  <2> QED
    BY <2>3, <2>4, <2>5, <2>6, <2>8, <2>9, <2>10
<1> QED
  BY <1>4, <1>5

\* The panel restarts, and its clock goes on.
LEMMA PanelRestarts ==
    ASSUME RemoteInv, PanelRestart \/ UploadTick
    PROVE  RemoteInv'
<1> USE DEF RemoteInv
<1>1. CASE PanelRestart
  <2>1. /\ session' = [u \in Uploads |-> 0] /\ slots' = 0 /\ caller' = [h \in Callers |-> Free]
        /\ UNCHANGED <<uploadClock, made, objects, expiresAt, stateFile, agentState, completed>>
    BY <1>1 DEF PanelRestart
  <2>2. SessionsTyped'
    BY <2>1, UploadBounds DEF SessionsTyped
  <2>3. SlotsOK'
    <3>1. Taken' = {}
      BY <2>1 DEF Taken
    <3> QED
      BY <2>1, <3>1, UploadSizes, FS_EmptySet DEF SlotsOK
  <2>4. CallersTyped' /\ CallersOK' /\ WaitsOK'
    BY <2>1, FreeTyped DEF CallersTyped, CallersOK, CallerOK, WaitsOK, Waits
  <2>5. CallsTyped' /\ UsedShrinks /\ PanelCalls
    <3>1. PICK lost : calls' = [i \in CallIds |-> IF i \in lost \/ calls[i].stage \in Ended
                                                  THEN NoCall ELSE calls[i]]
      BY <1>1 DEF PanelRestart
    <3> QED
      BY <2>1, <3>1 DEF CallsTyped, UsedShrinks, PanelCalls, NoCall
  <2>6. UsedOK'
    BY <2>1, <2>5, UsedKept, UploadBounds DEF CallsTyped
  <2>7. AgentTyped' /\ AgentOK' /\ CompletedOK'
    BY <2>1, <2>5, AgentRests, PanelRests
  <2> QED
    BY <2>2, <2>3, <2>4, <2>5, <2>6, <2>7
<1>2. CASE UploadTick
  <2>1. /\ uploadClock' = uploadClock + 1
        /\ UNCHANGED <<sessionState, caller, callState, agentState, completed>>
    BY <1>2 DEF UploadTick
  <2>2. SessionsTyped' /\ SlotsOK'
    BY <2>1 DEF SessionsTyped, SlotsOK, Taken, sessionState
  <2>3. CallersTyped' /\ CallersOK' /\ WaitsOK'
    BY <2>1 DEF CallersTyped, CallersOK, CallerOK, WaitsOK, WaitOK, Waits, KindOf, sessionState,
                callState
  <2>4. CallsTyped' /\ UsedOK' /\ AgentTyped' /\ AgentOK' /\ CompletedOK'
    BY <2>1, PanelRests, AgentRests
  <2> QED
    BY <2>2, <2>3, <2>4
<1> QED
  BY <1>1, <1>2

-----------------------------------------------------------------------------
(* What a step of the agent does to the panel's invariant. *)

\* The agent only moves calls on, and forgets those that nobody waits for.
AgentCalls ==
    /\ calls' \in [CallIds -> CallRecord \cup {NoCall}]
    /\ \A i \in CallIds : \/ calls'[i] = calls[i]
                          \/ calls[i] # NoCall /\ Same(i)
                          \/ calls'[i] = NoCall /\ \A h \in Callers : caller[h].call # i

LEMMA PanelKept ==
    ASSUME RemoteInv, AgentCalls, UNCHANGED <<uploadClock, made, sessionState, caller>>
    PROVE  /\ SessionsTyped' /\ SlotsOK' /\ CallersTyped' /\ CallersOK' /\ CallsTyped'
           /\ UsedOK' /\ WaitsOK'
<1> USE DEF RemoteInv
<1>1. SessionsTyped' /\ SlotsOK'
  BY PanelRests
<1>2. CallersTyped' /\ CallersOK'
  BY DEF CallersTyped, CallersOK, CallerOK, Waits, sessionState
<1>3. CallsTyped' /\ UsedShrinks
  BY DEF CallsTyped, AgentCalls, UsedShrinks
<1>4. UsedOK'
  BY <1>3, UsedKept, UploadBounds DEF CallsTyped
<1>5. ASSUME NEW h \in Callers, Waits(h)' PROVE caller'[h] = caller[h] /\ Same(caller[h].call)
  <2>1. Waits(h)
    BY <1>5 DEF Waits
  <2>2. caller[h].call \in CallIds /\ calls[caller[h].call] # NoCall
    BY <2>1, Waiting DEF Used
  <2> QED
    BY <2>2 DEF AgentCalls, Same
<1>6. WaitsOK'
  BY <1>2, <1>5, WaitsKept
<1> QED
  BY <1>1, <1>2, <1>3, <1>4, <1>6

\* One call moves to another stage, or is over.
CallChanges(i, stage) ==
    /\ calls' \in [CallIds -> CallRecord \cup {NoCall}]
    /\ \A j \in CallIds \ {i} : calls'[j] = calls[j]
    /\ \/ calls'[i] = NoCall /\ \A h \in Callers : caller[h].call # i
       \/ /\ calls'[i] # NoCall
          /\ calls'[i].kind = calls[i].kind /\ calls'[i].on = calls[i].on
          /\ calls'[i].part = calls[i].part /\ calls'[i].stage = stage

LEMMA OneCall ==
    ASSUME CallsTyped, NEW i \in CallIds, calls[i] # NoCall, NEW stage \in CallStages,
           CallGoes(i, stage) \/ Reply(i, stage)
    PROVE  CallChanges(i, stage)
<1>1. calls[i] \in CallRecord /\ calls \in [CallIds -> CallRecord \cup {NoCall}]
  BY CallTyped DEF CallsTyped
<1> DEFINE c == [calls[i] EXCEPT !.stage = stage]
<1>2. /\ c \in CallRecord /\ c.kind = calls[i].kind /\ c.on = calls[i].on
      /\ c.part = calls[i].part /\ c.stage = stage
  BY <1>1 DEF CallRecord
<1>3. c # NoCall
  BY <1>2, CallIsNotFree
<1>4. CASE calls' = [calls EXCEPT ![i] = c]
  <2> HIDE DEF c
  <2> QED
    BY <1>1, <1>2, <1>3, <1>4 DEF CallChanges
<1>5. CASE calls' = [calls EXCEPT ![i] = NoCall] /\ \A h \in Callers : caller[h].call # i
  BY <1>1, <1>5 DEF CallChanges
<1> QED
  BY <1>4, <1>5 DEF CallGoes, Reply, Replied

-----------------------------------------------------------------------------
(* What a step on one upload does to the agent's invariant. *)

\* The other uploads' entries and files, and their calls.
OnlyOn(u) ==
    /\ \A w \in Uploads \ {u} :
         /\ w \in known' <=> w \in known
         /\ w \in cancelled' <=> w \in cancelled
         /\ got'[w] = got[w] /\ partFile'[w] = partFile[w] /\ target'[w] = target[w]
    /\ \A j \in CallIds : \/ calls'[j] = calls[j]
                          \/ calls[j].on = u /\ (calls'[j] = NoCall \/ calls'[j].on = u)

LEMMA Elsewhere ==
    ASSUME RemoteInv, NEW u \in Uploads, OnlyOn(u)
    PROVE  \A j \in CallIds : calls'[j] # NoCall /\ calls'[j].on # u => CallOK(j)'
<1> USE DEF RemoteInv
<1> SUFFICES ASSUME NEW j \in CallIds, calls'[j] # NoCall, calls'[j].on # u PROVE CallOK(j)'
  OBVIOUS
<1>1. calls'[j] = calls[j] /\ CallOK(j)
  BY DEF OnlyOn, AgentOK, Used
<1>2. PICK w \in Uploads : w = calls[j].on /\ w # u
  BY <1>1, CallTyped DEF CallRecord
<1>3. Removed(w) => Removed(w)'
  <2> SUFFICES ASSUME Removed(w), NEW k \in CallIds, calls'[k].on = w, calls'[k] # calls[k]
               PROVE  FALSE
    BY <1>2 DEF Removed, OnlyOn, NoStream
  <2>1. calls'[k] # NoCall
    BY <1>2, NoUploadIsNone DEF NoCall
  <2> QED
    BY <1>2, <2>1 DEF OnlyOn
<1> QED
  BY <1>1, <1>2, <1>3 DEF CallOK, OnlyOn

\* A step of one call changes only its upload, where the invariant is left to show.
LEMMA AgentStep ==
    ASSUME RemoteInv, NEW i \in CallIds, calls[i] # NoCall, NEW stage, CallChanges(i, stage),
           NEW u \in Uploads, u = calls[i].on,
           UNCHANGED <<uploadClock, made, sessionState, caller, completed>>,
           OnlyOn(u), AgentTyped',
           target'[u] = {} => target[u] = {} /\ got'[u] \subseteq partFile'[u].data,
           calls'[i] # NoCall => CallOK(i)',
           \A j \in Used \ {i} : calls[j].on = u => CallOK(j)'
    PROVE  RemoteInv'
<1> USE DEF RemoteInv
<1>1. AgentCalls
  BY DEF AgentCalls, CallChanges, Same
<1>2. AgentOK'
  <2>1. ASSUME NEW w \in Uploads, target'[w] = {} PROVE got'[w] \subseteq partFile'[w].data
    BY <2>1 DEF AgentOK, OnlyOn
  <2>2. ASSUME NEW j \in CallIds, calls'[j] # NoCall PROVE CallOK(j)'
    <3>1. CASE j = i
      BY <2>2, <3>1
    <3>2. CASE j # i
      BY <2>2, <3>2, Elsewhere DEF CallChanges, Used
    <3> QED
      BY <3>1, <3>2
  <2> QED
    BY <2>1, <2>2 DEF AgentOK, Used
<1>3. CompletedOK'
  BY DEF CompletedOK, CompleteMeansStored, OnlyOn
<1> QED
  BY <1>1, <1>2, <1>3, PanelKept

\* One call moves on, and the agent's entries and files stay.
LEMMA CallStep ==
    ASSUME RemoteInv, NEW i \in CallIds, calls[i] # NoCall, NEW stage, CallChanges(i, stage),
           UNCHANGED <<panelState, agentState>>,
           calls'[i] # NoCall => CallOK(i)',
           calls[i].kind = "stream" /\ stage \in StreamActive =>
             calls[i].stage \in StreamActive \/ calls[i].on \notin cancelled
    PROVE  RemoteInv'
<1> USE DEF RemoteInv, panelState, agentState
<1>1. PICK u \in Uploads : u = calls[i].on
  BY CallTyped DEF CallRecord
<1>2. OnlyOn(u)
  BY <1>1 DEF OnlyOn, CallChanges
<1>3. Removed(u) => Removed(u)'
  BY <1>1 DEF Removed, NoStream, CallChanges, NoCall
<1>4. ASSUME NEW j \in Used \ {i}, calls[j].on = u PROVE CallOK(j)'
  BY <1>3, <1>4 DEF CallOK, CallChanges, AgentOK, Used
<1>5. AgentTyped' /\ (target'[u] = {} => target[u] = {} /\ got'[u] \subseteq partFile'[u].data)
  BY DEF AgentTyped, AgentOK
<1> QED
  BY <1>1, <1>2, <1>4, <1>5, AgentStep

-----------------------------------------------------------------------------
(* The agent's actions. *)

\* Steps that only move a call on.
LEMMA CallSteps ==
    ASSUME RemoteInv, NEW i \in CallIds,
           \/ StreamBegins(i) \/ StreamBreaks(i)
           \/ CommitWaits(i) \/ CommitChecks(i) \/ StatReplies(i)
    PROVE  RemoteInv'
<1> USE DEF RemoteInv, StreamActive
<1>1. calls[i] # NoCall /\ UNCHANGED <<panelState, agentState>>
  BY DEF StreamBegins, StreamBreaks, CommitWaits, CommitChecks, StatReplies, Is, NoCall
<1>2. calls[i] \in CallRecord /\ CallOK(i)
  BY <1>1, CallTyped DEF AgentOK, Used
<1>3. {"failed", "active", "alone", "unknown", "checked", "ok"} \subseteq CallStages
  BY DEF CallStages, Answers
<1>4. UNCHANGED <<known, got, partFile, cancelled, target>>
  BY <1>1 DEF agentState
<1>5. CASE StreamBegins(i)
  <2>1. CASE calls[i].on \in cancelled
    <3>1. CallChanges(i, "failed")
      BY <1>1, <1>3, <1>5, <2>1, OneCall DEF StreamBegins
    <3>2. calls'[i] # NoCall => CallOK(i)'
      BY <1>5, <3>1 DEF CallChanges, CallOK, StreamBegins, Is
    <3> QED
      BY <1>1, <3>1, <3>2, CallStep
  <2>2. CASE calls[i].on \notin cancelled
    <3>1. CallChanges(i, "active")
      BY <1>1, <1>3, <1>5, <2>2, OneCall DEF StreamBegins
    <3>2. calls'[i] # NoCall => CallOK(i)'
      BY <1>5, <3>1 DEF CallChanges, CallOK, StreamBegins, Is
    <3> QED
      BY <1>1, <2>2, <3>1, <3>2, CallStep
  <2> QED
    BY <2>1, <2>2
<1>6. CASE StreamBreaks(i)
  <2>1. CallChanges(i, "failed")
    BY <1>1, <1>3, <1>6, OneCall DEF StreamBreaks
  <2>2. calls'[i] # NoCall => CallOK(i)'
    BY <1>6, <2>1 DEF CallChanges, CallOK, StreamBreaks
  <2> QED
    BY <1>1, <2>1, <2>2, CallStep
<1>7. CASE CommitWaits(i)
  <2>1. CallChanges(i, "alone") /\ calls[i].kind = "commit"
    BY <1>1, <1>3, <1>7, OneCall DEF CommitWaits, Is
  <2>2. calls'[i] # NoCall => CallOK(i)'
    BY <2>1 DEF CallChanges, CallOK
  <2> QED
    BY <1>1, <2>1, <2>2, CallStep
<1>8. CASE CommitChecks(i)
  <2>1. calls[i].kind = "commit"
    BY <1>8 DEF CommitChecks, Is
  <2>2. ASSUME NEW stage \in {"unknown", "failed"}, Reply(i, stage) PROVE RemoteInv'
    <3>1. CallChanges(i, stage)
      BY <1>1, <1>3, <2>2, OneCall
    <3>2. calls'[i] # NoCall => CallOK(i)'
      BY <2>1, <3>1 DEF CallChanges, CallOK
    <3> QED
      BY <1>1, <2>1, <3>1, <3>2, CallStep
  <2>3. CASE CallGoes(i, "checked") /\ calls[i].on \in known /\ got[calls[i].on] = Parts
    <3>1. CallChanges(i, "checked")
      BY <1>1, <1>3, <2>3, OneCall
    <3>2. calls'[i] # NoCall => CallOK(i)'
      BY <1>4, <2>1, <2>3, <3>1 DEF CallChanges, CallOK
    <3> QED
      BY <1>1, <2>1, <3>1, <3>2, CallStep
  <2> QED
    BY <1>8, <2>2, <2>3 DEF CommitChecks
<1>9. CASE StatReplies(i)
  <2>1. calls[i].kind = "stat"
    BY <1>9 DEF StatReplies, Is
  <2>2. PICK stage \in {"ok", "failed"} :
             /\ Reply(i, stage)
             /\ stage = "ok" => target[calls[i].on] # {} \/ calls[i].on \in SameSize
    BY <1>9 DEF StatReplies
  <2>3. CallChanges(i, stage)
    BY <1>1, <1>3, <2>2, OneCall
  <2>4. calls'[i] # NoCall => CallOK(i)'
    BY <1>4, <2>1, <2>2, <2>3 DEF CallChanges, CallOK
  <2> QED
    BY <1>1, <2>1, <2>3, <2>4, CallStep
<1> QED
  BY <1>5, <1>6, <1>7, <1>8, <1>9

\* Steps of a stream on the upload's entry and its part file.
LEMMA StreamSteps ==
    ASSUME RemoteInv, NEW i \in CallIds,
           StreamChecks(i) \/ StreamOpens(i) \/ StreamWrites(i) \/ StreamRecords(i)
    PROVE  RemoteInv'
<1> USE DEF RemoteInv
<1>1. /\ calls[i] # NoCall /\ calls[i].kind = "stream" /\ calls[i].stage \in StreamActive
      /\ UNCHANGED <<panelState, cancelled, target>>
  BY DEF StreamChecks, StreamOpens, StreamWrites, StreamRecords, Is, NoCall, StreamActive
<1>2. calls[i] \in CallRecord /\ CallOK(i)
  BY <1>1, CallTyped DEF AgentOK, Used
<1>3. PICK u \in Uploads, p \in Parts : u = calls[i].on /\ p = calls[i].part
  BY <1>2 DEF CallRecord
<1>4. ~NoStream(u)
  BY <1>1, <1>3 DEF NoStream
<1>5. {"failed", "unknown", "checked", "open", "written", "ok"} \subseteq CallStages
  BY DEF CallStages, Answers, StreamActive
<1>6. UNCHANGED <<uploadClock, made, sessionState, caller, completed>>
  BY <1>1 DEF panelState
<1>7. partFile[u] \in [exists : BOOLEAN, data : SUBSET Parts] /\ got[u] \subseteq Parts
  BY DEF AgentTyped
<1>8. target[u] = {} => got[u] \subseteq partFile[u].data
  BY DEF AgentOK
<1>9. \A j \in Used : CallOK(j)
  BY DEF AgentOK
<1>10. CASE StreamChecks(i)
  <2>1. CASE u \in known
    <3>1. CallChanges(i, "checked") /\ UNCHANGED agentState
      BY <1>1, <1>3, <1>5, <1>10, <2>1, OneCall DEF StreamChecks, agentState
    <3>2. calls'[i] # NoCall => CallOK(i)'
      BY <1>1, <1>3, <2>1, <3>1 DEF CallChanges, CallOK, agentState
    <3> QED
      BY <1>1, <3>1, <3>2, CallStep
  <2>2. CASE u \notin known /\ calls[i].part # 0
    <3>1. CallChanges(i, "unknown") /\ UNCHANGED agentState
      BY <1>1, <1>3, <1>5, <1>10, <2>2, OneCall DEF StreamChecks, agentState
    <3>2. calls'[i] # NoCall => CallOK(i)'
      BY <1>1, <3>1 DEF CallChanges, CallOK
    <3> QED
      BY <1>1, <3>1, <3>2, CallStep
  <2>3. CASE u \notin known /\ calls[i].part = 0
    <3>1. /\ known' = known \cup {u} /\ got' = [got EXCEPT ![u] = {}]
          /\ partFile' = [partFile EXCEPT ![u] = [exists |-> TRUE, data |-> {}]]
          /\ CallChanges(i, "checked")
      BY <1>1, <1>3, <1>5, <1>10, <2>3, OneCall DEF StreamChecks
    <3>2. AgentTyped'
      BY <1>1, <3>1 DEF AgentTyped
    <3>3. OnlyOn(u)
      BY <1>1, <1>3, <3>1 DEF OnlyOn, CallChanges, AgentTyped
    <3>4. calls'[i] # NoCall => CallOK(i)'
      BY <1>1, <1>3, <3>1 DEF CallChanges, CallOK
    <3>5. ASSUME NEW j \in Used \ {i}, calls[j].on = u PROVE CallOK(j)'
      BY <1>1, <1>4, <1>9, <2>3, <3>1, <3>5 DEF CallChanges, CallOK, Used, Removed
    <3>6. target'[u] = {} => target[u] = {} /\ got'[u] \subseteq partFile'[u].data
      BY <1>1, <3>1 DEF AgentTyped
    <3> QED
      BY <1>1, <1>3, <1>6, <3>1, <3>2, <3>3, <3>4, <3>5, <3>6, AgentStep
  <2> QED
    BY <2>1, <2>2, <2>3
<1>11. CASE StreamOpens(i) \/ StreamWrites(i)
  <2>1. PICK stage \in {"open", "written"}, file \in [exists : BOOLEAN, data : SUBSET Parts] :
             /\ CallChanges(i, stage) /\ UNCHANGED <<known, got>>
             /\ partFile' = [partFile EXCEPT ![u] = file] /\ partFile[u].data \subseteq file.data
             /\ target[u] = {} => u \in known
             /\ target[u] = {} /\ stage = "written" => p \in file.data
    <3>1. CASE StreamOpens(i)
      <4> DEFINE file == [partFile[u] EXCEPT !.exists = TRUE]
      <4>1. file \in [exists : BOOLEAN, data : SUBSET Parts] /\ file.data = partFile[u].data
        BY <1>7
      <4>2. CallChanges(i, "open")
        BY <1>1, <1>5, <3>1, OneCall DEF StreamOpens
      <4>3. partFile' = [partFile EXCEPT ![u] = file] /\ UNCHANGED <<known, got>>
        BY <1>3, <3>1 DEF StreamOpens
      <4>4. target[u] = {} => u \in known
        BY <1>2, <1>3, <3>1 DEF CallOK, StreamOpens, Is
      <4> HIDE DEF file
      <4> QED
        BY <4>1, <4>2, <4>3, <4>4
    <3>2. CASE StreamWrites(i) /\ calls[i].stage = "open"
      <4> DEFINE file == [partFile[u] EXCEPT !.data = @ \cup {p}]
      <4>1. /\ file \in [exists : BOOLEAN, data : SUBSET Parts]
            /\ file.data = partFile[u].data \cup {p}
        BY <1>7
      <4>2. CallChanges(i, "written")
        BY <1>1, <1>5, <3>2, OneCall DEF StreamWrites
      <4>3. partFile' = [partFile EXCEPT ![u] = file] /\ UNCHANGED <<known, got>>
        BY <1>3, <3>2 DEF StreamWrites
      <4>4. target[u] = {} => u \in known
        BY <1>1, <1>2, <1>3, <3>2 DEF CallOK
      <4> HIDE DEF file
      <4> QED
        BY <4>1, <4>2, <4>3, <4>4
    <3>3. CASE StreamWrites(i) /\ calls[i].stage = "detached"
      <4>1. CallChanges(i, "written")
        BY <1>1, <1>5, <3>3, OneCall DEF StreamWrites
      <4>2. partFile' = [partFile EXCEPT ![u] = partFile[u]] /\ UNCHANGED <<known, got>>
        BY <3>3 DEF StreamWrites, AgentTyped
      <4>3. target[u] # {}
        BY <1>1, <1>2, <1>3, <3>3 DEF CallOK
      <4> QED
        BY <1>7, <4>1, <4>2, <4>3
    <3> QED
      BY <1>11, <3>1, <3>2, <3>3 DEF StreamWrites
  <2>2. AgentTyped'
    BY <1>1, <2>1 DEF AgentTyped
  <2>3. OnlyOn(u)
    BY <1>1, <1>3, <2>1 DEF OnlyOn, CallChanges, AgentTyped
  <2>4. partFile'[u] = file
    BY <2>1 DEF AgentTyped
  <2>5. calls'[i] # NoCall => CallOK(i)'
    BY <1>1, <1>3, <2>1, <2>4 DEF CallChanges, CallOK
  <2>6. ASSUME NEW j \in Used \ {i}, calls[j].on = u PROVE CallOK(j)'
    BY <1>1, <1>4, <1>9, <2>1, <2>4, <2>6 DEF CallChanges, CallOK, Used, Removed
  <2>7. target'[u] = {} => target[u] = {} /\ got'[u] \subseteq partFile'[u].data
    BY <1>1, <1>8, <2>1, <2>4
  <2> QED
    BY <1>1, <1>3, <1>6, <2>1, <2>2, <2>3, <2>5, <2>6, <2>7, AgentStep
<1>12. CASE StreamRecords(i)
  <2>1. CASE u \notin known
    <3>1. CallChanges(i, "failed") /\ UNCHANGED agentState
      BY <1>1, <1>3, <1>5, <1>12, <2>1, OneCall DEF StreamRecords, agentState
    <3>2. calls'[i] # NoCall => CallOK(i)'
      BY <1>1, <3>1 DEF CallChanges, CallOK
    <3> QED
      BY <1>1, <3>1, <3>2, CallStep DEF StreamActive
  <2>2. CASE u \in known
    <3>1. /\ got' = [got EXCEPT ![u] = got[u] \cup {p}] /\ UNCHANGED <<known, partFile>>
          /\ CallChanges(i, "ok")
      BY <1>1, <1>3, <1>5, <1>12, <2>2, OneCall DEF StreamRecords
    <3>2. got'[u] = got[u] \cup {p}
      BY <3>1 DEF AgentTyped
    <3>3. AgentTyped'
      BY <1>1, <1>7, <2>2, <3>1 DEF AgentTyped
    <3>4. OnlyOn(u)
      BY <1>1, <1>3, <3>1 DEF OnlyOn, CallChanges, AgentTyped
    <3>5. calls'[i] # NoCall => CallOK(i)'
      BY <1>1, <1>3, <3>1 DEF CallChanges, CallOK
    <3>6. ASSUME NEW j \in Used \ {i}, calls[j].on = u PROVE CallOK(j)'
      <4>1. got[u] = Parts => got'[u] = Parts
        BY <3>2
      <4> QED
        BY <1>1, <1>4, <1>9, <3>1, <3>6, <4>1 DEF CallChanges, CallOK, Used, Removed
    <3>7. target[u] = {} => p \in partFile[u].data
      BY <1>2, <1>3, <1>12 DEF CallOK, StreamRecords, Is
    <3>8. target'[u] = {} => target[u] = {} /\ got'[u] \subseteq partFile'[u].data
      BY <1>1, <1>8, <3>1, <3>2, <3>7
    <3> QED
      BY <1>1, <1>3, <1>6, <3>1, <3>3, <3>4, <3>5, <3>6, <3>8, AgentStep
  <2> QED
    BY <2>1, <2>2
<1> QED
  BY <1>10, <1>11, <1>12

\* The file that a commit renames while nothing is published is the whole upload.
LEMMA RenamesWhole ==
    ASSUME RemoteInv, NEW i \in CallIds, CommitRenames(i), target[calls[i].on] = {},
           target'[calls[i].on] # {}
    PROVE  target'[calls[i].on] = Parts
<1> USE DEF RemoteInv
<1>1. Is(i, "commit", "checked") /\ calls[i] \in CallRecord /\ CallOK(i)
  <2>1. Is(i, "commit", "checked") /\ calls[i] # NoCall
    BY DEF CommitRenames, Is, NoCall
  <2> QED
    BY <2>1, CallTyped DEF AgentOK, Used
<1>2. PICK u \in Uploads : u = calls[i].on
  BY <1>1 DEF CallRecord
<1>3. partFile[u].exists /\ target' = [target EXCEPT ![u] = partFile[u].data]
  BY <1>2 DEF CommitRenames
<1>4. ~Removed(u)
  BY <1>3 DEF Removed, NoPartFile
<1>5. got[u] = Parts /\ got[u] \subseteq partFile[u].data /\ partFile[u].data \subseteq Parts
  BY <1>1, <1>2, <1>4 DEF CallOK, Is, AgentOK, AgentTyped
<1> QED
  BY <1>2, <1>3, <1>5 DEF AgentTyped

\* A commit renames the part file, and streams that have it open keep it.
LEMMA CommitStep ==
    ASSUME RemoteInv, NEW i \in CallIds, CommitRenames(i)
    PROVE  RemoteInv'
<1> USE DEF RemoteInv
<1>1. /\ calls[i] # NoCall /\ Is(i, "commit", "checked")
      /\ UNCHANGED <<panelState, known, got, cancelled>>
  BY DEF CommitRenames, Is, NoCall
<1>2. PICK u \in Uploads : u = calls[i].on
  BY <1>1, CallTyped DEF CallRecord
<1>3. CASE ~(partFile[u].exists /\ PartCount - 1 \in partFile[u].data)
  <2>1. CallChanges(i, "failed") /\ UNCHANGED agentState
    <3>1. "failed" \in CallStages
      BY DEF CallStages, Answers
    <3> QED
      BY <1>1, <1>2, <1>3, <3>1, OneCall DEF CommitRenames, agentState
  <2>2. calls'[i] # NoCall => CallOK(i)'
    BY <1>1, <2>1 DEF CallChanges, CallOK, Is
  <2> QED
    BY <1>1, <2>1, <2>2, CallStep DEF Is
<1>4. CASE partFile[u].exists /\ PartCount - 1 \in partFile[u].data
  <2>1. /\ target' = [target EXCEPT ![u] = partFile[u].data]
        /\ partFile' = [partFile EXCEPT ![u] = NoPartFile]
        /\ calls' = [j \in CallIds |->
                       IF j = i THEN [calls[j] EXCEPT !.stage = "renamed"]
                       ELSE IF calls[j].on = u /\ calls[j].stage = "open"
                       THEN [calls[j] EXCEPT !.stage = "detached"] ELSE calls[j]]
    BY <1>2, <1>4 DEF CommitRenames
  <2>2. target'[u] # {}
    BY <1>4, <2>1 DEF AgentTyped
  <2>3. ASSUME NEW j \in CallIds, NEW stage \in CallStages, calls[j] # NoCall,
               calls'[j] = [calls[j] EXCEPT !.stage = stage]
        PROVE  /\ Same(j) /\ calls'[j] \in CallRecord
               /\ calls'[j].part = calls[j].part /\ calls'[j].stage = stage
    <3>1. calls[j] \in CallRecord
      BY <2>3, CallTyped
    <3>2. /\ calls'[j] \in CallRecord /\ calls'[j].kind = calls[j].kind
          /\ calls'[j].on = calls[j].on /\ calls'[j].part = calls[j].part
          /\ calls'[j].stage = stage
      BY <2>3, <3>1 DEF CallRecord
    <3>3. calls'[j] # NoCall
      BY <3>2, CallIsNotFree
    <3> QED
      BY <3>2, <3>3 DEF Same
  <2>4. "renamed" \in CallStages /\ "detached" \in CallStages
    BY DEF CallStages, StreamActive
  <2>5. Same(i) /\ calls'[i] \in CallRecord /\ calls'[i].stage = "renamed"
    BY <1>1, <2>1, <2>3, <2>4
  <2>6. ASSUME NEW j \in CallIds \ {i}
        PROVE  \/ calls'[j] = calls[j]
               \/ /\ calls[j].on = u /\ calls[j].stage = "open" /\ calls[j] # NoCall
                  /\ Same(j) /\ calls'[j] \in CallRecord /\ calls'[j].stage = "detached"
    <3>1. CASE calls[j].on = u /\ calls[j].stage = "open"
      <4>1. calls[j] # NoCall /\ calls'[j] = [calls[j] EXCEPT !.stage = "detached"]
        BY <2>1, <2>6, <3>1 DEF NoCall
      <4> QED
        BY <2>3, <2>4, <3>1, <4>1
    <3>2. CASE ~(calls[j].on = u /\ calls[j].stage = "open")
      BY <2>1, <2>6, <3>2
    <3> QED
      BY <3>1, <3>2
  <2>7. AgentCalls
    <3>1. DOMAIN calls' = CallIds /\ calls' = [j \in CallIds |-> calls'[j]]
      BY <2>1
    <3>2. \A j \in CallIds : calls'[j] \in CallRecord \cup {NoCall}
      BY <2>5, <2>6 DEF CallsTyped
    <3> QED
      BY <1>1, <2>5, <2>6, <3>1, <3>2 DEF AgentCalls
  <2>8. AgentTyped'
    <3>1. NoPartFile \in [exists : BOOLEAN, data : SUBSET Parts]
      BY DEF NoPartFile
    <3>2. partFile[u].data \subseteq Parts
      BY DEF AgentTyped
    <3> QED
      BY <1>1, <2>1, <3>1, <3>2 DEF AgentTyped
  <2>9. OnlyOn(u)
    BY <1>1, <1>2, <2>1, <2>5, <2>6 DEF OnlyOn, Same, AgentTyped
  <2>10. AgentOK'
    <3>1. ASSUME NEW w \in Uploads, target'[w] = {} PROVE got'[w] \subseteq partFile'[w].data
      BY <1>1, <2>2, <2>9, <3>1 DEF AgentOK, OnlyOn
    <3>2. ASSUME NEW j \in CallIds, calls'[j] # NoCall, calls'[j].on = u PROVE CallOK(j)'
      <4>1. CASE j = i
        BY <1>1, <2>2, <2>5, <3>2, <4>1 DEF CallOK, Same, Is
      <4>2. CASE j # i
        <5>1. calls[j] # NoCall => CallOK(j)
          BY DEF AgentOK, Used
        <5> QED
          BY <1>1, <2>2, <2>6, <3>2, <4>2, <5>1 DEF CallOK, Same
      <4> QED
        BY <4>1, <4>2
    <3> QED
      BY <2>9, <3>1, <3>2, Elsewhere DEF AgentOK, Used
  <2>11. CompletedOK'
    BY <1>1, <2>2, <2>9 DEF CompletedOK, CompleteMeansStored, OnlyOn, panelState
  <2> QED
    BY <1>1, <2>7, <2>8, <2>10, <2>11, PanelKept DEF panelState
<1> QED
  BY <1>3, <1>4

\* The end of a commit, and a cancel.
LEMMA CancelSteps ==
    ASSUME RemoteInv, NEW i \in CallIds, CommitForgets(i) \/ CancelBegins(i) \/ CancelRemoves(i)
    PROVE  RemoteInv'
<1> USE DEF RemoteInv
<1>1. /\ calls[i] # NoCall /\ calls[i].kind \in {"commit", "cancel"}
      /\ UNCHANGED <<panelState, target>>
  BY DEF CommitForgets, CancelBegins, CancelRemoves, Is, NoCall
<1>2. calls[i] \in CallRecord /\ CallOK(i)
  BY <1>1, CallTyped DEF AgentOK, Used
<1>3. PICK u \in Uploads : u = calls[i].on
  BY <1>2 DEF CallRecord
<1>4. UNCHANGED <<uploadClock, made, sessionState, caller, completed>>
  BY <1>1 DEF panelState
<1>5. \A j \in Used : CallOK(j)
  BY DEF AgentOK
<1>6. {"ok", "alone"} \subseteq CallStages
  BY DEF CallStages, Answers
<1>7. CASE CommitForgets(i)
  <2>1. /\ CallChanges(i, "ok") /\ UNCHANGED <<partFile, cancelled>>
        /\ known' = known \ {u} /\ got' = [got EXCEPT ![u] = {}]
    BY <1>1, <1>3, <1>6, <1>7, OneCall DEF CommitForgets
  <2>2. target[u] # {} /\ calls[i].kind = "commit"
    BY <1>2, <1>3, <1>7 DEF CallOK, CommitForgets, Is
  <2>3. AgentTyped' /\ OnlyOn(u)
    BY <1>1, <1>3, <2>1 DEF OnlyOn, CallChanges, AgentTyped
  <2>4. calls'[i] # NoCall => CallOK(i)'
    BY <1>1, <1>3, <2>1, <2>2 DEF CallChanges, CallOK
  <2>5. ASSUME NEW j \in Used \ {i}, calls[j].on = u PROVE CallOK(j)'
    BY <1>1, <1>5, <2>1, <2>2, <2>5 DEF CallChanges, CallOK, Used
  <2> QED
    BY <1>1, <1>3, <1>4, <2>1, <2>2, <2>3, <2>4, <2>5, AgentStep
<1>8. CASE CancelBegins(i)
  <2>1. /\ CallChanges(i, "alone") /\ UNCHANGED <<known, got, partFile>>
        /\ cancelled' = cancelled \cup {u} /\ calls[i].kind = "cancel"
    BY <1>1, <1>3, <1>6, <1>8, OneCall DEF CancelBegins, Is
  <2>2. AgentTyped' /\ OnlyOn(u)
    BY <1>1, <1>3, <2>1 DEF OnlyOn, CallChanges, AgentTyped
  <2>3. calls'[i] # NoCall => CallOK(i)'
    BY <1>1, <1>3, <2>1 DEF CallChanges, CallOK
  <2>4. Removed(u) => Removed(u)'
    BY <1>3, <2>1 DEF Removed, NoStream, CallChanges, NoCall
  <2>5. ASSUME NEW j \in Used \ {i}, calls[j].on = u PROVE CallOK(j)'
    BY <1>1, <1>5, <2>1, <2>4, <2>5 DEF CallChanges, CallOK, Used
  <2>6. target'[u] = {} => target[u] = {} /\ got'[u] \subseteq partFile'[u].data
    BY <1>1, <2>1 DEF AgentOK
  <2> QED
    BY <1>1, <1>3, <1>4, <2>1, <2>2, <2>3, <2>5, <2>6, AgentStep
<1>9. CASE CancelRemoves(i)
  <2>1. /\ CallChanges(i, "ok") /\ UNCHANGED cancelled /\ calls[i].kind = "cancel" /\ NoStream(u)
        /\ known' = known \ {u} /\ got' = [got EXCEPT ![u] = {}]
        /\ partFile' = [partFile EXCEPT ![u] = NoPartFile]
    BY <1>1, <1>3, <1>6, <1>9, OneCall DEF CancelRemoves, Is
  <2>2. AgentTyped' /\ OnlyOn(u)
    <3>1. NoPartFile \in [exists : BOOLEAN, data : SUBSET Parts]
      BY DEF NoPartFile
    <3> QED
      BY <1>1, <1>3, <2>1, <3>1 DEF OnlyOn, CallChanges, AgentTyped
  <2>3. calls'[i] # NoCall => CallOK(i)'
    BY <1>1, <1>3, <2>1 DEF CallChanges, CallOK
  <2>4. Removed(u)'
    <3>1. u \in cancelled
      BY <1>2, <1>3, <1>9 DEF CallOK, CancelRemoves, Is
    <3>2. NoStream(u)'
      BY <1>3, <2>1 DEF NoStream, CallChanges, NoCall
    <3> QED
      BY <2>1, <3>1, <3>2 DEF Removed, AgentTyped
  <2>5. ASSUME NEW j \in Used \ {i}, calls[j].on = u PROVE CallOK(j)'
    <3>1. ~(calls[j].kind = "stream" /\ calls[j].stage \in StreamActive)
      BY <2>1, <2>5 DEF NoStream, Used
    <3> QED
      BY <1>1, <1>5, <2>1, <2>4, <2>5, <3>1 DEF CallChanges, CallOK, Used, StreamActive
  <2>6. target'[u] = {} => target[u] = {} /\ got'[u] \subseteq partFile'[u].data
    BY <1>1, <2>1 DEF AgentTyped
  <2> QED
    BY <1>1, <1>3, <1>4, <2>1, <2>2, <2>3, <2>5, <2>6, AgentStep
<1> QED
  BY <1>7, <1>8, <1>9

\* The agent restarts: running calls are over, uploads and tombstones forgotten.
LEMMA AgentRestarts ==
    ASSUME RemoteInv, AgentRestart
    PROVE  RemoteInv'
<1> USE DEF RemoteInv
<1>1. /\ calls' = [i \in CallIds |-> IF calls[i].stage \in {"sent"} \cup Ended THEN calls[i]
                                     ELSE Replied(i, "over")]
      /\ known' = {} /\ got' = [u \in Uploads |-> {}] /\ cancelled' = {}
      /\ UNCHANGED <<uploadClock, made, sessionState, caller, partFile, target, completed>>
  BY DEF AgentRestart
<1>2. ASSUME NEW i \in CallIds
      PROVE  \/ calls'[i] = calls[i] /\ calls[i].stage \in {"sent"} \cup Ended
             \/ calls'[i] = NoCall /\ \A h \in Callers : caller[h].call # i
             \/ /\ calls[i] # NoCall /\ Same(i) /\ calls'[i] \in CallRecord
                /\ calls'[i].stage = "over"
  <2>1. CASE calls[i].stage \in {"sent"} \cup Ended
    BY <1>1, <2>1
  <2>2. CASE calls[i].stage \notin {"sent"} \cup Ended
    <3>1. calls[i] # NoCall
      BY <2>2 DEF NoCall, Ended
    <3>2. calls[i] \in CallRecord
      BY <3>1, CallTyped
    <3>3. calls'[i] = Replied(i, "over")
      BY <1>1, <2>2
    <3>4. CASE calls'[i] = [calls[i] EXCEPT !.stage = "over"]
      <4>1. /\ calls'[i] \in CallRecord /\ calls'[i].kind = calls[i].kind
            /\ calls'[i].on = calls[i].on /\ calls'[i].stage = "over"
        BY <3>2, <3>4 DEF CallRecord, CallStages
      <4>2. calls'[i] # NoCall
        BY <4>1, CallIsNotFree
      <4> QED
        BY <3>1, <4>1, <4>2 DEF Same
    <3> QED
      BY <3>3, <3>4 DEF Replied
  <2> QED
    BY <2>1, <2>2
<1>3. AgentCalls
  <2>1. calls' = [j \in CallIds |-> calls'[j]]
    BY <1>1
  <2>2. \A j \in CallIds : calls'[j] \in CallRecord \cup {NoCall}
    BY <1>2 DEF CallsTyped
  <2> QED
    BY <1>2, <2>1, <2>2 DEF AgentCalls
<1>4. AgentTyped'
  BY <1>1 DEF AgentTyped
<1>5. AgentOK'
  <2>1. ASSUME NEW i \in CallIds, calls'[i] # NoCall PROVE CallOK(i)'
    <3>1. calls[i] # NoCall => CallOK(i)
      BY DEF AgentOK, Used
    <3> QED
      BY <1>1, <1>2, <2>1, <3>1 DEF CallOK, Ended, Answers
  <2> QED
    BY <1>1, <2>1 DEF AgentOK, Used
<1>6. CompletedOK'
  BY <1>1 DEF CompletedOK, CompleteMeansStored
<1> QED
  BY <1>1, <1>3, <1>4, <1>5, <1>6, PanelKept

-----------------------------------------------------------------------------
(* The theorems. *)

\* Initially there are no sessions, no calls and no files.
LEMMA RemoteStarts ==
    ASSUME RemoteInit
    PROVE  RemoteInv
<1> USE DEF RemoteInit
<1>1. SessionsTyped /\ CallersTyped /\ CallersOK /\ WaitsOK
  BY FreeTyped, UploadBounds DEF SessionsTyped, CallersTyped, CallersOK, CallerOK, WaitsOK, Waits,
                                 NoFile
<1>2. CallsTyped /\ UsedOK
  <2>1. Used = {}
    BY DEF Used
  <2> QED
    BY <2>1, UploadBounds, FS_EmptySet DEF CallsTyped, UsedOK
<1>3. SlotsOK
  <2>1. Taken = {}
    BY DEF Taken
  <2> QED
    BY <2>1, UploadSizes, FS_EmptySet DEF SlotsOK
<1>4. AgentTyped
  BY DEF AgentTyped, NoPartFile
<1>5. AgentOK /\ CompletedOK
  BY DEF AgentOK, Used, CompletedOK, CompleteMeansStored
<1> QED
  BY <1>1, <1>2, <1>3, <1>4, <1>5 DEF RemoteInv

\* One step of RemoteNext, by its actions.
LEMMA RemoteStep ==
    ASSUME RemoteInv, [RemoteNext]_remoteVars
    PROVE  RemoteInv'
<1>1. CASE \E u \in Uploads : InitUpload(u)
  BY <1>1, SessionSteps
<1>2. ASSUME NEW h \in Callers, NEW u \in Uploads,
             \/ \E part \in Parts : LookUp(h, u, "chunk", part)
             \/ \E kind \in {"merge", "cancel", "cleanup"} : LookUp(h, u, kind, 0)
      PROVE  RemoteInv'
  <2>1. 0 \in Parts /\ {"chunk", "merge", "cancel", "cleanup"} \subseteq CallerKinds
    BY UploadSizes DEF CallerKinds
  <2>2. \E kind \in CallerKinds, part \in Parts : LookUp(h, u, kind, part)
    BY <1>2, <2>1
  <2> QED
    BY <2>2, SessionSteps
<1>3. ASSUME NEW h \in Callers, CheckExpiry(h) \/ RestoreSession(h) \/ InsertRestored(h)
      PROVE  RemoteInv'
  BY <1>3, SessionSteps
<1>4. ASSUME NEW h \in Callers, RemoveExpired(h) PROVE RemoteInv'
  BY <1>4, RemovesExpired
<1>5. ASSUME NEW h \in Callers, StartChunk(h) \/ StartMerge(h) \/ StartCancel(h) PROVE RemoteInv'
  BY <1>5, StartSteps
<1>6. ASSUME NEW h \in Callers,
             EndChunk(h) \/ MergeAnswered(h) \/ StatAnswered(h) \/ MergeFailed(h) \/ EndCancel(h)
      PROVE  RemoteInv'
  BY <1>6, EndSteps
<1>7. ASSUME NEW h \in Callers, MergeUnknown(h) PROVE RemoteInv'
  BY <1>7, AsksForTarget
<1>8. ASSUME NEW i \in CallIds,
             \/ StreamBegins(i) \/ StreamBreaks(i)
             \/ CommitWaits(i) \/ CommitChecks(i) \/ StatReplies(i)
      PROVE  RemoteInv'
  BY <1>8, CallSteps
<1>9. ASSUME NEW i \in CallIds,
             StreamChecks(i) \/ StreamOpens(i) \/ StreamWrites(i) \/ StreamRecords(i)
      PROVE  RemoteInv'
  BY <1>9, StreamSteps
<1>10. ASSUME NEW i \in CallIds, CommitRenames(i) PROVE RemoteInv'
  BY <1>10, CommitStep
<1>11. ASSUME NEW i \in CallIds, CommitForgets(i) \/ CancelBegins(i) \/ CancelRemoves(i)
       PROVE  RemoteInv'
  BY <1>11, CancelSteps
<1>12. CASE AgentRestart
  BY <1>12, AgentRestarts
<1>13. CASE PanelRestart \/ UploadTick
  BY <1>13, PanelRestarts
<1>14. CASE UNCHANGED remoteVars
  <2>1. UNCHANGED <<uploadClock, sessionState, caller, callState, agentState, completed>>
    BY <1>14 DEF remoteVars
  <2>2. CallersTyped' /\ CallersOK' /\ WaitsOK'
    BY <2>1 DEF RemoteInv, CallersTyped, CallersOK, CallerOK, WaitsOK, WaitOK, Waits, KindOf,
                sessionState, callState
  <2>3. /\ SessionsTyped' /\ SlotsOK' /\ CallsTyped' /\ UsedOK' /\ PanelCalls
        /\ CompletedOK'
    BY <2>1, PanelRests
  <2>4. AgentTyped' /\ AgentOK'
    BY <2>1, <2>3, AgentRests DEF RemoteInv
  <2> QED
    BY <2>2, <2>3, <2>4 DEF RemoteInv
<1> QED
  BY <1>1, <1>2, <1>3, <1>4, <1>5, <1>6, <1>7, <1>8, <1>9, <1>10, <1>11, <1>12, <1>13, <1>14
     DEF RemoteNext

\* The inductive invariant holds of every behaviour of the uploads.
THEOREM RemoteInvariant == RemoteSpec => []RemoteInv
<1> QED
  BY RemoteStarts, RemoteStep, PTL DEF RemoteSpec

\* The state keeps its shape.
THEOREM RemoteTypes == RemoteSpec => []RemoteTypeOK
<1>1. RemoteInv => RemoteTypeOK
  BY DEF RemoteInv, RemoteTypeOK, SessionsTyped, CallersTyped, CallsTyped, AgentTyped, CompletedOK
<1> QED
  BY <1>1, RemoteInvariant, PTL

\* As many slots are taken as there are sessions, and never more than the limit,
\* however requests that expire, restore, finish and cancel a session interleave.
THEOREM SlotsAreAccounted == RemoteSpec => []SlotsAccounted
<1>1. RemoteInv => SlotsAccounted
  BY DEF RemoteInv, SlotsOK, Taken, SlotsAccounted
<1> QED
  BY <1>1, RemoteInvariant, PTL

\* A browser is told that an upload is complete only after it was published, or
\* when its target had the same size before.
THEOREM CompletionIsStored == RemoteSpec => []CompleteMeansStored
<1>1. RemoteInv => CompleteMeansStored
  BY DEF RemoteInv, CompletedOK
<1> QED
  BY <1>1, RemoteInvariant, PTL

\* What appears at a target is the whole upload: a commit renames the part file
\* only when every chunk that counts is in it, or finds it removed.
THEOREM WholeIsPublished == RemoteSpec => PublishedWhole
<1>1. ASSUME RemoteInv, [RemoteNext]_remoteVars
      PROVE  [\A u \in Uploads : target[u] = {} => target'[u] \in {{}, Parts}]_remoteVars
  <2> SUFFICES ASSUME RemoteNext, NEW u \in Uploads, target[u] = {}, target'[u] # {}
               PROVE  target'[u] = Parts
    BY <1>1
  <2>1. ~UNCHANGED target
    OBVIOUS
  <2> USE DEF agentState
  <2>2. ASSUME NEW h \in Callers, NEW w \in Uploads, NEW kind, NEW part,
               \/ InitUpload(w) \/ LookUp(h, w, kind, part) \/ CheckExpiry(h)
               \/ RemoveExpired(h) \/ RestoreSession(h) \/ InsertRestored(h)
        PROVE  UNCHANGED target
    BY <2>2 DEF InitUpload, LookUp, CheckExpiry, RemoveExpired, RestoreSession, InsertRestored
  <2>3. ASSUME NEW h \in Callers,
               \/ StartChunk(h) \/ StartMerge(h) \/ StartCancel(h) \/ EndChunk(h)
               \/ MergeAnswered(h) \/ MergeUnknown(h) \/ StatAnswered(h) \/ MergeFailed(h)
               \/ EndCancel(h)
        PROVE  UNCHANGED target
    BY <2>3 DEF StartChunk, StartMerge, StartCancel, EndChunk, MergeAnswered, MergeUnknown,
                StatAnswered, MergeFailed, EndCancel
  <2>4. ASSUME NEW i \in CallIds,
               \/ StreamBegins(i) \/ StreamChecks(i) \/ StreamOpens(i) \/ StreamWrites(i)
               \/ StreamRecords(i) \/ StreamBreaks(i) \/ CommitWaits(i) \/ CommitChecks(i)
               \/ CommitForgets(i) \/ CancelBegins(i) \/ CancelRemoves(i) \/ StatReplies(i)
        PROVE  UNCHANGED target
    BY <2>4 DEF StreamBegins, StreamChecks, StreamOpens, StreamWrites, StreamRecords,
                StreamBreaks, CommitWaits, CommitChecks, CommitForgets, CancelBegins,
                CancelRemoves, StatReplies
  <2>5. ASSUME AgentRestart \/ PanelRestart \/ UploadTick PROVE UNCHANGED target
    BY <2>5 DEF AgentRestart, PanelRestart, UploadTick
  <2>6. \A w \in Uploads : ~InitUpload(w)
    BY <2>1 DEF InitUpload
  <2>7. PICK i \in CallIds : CommitRenames(i)
    BY <2>1, <2>2, <2>3, <2>4, <2>5, <2>6 DEF RemoteNext
  <2>8. calls[i].on = u
    <3>1. target' = [target EXCEPT ![calls[i].on] = partFile[calls[i].on].data]
      BY <2>1, <2>7 DEF CommitRenames
    <3> QED
      BY <1>1, <3>1 DEF RemoteInv, AgentTyped
  <2> QED
    BY <1>1, <2>7, <2>8, RenamesWhole
<1> QED
  BY <1>1, RemoteInvariant, PTL DEF RemoteSpec, PublishedWhole
=============================================================================
