---------------------------- MODULE MetricIngest ----------------------------
(***************************************************************************)
(* How one node's reports become minute and coarse rollups                  *)
(* (internal/metricstore/report_batcher.go, compaction.go, store.go and     *)
(* pkg/metric/raw_points.go, hot_rollup.go, coarse_rollup.go,               *)
(* rollup_store.go, store.go).                                              *)
(*                                                                          *)
(* The batcher keeps accepted reports in memory until Store.WriteBatch      *)
(* succeeds and retries a failed batch unchanged.  WriteBatch first puts    *)
(* each sample into the volatile raw window and into the minute bucket in   *)
(* memory, then persists closed minutes, then seals coarse parents; it      *)
(* fails when one of the two database steps does, with its samples already  *)
(* in memory.  A sample found in the raw window is an upsert: its minute is *)
(* rebuilt from raw and will replace the stored row instead of merging into *)
(* it.  The compactor runs the same two database steps on a schedule, and    *)
(* each thread goes by the clock it read when it began.                     *)
(*                                                                          *)
(* One series of one label set and one coarse tier are modelled.  A sample  *)
(* is its timestamp, and a bucket is the number of times it counts each     *)
(* sample: what the count, the sum and the digest are made of.              *)
(***************************************************************************)
EXTENDS Integers, FiniteSets

CONSTANTS
    MinuteTicks,     \* clock ticks in a minute
    ParentMinutes,   \* minutes in a coarse bucket: 5 in the default policy
    RawMinutes,      \* rawMemoryRetention in minutes: 10 in the code
    GraceMinutes,    \* coarseRollupGrace in minutes: 10 in the code
    BatchSize,       \* reportBatchMaxRecords: 256 in the code
    QueueSize,       \* reportBatchQueueSize: 4096 in the code
    MaxTime,         \* bound: the clock stops there
    MaxReports,      \* bound: reports accepted
    MaxIngestFaults, \* bound: database steps that fail
    MaxRestarts      \* bound: crashes, restarts and reloads

ASSUME TicksPositive == MinuteTicks \in Nat \ {0} /\ ParentMinutes \in Nat \ {0}
ASSUME WindowsNatural == RawMinutes \in Nat /\ GraceMinutes \in Nat
ASSUME IngestLimits == BatchSize \in Nat \ {0} /\ QueueSize \in Nat \ {0}
ASSUME IngestBounds == /\ MaxTime \in Nat /\ MaxReports \in Nat
                       /\ MaxIngestFaults \in Nat /\ MaxRestarts \in Nat

VARIABLES
    now,          \* the clock
    mode,         \* "running", "stopping" (StopReportBatcher), "drained"
    waiting,      \* reports in the queue or in the worker's pending list
    batch,        \* reports of a WriteBatch between its two database steps
    writeNow,     \* the time that WriteBatch goes by
    compactor,    \* "idle", "flush" before Flush, "seal" before FlushCoarse
    compactNow,   \* the time Compact was called with
    raw,          \* Store.raw: samples of the last ten minutes
    hot,          \* Store.hot: [Times -> Nat], minute buckets in memory
    replace,      \* Store.hotReplace: minutes that will replace their row
    minuteRow,    \* database: [Times -> Nat], the minute tier
    coarse,       \* Store.coarse: [Times -> Nat], children of unsealed parents
    parentRow,    \* database: [Times -> Nat], the coarse tier
    sealed,       \* database: parents that have a row
    reported,     \* history: reports accepted
    acked,        \* history: reports whose WriteBatch succeeded
    late,         \* history: minutes that a write or a flush reached too late
    cut,          \* history: minutes a crash, restart or reload cut through
    missed,       \* history: minutes a replaced store wrote behind its successor
    ingestFaults, \* database failures so far
    restarts      \* crashes, restarts and reloads so far

workVars == <<mode, waiting, batch, writeNow, compactor, compactNow>>
memoryVars == <<raw, hot, replace, coarse>>
rowVars == <<minuteRow, parentRow, sealed>>
historyVars == <<reported, acked, late, cut, missed>>
boundVars == <<ingestFaults, restarts>>
ingestVars == <<now, workVars, memoryVars, rowVars, historyVars, boundVars>>

Times == 0..MaxTime
MinuteOf(t) == t \div MinuteTicks
ParentTicks == MinuteTicks * ParentMinutes
ParentOf(t) == t \div ParentTicks
Minutes == 0..MinuteOf(MaxTime)
Parents == 0..ParentOf(MaxTime)

Empty == [t \in Times |-> 0]

\* Minutes a bucket map holds something for.
Held(counts) == {MinuteOf(t) : t \in {u \in Times : counts[u] > 0}}

\* Minutes of a bucket map that have ended: flushBefore of
\* flushClosedHotRollupsUnderView.
Closed(counts, at) == {m \in Held(counts) : m < MinuteOf(at)}

IngestInit ==
    /\ now = 0 /\ mode = "running"
    /\ waiting = {} /\ batch = {} /\ writeNow = 0
    /\ compactor = "idle" /\ compactNow = 0
    /\ raw = {} /\ hot = Empty /\ replace = {} /\ coarse = Empty
    /\ minuteRow = Empty /\ parentRow = Empty /\ sealed = {}
    /\ reported = {} /\ acked = {} 
    /\ late = {} /\ cut = {} /\ missed = {}
    /\ ingestFaults = 0 /\ restarts = 0

IngestFault == ingestFaults < MaxIngestFaults /\ ingestFaults' = ingestFaults + 1
NoIngestFault == UNCHANGED ingestFaults

-----------------------------------------------------------------------------
(* Minute buckets. *)

\* rawMemoryCutoff: the oldest minute of the window is kept whole.
InRawWindow(t, at) == MinuteOf(t) >= MinuteOf(at - RawMinutes * MinuteTicks)
TrimmedRaw(at) == {t \in raw : InRawWindow(t, at)}

\* The end of a parent and the late-arrival window after it have passed.
PastGrace(p, at) == (p + 1) * ParentTicks + GraceMinutes * MinuteTicks <= at

\* addMinuteParents: a parent this old takes no more children.
Refuses(p, at) == PastGrace(p, at)

\* Minutes that samples reach after they left the raw window, and minutes whose
\* rows are written after their parent's grace.
TooLate(samples, flushed, at) ==
    {MinuteOf(t) : t \in {u \in samples : ~InRawWindow(u, at)}}
        \union {MinuteOf(t) : t \in {u \in Times : MinuteOf(u) \in flushed
                                                /\ PastGrace(ParentOf(u), at)}}

\* A rebuilt minute overwrites its row, any other merges into it.
RowAfter(memory, replacing, t) ==
    IF MinuteOf(t) \in replacing THEN memory[t] ELSE minuteRow[t] + memory[t]

\* persistHotRollups commits the flushed minutes and hands their rows to the
\* unsealed parents.
PersistHotRollups(memory, replacing, flushed, at) ==
    /\ minuteRow' = [t \in Times |-> IF MinuteOf(t) \in flushed
                                     THEN RowAfter(memory, replacing, t) ELSE minuteRow[t]]
    /\ coarse' = [t \in Times |-> IF MinuteOf(t) \in flushed /\ ~Refuses(ParentOf(t), at)
                                  THEN RowAfter(memory, replacing, t) ELSE coarse[t]]
    /\ hot' = [t \in Times |-> IF MinuteOf(t) \in flushed THEN 0 ELSE memory[t]]
    /\ replace' = replacing \ flushed

\* restoreHotRollups: ingestMu is held, so nothing was added meanwhile.
RestoreHotRollups(memory, replacing) ==
    hot' = memory /\ replace' = replacing /\ UNCHANGED <<minuteRow, coarse>>

-----------------------------------------------------------------------------
(* Coarse parents. *)

Filling == {ParentOf(t) : t \in {u \in Times : coarse[u] > 0}}

\* A parent is written once its end has passed (a mutant of Due).
DueOnceEnded(at) == {p \in Filling : (p + 1) * ParentTicks <= at}

\* takeClosedCoarseRollups.
Due(at) == {p \in Filling : PastGrace(p, at)}

\* upsertClosedCoarseBucketsTx writes the due parents.
SealParents(at) ==
    /\ parentRow' = [t \in Times |-> IF ParentOf(t) \in Due(at) THEN coarse[t]
                                     ELSE parentRow[t]]
    /\ coarse' = [t \in Times |-> IF ParentOf(t) \in Due(at) THEN 0 ELSE coarse[t]]
    /\ sealed' = sealed \union Due(at)
    /\ UNCHANGED <<raw, hot, replace, minuteRow>>

\* The write of the parents fails and restoreClosedCoarseRollups keeps them.
SealFails(at) == Due(at) # {} /\ IngestFault /\ UNCHANGED <<memoryVars, rowVars>>

-----------------------------------------------------------------------------
(* The batcher. *)

OldestTicks(S, n) == {t \in S : Cardinality({u \in S : u < t}) < n}

\* WriteReport: one report of the node a tick, stamped with the receive time.
WriteReport ==
    /\ mode = "running"
    /\ now \notin reported /\ Cardinality(reported) < MaxReports
    /\ Cardinality(waiting) < QueueSize
    /\ waiting' = waiting \union {now} /\ reported' = reported \union {now}
    /\ UNCHANGED <<now, mode, batch, writeNow, compactor, compactNow, memoryVars, rowVars,
                   acked, late, cut, missed, boundVars>>

\* Reports stay in the pending list until they are written.
BatchStarts(samples) ==
    batch' = samples /\ writeNow' = now /\ UNCHANGED <<mode, waiting>>

\* The worker keeps a failed batch for the next tick; a stopping worker has
\* flushed once and returns.
BatchFails ==
    /\ batch' = {} /\ writeNow' = 0
    /\ IF mode = "running" THEN UNCHANGED <<mode, waiting>>
                           ELSE mode' = "drained" /\ waiting' = {}

\* Every sample taken as new (a mutant of Upserts).
NoUpserts(samples) == {}

\* Samples the raw window had already.
Upserts(samples) == {t \in samples : t \in TrimmedRaw(now)}

\* writePendingReports for one batch, Store.WriteBatch up to the commit of the
\* closed minutes.
WriteMinutes ==
    LET samples == OldestTicks(waiting, BatchSize)
        window == TrimmedRaw(now) \union {t \in samples : InRawWindow(t, now)}
        rebuilt == {MinuteOf(t) : t \in Upserts(samples)}
        memory == [t \in Times |-> IF MinuteOf(t) \in rebuilt
                                   THEN (IF t \in window THEN 1 ELSE 0)
                                   ELSE IF t \in samples THEN hot[t] + 1 ELSE hot[t]]
        flushed == Closed(memory, now)
    IN  /\ mode \in {"running", "stopping"} /\ batch = {} /\ waiting # {}
        /\ raw' = window
        /\ \/ /\ PersistHotRollups(memory, replace \union rebuilt, flushed, now) /\ NoIngestFault
              /\ late' = late \union TooLate(samples, flushed, now)
              /\ BatchStarts(samples)
           \/ /\ flushed # {} /\ IngestFault
              /\ RestoreHotRollups(memory, replace \union rebuilt)
              /\ late' = late \union TooLate(samples, {}, now)
              /\ BatchFails
        /\ UNCHANGED <<now, compactor, compactNow, parentRow, sealed, reported, acked, cut,
                       missed, restarts>>

\* The rest of WriteBatch, and the worker forgets the batch.
WriteSeal ==
    /\ batch # {}
    /\ \/ /\ SealParents(writeNow) /\ NoIngestFault
          /\ waiting' = waiting \ batch /\ acked' = acked \union batch
          /\ batch' = {} /\ writeNow' = 0 /\ UNCHANGED mode
       \/ SealFails(writeNow) /\ BatchFails /\ UNCHANGED acked
    /\ UNCHANGED <<now, compactor, compactNow, reported, late, cut, missed, restarts>>

\* StopReportBatcher: no more reports, one last flush.
StopBatcher ==
    /\ mode = "running" /\ batch = {} /\ restarts < MaxRestarts
    /\ mode' = "stopping"
    /\ UNCHANGED <<now, waiting, batch, writeNow, compactor, compactNow, memoryVars, rowVars,
                   historyVars, boundVars>>

-----------------------------------------------------------------------------
(* The scheduled compactor: Flush, then FlushCoarse, both by the clock read  *)
(* before Compact waits for the store.                                      *)

CompactStart ==
    /\ compactor = "idle"
    /\ compactor' = "flush" /\ compactNow' = now
    /\ UNCHANGED <<now, mode, waiting, batch, writeNow, memoryVars, rowVars, historyVars,
                   boundVars>>

CompactEnds == compactor' = "idle" /\ compactNow' = 0

CompactFlush ==
    /\ compactor = "flush" /\ batch = {}
    /\ raw' = TrimmedRaw(compactNow)
    /\ \/ /\ PersistHotRollups(hot, replace, Closed(hot, compactNow), compactNow) /\ NoIngestFault
          /\ late' = late \union TooLate({}, Closed(hot, compactNow), compactNow)
          /\ compactor' = "seal" /\ UNCHANGED compactNow
       \/ /\ Closed(hot, compactNow) # {} /\ IngestFault
          /\ RestoreHotRollups(hot, replace)
          /\ CompactEnds /\ UNCHANGED late
    /\ UNCHANGED <<now, mode, waiting, batch, writeNow, parentRow, sealed, reported, acked,
                   cut, missed, restarts>>

CompactSeal ==
    /\ compactor = "seal" /\ batch = {}
    /\ CompactEnds
    /\ (SealParents(compactNow) /\ NoIngestFault) \/ SealFails(compactNow)
    /\ UNCHANGED <<now, mode, waiting, batch, writeNow, historyVars, restarts>>

-----------------------------------------------------------------------------
(* Restarts. *)

\* Store.Close persists every minute, the open one too; what fails is lost.
CloseStore ==
    /\ \/ NoIngestFault /\ minuteRow' = [t \in Times |-> RowAfter(hot, replace, t)]
       \/ Held(hot) # {} /\ IngestFault /\ UNCHANGED minuteRow
    /\ cut' = cut \union Held(hot) \union {MinuteOf(t) : t \in waiting \union {now}}

\* Nothing is read back (a mutant of Recovered).
NotRecovered(rows) == Empty

\* recoverPendingCoarseRollups: the stored minutes of parents that have no row.
Recovered(rows) == [t \in Times |-> IF ParentOf(t) \in sealed THEN 0 ELSE rows[t]]

\* Open finds these rows.
OpenStore(rows) ==
    /\ raw' = {} /\ hot' = Empty /\ replace' = {} /\ coarse' = Recovered(rows)
    /\ restarts' = restarts + 1
    /\ UNCHANGED <<now, parentRow, sealed, reported, acked>>

\* An orderly restart, once the batcher has stopped.
RestartPanel ==
    /\ mode = "drained" \/ (mode = "stopping" /\ waiting = {})
    /\ batch = {} /\ compactor # "seal"
    /\ mode' = "running"
    /\ CloseStore /\ OpenStore(minuteRow') /\ CompactEnds
    /\ UNCHANGED <<waiting, batch, writeNow, late, missed>>

\* Reload opens the new store before it closes the old one, under the running
\* batcher; a Compact that waits for the store goes on with the new one.
Reload ==
    /\ mode = "running" /\ batch = {} /\ compactor # "seal" /\ restarts < MaxRestarts
    /\ CloseStore /\ OpenStore(minuteRow)
    /\ missed' = missed \union Held(hot) /\ late' = late \union TooLate({}, Held(hot), now)
    /\ UNCHANGED <<mode, waiting, batch, writeNow, compactor, compactNow>>

\* The process dies at any moment and starts again.
Crash ==
    /\ restarts < MaxRestarts
    /\ mode' = "running" /\ waiting' = {} /\ batch' = {} /\ writeNow' = 0
    /\ cut' = cut \union Held(hot) \union {MinuteOf(now)}
    /\ OpenStore(minuteRow) /\ CompactEnds
    /\ UNCHANGED <<minuteRow, late, missed, ingestFaults>>

-----------------------------------------------------------------------------
Tick ==
    /\ now < MaxTime
    /\ now' = now + 1
    /\ UNCHANGED <<workVars, memoryVars, rowVars, historyVars, boundVars>>

Worker == WriteMinutes \/ WriteSeal
Compactor == CompactStart \/ CompactFlush \/ CompactSeal

IngestNext ==
    \/ Tick \/ WriteReport \/ Worker \/ StopBatcher \/ Compactor
    \/ RestartPanel \/ Reload \/ Crash

IngestSpec == IngestInit /\ [][IngestNext]_ingestVars

-----------------------------------------------------------------------------
(* Type invariant. *)

Counts == [Times -> Nat]

TypeWork ==
    /\ mode \in {"running", "stopping", "drained"}
    /\ waiting \subseteq Times /\ batch \subseteq Times /\ writeNow \in Times
    /\ compactor \in {"idle", "flush", "seal"} /\ compactNow \in Times

TypeStore ==
    /\ raw \subseteq Times /\ hot \in Counts /\ replace \subseteq Minutes
    /\ coarse \in Counts /\ minuteRow \in Counts
    /\ parentRow \in Counts /\ sealed \subseteq Parents

TypeHistory ==
    /\ now \in Times
    /\ reported \subseteq Times /\ acked \subseteq Times
    /\ late \subseteq Minutes /\ cut \subseteq Minutes /\ missed \subseteq Minutes
    /\ ingestFaults \in Nat /\ restarts \in Nat

\* Every variable has its type, the batch being written is among the reports
\* that wait (writePendingReports removes a prefix only once it is written), and
\* no more reports wait than enqueue admits.
IngestTypeOK ==
    /\ TypeWork /\ TypeStore /\ TypeHistory
    /\ batch \subseteq waiting /\ Cardinality(waiting) <= QueueSize

-----------------------------------------------------------------------------
(* Safety. *)

\* What the minute tier will hold of a sample once memory is flushed.
Total(t) == RowAfter(hot, replace, t)

\* A sample is counted once however often its batch was retried and whichever
\* of the worker and the compactor flushed its minute: never twice, not before
\* it was reported, and exactly once when WriteBatch has succeeded.  Two kinds
\* of minutes are excepted, both because raw samples are volatile: those that a
\* crash, a restart or a reload cut through, and those written after they left
\* the raw window.
CountedOnce ==
    \A t \in Times : MinuteOf(t) \notin late \union cut =>
        /\ Total(t) <= (IF t \in reported THEN 1 ELSE 0)
        /\ t \in acked => Total(t) = 1

\* Parents none of whose minutes came late or was stored behind a reload.
TicksOf(p) == {t \in Times : ParentOf(t) = p}
Timely == {p \in Parents : \A t \in TicksOf(p) : MinuteOf(t) \notin late \union missed}

\* A sealed parent holds exactly what its stored minutes hold, although it is
\* built from snapshots of them, by two threads with clocks of their own and
\* across crashes and restarts.  Excepted are parents with a late minute, which
\* a sealed parent refuses, or with one that a reload stored too late.
ParentMatchesMinutes ==
    \A p \in sealed \intersect Timely : \A t \in TicksOf(p) : parentRow[t] = minuteRow[t]

\* "A parent that has already sealed must remain immutable"
\* (coarse_rollup.go:48), through late samples, retries and restarts.
SealedForGood ==
    [][\A t \in Times : ParentOf(t) \in sealed => parentRow'[t] = parentRow[t]]_ingestVars

\* What is stored stays due: every minute stored in time is among the children
\* of its parent until the parent is sealed, so that a series that stops
\* reporting is still sealed (coarse_rollup.go:446-447).
StoredIsPending ==
    \A p \in Timely \ sealed : \A t \in TicksOf(p) : coarse[t] = minuteRow[t]

\* "Pending parents are reconstructed from durable child buckets on reopen"
\* (pkg/metric/store.go:452): a sealed parent holds every minute that was stored
\* in time, also when a reload reopened the store.
ReopenRecovers ==
    \A t \in Times :
        ParentOf(t) \in sealed /\ MinuteOf(t) \notin late => parentRow[t] = minuteRow[t]
=============================================================================
