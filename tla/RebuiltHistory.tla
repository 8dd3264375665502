---------------------------- MODULE RebuiltHistory ----------------------------
(***************************************************************************)
(* What the upgrade guide makes of the history of a legacy metric store     *)
(* (pkg/metric/restructure.go), and what the store that is opened on the    *)
(* rebuilt tables does with it (coarse_rollup.go, rollup_store.go).         *)
(*                                                                          *)
(* Restructure replays the raw points of the old tables through WriteBatch  *)
(* of a shadow store, then overwrites what that made with the old rollup    *)
(* rows, recomputes every day that has hourly rows, runs Compact once and   *)
(* switches the tables.  The panel then opens the live store, which reads   *)
(* the children of parents without a row back into memory and goes on       *)
(* sealing.  A stage that fails leaves its shadow tables to the next run.   *)
(*                                                                          *)
(* One series is modelled, in the minute, hour and day tiers.  A sample is  *)
(* its minute, and a row is the number of times it counts each sample.      *)
(* Retention deletes nothing here: what had expired before the upgrade is   *)
(* absent from the legacy rows.  A minute is stored as it is reported; the  *)
(* minutes that are still in memory are MetricIngest's subject.             *)
(***************************************************************************)
EXTENDS Integers, FiniteSets

CONSTANTS
    HourTicks,      \* minutes in an hour
    DayHours,       \* hours in a day
    SealGrace,      \* coarseRollupGrace in minutes
    PointBatch,     \* batchSize of copyLegacyPoints: 1000 in the code
    LegacyKinds,    \* legacy tables with "points", with "rollups", with "both"
    UpgradeTime,    \* bound: samples the legacy tables may hold, 0..UpgradeTime-1
    LastTick,       \* bound: the clock stops there
    MaxAborts,      \* bound: runs of the guide that fail
    MaxReopens      \* bound: restarts of the rebuilt store

ASSUME BucketsPositive == HourTicks \in Nat \ {0} /\ DayHours \in Nat \ {0}
ASSUME BatchPositive == PointBatch \in Nat \ {0} /\ SealGrace \in Nat
ASSUME LegacyKnown == LegacyKinds \subseteq {"points", "rollups", "both"}
ASSUME HistoryBounds == /\ UpgradeTime \in Nat /\ LastTick \in Nat /\ UpgradeTime <= LastTick
                        /\ MaxAborts \in Nat /\ MaxReopens \in Nat

VARIABLES
    clock,      \* time.Now
    stage,      \* the step Restructure is at; "guide" between runs, "serving" after
    legacy,     \* the old tables: points, and the rows of three tiers
    copied,     \* points copyLegacyPoints has read in this run
    shadow,     \* the rebuild_ tables and the memory of the store on them
    rebuilt,    \* the rebuilt tables and the memory of the store on them
    stored,     \* history: samples reported since the upgrade
    aborts,     \* runs that failed so far
    reopens     \* restarts so far

rebuiltVars == <<clock, stage, legacy, copied, shadow, rebuilt, stored, aborts, reopens>>

Samples == 0..LastTick
HourOf(t) == t \div HourTicks
DayOf(t) == t \div (HourTicks * DayHours)

Nothing == [t \in Samples |-> 0]
Row(S) == [t \in Samples |-> IF t \in S THEN 1 ELSE 0]
HeldIn(rows) == {t \in Samples : rows[t] > 0}
HoursIn(rows) == {HourOf(t) : t \in HeldIn(rows)}
DaysIn(rows) == {DayOf(t) : t \in HeldIn(rows)}

HourDue(h, at) == (h + 1) * HourTicks + SealGrace <= at
DayDue(d, at) == (d + 1) * HourTicks * DayHours + SealGrace <= at

\* A store on these tables that has just been opened without AutoMigrate.
Opened(minute, hour, day) ==
    [minute |-> minute, hour |-> hour, day |-> day,
     hourKids |-> Nothing, dayKids |-> Nothing, pending |-> TRUE]

-----------------------------------------------------------------------------
(* The store. *)

\* persistHotRollups and addMinuteParents: stored minutes become children of
\* the hours that are not past their grace.
Persisted(st, S, at) ==
    LET minute == [t \in Samples |-> IF t \in S THEN st.minute[t] + 1 ELSE st.minute[t]]
    IN  [st EXCEPT !.minute = minute,
                   !.hourKids = [t \in Samples |-> IF t \in S /\ ~HourDue(HourOf(t), at)
                                                   THEN minute[t] ELSE @[t]]]

\* recoverPendingCoarseRollups, once in the life of a store: the children of
\* parents that have no row.
Reloaded(st) ==
    IF ~st.pending THEN st
    ELSE [st EXCEPT
            !.pending = FALSE,
            !.hourKids = [t \in Samples |-> IF HourOf(t) \in HoursIn(st.hour) THEN @[t]
                                            ELSE st.minute[t]],
            !.dayKids = [t \in Samples |-> IF HourOf(t) \in HoursIn(st.hour)
                                              /\ DayOf(t) \notin DaysIn(st.day)
                                           THEN st.hour[t] ELSE @[t]]]

\* takeClosedCoarseRollups and upsertClosedCoarseBucketsTx for the hours that
\* are due; a sealed hour becomes a child of its day, whatever row the day has.
HoursSealed(st, at) ==
    LET due == {t \in Samples : /\ HourOf(t) \in HoursIn(st.hourKids)
                                /\ HourDue(HourOf(t), at)}
    IN  [st EXCEPT
            !.hour = [t \in Samples |-> IF t \in due THEN st.hourKids[t] ELSE @[t]],
            !.dayKids = [t \in Samples |-> IF t \in due THEN st.hourKids[t] ELSE @[t]],
            !.hourKids = [t \in Samples |-> IF t \in due THEN 0 ELSE @[t]]]

\* The days that are due, hours sealed a moment ago included.
DaysSealed(st, at) ==
    LET due == {t \in Samples : DayOf(t) \in DaysIn(st.dayKids) /\ DayDue(DayOf(t), at)}
    IN  [st EXCEPT
            !.day = [t \in Samples |-> IF t \in due THEN st.dayKids[t] ELSE @[t]],
            !.dayKids = [t \in Samples |-> IF t \in due THEN 0 ELSE @[t]]]

\* flushClosedCoarseRollups.
Sealed(st, at) == DaysSealed(HoursSealed(Reloaded(st), at), at)

-----------------------------------------------------------------------------
(* The legacy tables. *)

\* What the old version left of the samples it saw: points from one time on, and
\* rows of the buckets that had ended before another, minus what had expired of
\* each tier.  Whole hours expire; days are kept.
LegacyTables(seen, pointsFrom, minutesFrom, hoursFrom, foldedTo) ==
    [points |-> {t \in seen : pointsFrom <= t},
     minute |-> Row({t \in seen : minutesFrom <= t /\ t < foldedTo}),
     hour |-> Row({t \in seen : hoursFrom <= HourOf(t) /\ HourOf(t) < HourOf(foldedTo)}),
     day |-> Row({t \in seen : DayOf(t) < DayOf(foldedTo)})]

KindOf(tables) == IF tables.minute = Nothing /\ tables.hour = Nothing /\ tables.day = Nothing
                  THEN "points"
                  ELSE IF tables.points = {} THEN "rollups" ELSE "both"

\* Every sample is a point or in a row: points are deleted once folded.
LegacyInit ==
    \E seen \in SUBSET (0..UpgradeTime-1) \ {{}} :
    \E foldedTo, pointsFrom, minutesFrom \in 0..UpgradeTime :
    \E hoursFrom \in 0..HourOf(UpgradeTime) :
        /\ pointsFrom <= foldedTo
        /\ hoursFrom * HourTicks <= minutesFrom
        /\ foldedTo > 0 => hoursFrom * HourTicks <= pointsFrom
        /\ legacy = LegacyTables(seen, pointsFrom, minutesFrom, hoursFrom, foldedTo)
        /\ KindOf(legacy) \in LegacyKinds

HistoryInit ==
    /\ clock = UpgradeTime /\ stage = "guide"
    /\ LegacyInit
    /\ copied = {} /\ shadow = Opened(Nothing, Nothing, Nothing)
    /\ rebuilt = Opened(Nothing, Nothing, Nothing)
    /\ stored = {} /\ aborts = 0 /\ reopens = 0

-----------------------------------------------------------------------------
(* The rebuild. *)

\* A run that finds the shadow tables of the one before (a mutant of
\* EmptyShadow).
LeftoverShadow == Opened(shadow.minute, shadow.hour, shadow.day)

\* dropNormalizedTables and Migrate of the shadow.
EmptyShadow == Opened(Nothing, Nothing, Nothing)

RebuildStarts ==
    /\ stage = "guide"
    /\ stage' = "points" /\ copied' = {} /\ shadow' = EmptyShadow
    /\ UNCHANGED <<clock, legacy, rebuilt, stored, aborts, reopens>>

Eldest(S, n) == {t \in S : Cardinality({u \in S : u < t}) < n}

\* copyLegacyPoints, one batch through WriteBatch.
CopyLegacyPoints ==
    /\ stage = "points" /\ copied # legacy.points
    /\ LET batch == Eldest(legacy.points \ copied, PointBatch)
       IN  /\ copied' = copied \union batch
           /\ shadow' = Sealed(Persisted(shadow, batch, clock), clock)
    /\ UNCHANGED <<clock, stage, legacy, rebuilt, stored, aborts, reopens>>

\* upsertNormalizedRollupRowsTx: these buckets get the old row.
Overwritten(rows, old, buckets) ==
    [t \in Samples |-> IF t \in buckets THEN old[t] ELSE rows[t]]

\* copyLegacyRollups; the children in memory stay what the points made them.
CopyLegacyRollups ==
    /\ stage = "points" /\ copied = legacy.points
    /\ stage' = "daily"
    /\ shadow' = [shadow EXCEPT
         !.minute = Overwritten(@, legacy.minute, HeldIn(legacy.minute)),
         !.hour = Overwritten(@, legacy.hour,
                              {t \in Samples : HourOf(t) \in HoursIn(legacy.hour)}),
         !.day = Overwritten(@, legacy.day,
                             {t \in Samples : DayOf(t) \in DaysIn(legacy.day)})]
    /\ UNCHANGED <<clock, legacy, copied, rebuilt, stored, aborts, reopens>>

\* The samples of days with an hourly row.
BackedDays(hour) == {t \in Samples : DayOf(t) \in DaysIn(hour)}

\* rebuildDailyRollups.
RebuildDailyRollups ==
    /\ stage = "daily"
    /\ stage' = "compact"
    /\ shadow' = [shadow EXCEPT !.day = Overwritten(@, shadow.hour, BackedDays(shadow.hour))]
    /\ UNCHANGED <<clock, legacy, copied, rebuilt, stored, aborts, reopens>>

\* Compact of the shadow.
CompactShadow ==
    /\ stage = "compact"
    /\ stage' = "switch" /\ shadow' = Sealed(shadow, clock)
    /\ UNCHANGED <<clock, legacy, copied, rebuilt, stored, aborts, reopens>>

\* replaceLegacyTables; the shadow store is closed, then the panel opens the
\* live one with AutoMigrate.
SwitchTables ==
    /\ stage = "switch"
    /\ stage' = "serving"
    /\ rebuilt' = Reloaded(Opened(shadow.minute, shadow.hour, shadow.day))
    /\ shadow' = EmptyShadow
    /\ UNCHANGED <<clock, legacy, copied, stored, aborts, reopens>>

\* A stage fails or the panel dies; the guide is offered again.
RebuildAborts ==
    /\ stage \in {"points", "daily", "compact", "switch"} /\ aborts < MaxAborts
    /\ stage' = "guide" /\ aborts' = aborts + 1
    /\ UNCHANGED <<clock, legacy, copied, shadow, rebuilt, stored, reopens>>

-----------------------------------------------------------------------------
(* The rebuilt store. *)

\* A report, stored and sealed by WriteBatch.
ReportStored ==
    /\ stage = "serving" /\ clock \notin stored
    /\ stored' = stored \union {clock}
    /\ rebuilt' = Sealed(Persisted(rebuilt, {clock}, clock), clock)
    /\ UNCHANGED <<clock, stage, legacy, copied, shadow, aborts, reopens>>

\* The scheduled compaction, when it has something to seal.
CompactLive ==
    /\ stage = "serving" /\ Sealed(rebuilt, clock) # rebuilt
    /\ rebuilt' = Sealed(rebuilt, clock)
    /\ UNCHANGED <<clock, stage, legacy, copied, shadow, stored, aborts, reopens>>

\* Close and Open.
ReopenLive ==
    /\ stage = "serving" /\ reopens < MaxReopens
    /\ reopens' = reopens + 1
    /\ rebuilt' = Reloaded(Opened(rebuilt.minute, rebuilt.hour, rebuilt.day))
    /\ UNCHANGED <<clock, stage, legacy, copied, shadow, stored, aborts>>

MinutePasses ==
    /\ clock < LastTick
    /\ clock' = clock + 1
    /\ UNCHANGED <<stage, legacy, copied, shadow, rebuilt, stored, aborts, reopens>>

HistoryNext ==
    \/ MinutePasses \/ RebuildStarts \/ CopyLegacyPoints \/ CopyLegacyRollups
    \/ RebuildDailyRollups \/ CompactShadow \/ SwitchTables \/ RebuildAborts
    \/ ReportStored \/ CompactLive \/ ReopenLive

HistorySpec == HistoryInit /\ [][HistoryNext]_rebuiltVars

-----------------------------------------------------------------------------
Tallies == [Samples -> Nat]
Stores == [minute : Tallies, hour : Tallies, day : Tallies,
           hourKids : Tallies, dayKids : Tallies, pending : BOOLEAN]

\* Every variable has its type, and a serving store has recovered.
HistoryTypeOK ==
    /\ clock \in UpgradeTime..LastTick
    /\ stage \in {"guide", "points", "daily", "compact", "switch", "serving"}
    /\ legacy.points \subseteq Samples /\ copied \subseteq legacy.points
    /\ {legacy.minute, legacy.hour, legacy.day} \subseteq Tallies
    /\ {shadow, rebuilt} \subseteq Stores /\ stored \subseteq Samples
    /\ aborts \in 0..MaxAborts /\ reopens \in 0..MaxReopens
    /\ stage = "serving" => ~rebuilt.pending

\* The upgrade loses and doubles nothing, however the old points and rows
\* overlap and however often it was started over: in the finest tier that held
\* it, a sample is counted once.  Days that had lost some of their hours are
\* excepted: rebuildDailyRollups recomputes them from the hours that are left.
CopiedOnce ==
    stage = "serving" => \A t \in Samples :
        /\ t \in legacy.points \union HeldIn(legacy.minute) \union stored => rebuilt.minute[t] = 1
        /\ rebuilt.minute[t] <= 1
        /\ t \in HeldIn(legacy.hour) /\ HourDue(HourOf(t), UpgradeTime) => rebuilt.hour[t] = 1
        /\ t \in HeldIn(legacy.day) /\ DayOf(t) \notin DaysIn(legacy.hour)
             /\ DayOf(t) \notin {DayOf(u) : u \in legacy.points}
           => rebuilt.day[t] = 1

\* "upsertClosedCoarseBucketsTx writes a fully sealed parent exactly once"
\* (coarse_rollup.go:397): once a day is due and no child of it is left in
\* memory, its row holds all of its hours.
DayHoldsItsHours ==
    stage = "serving" => \A t \in Samples :
        /\ DayDue(DayOf(t), clock)
        /\ DayOf(t) \notin DaysIn(rebuilt.hourKids) \union DaysIn(rebuilt.dayKids)
        => rebuilt.day[t] >= rebuilt.hour[t]
=============================================================================
