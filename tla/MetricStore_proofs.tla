-------------------------- MODULE MetricStore_proofs --------------------------
(***************************************************************************)
(* The metric store for any widths of its buckets.                          *)
(*                                                                          *)
(* MetricIngest, for any windows, batch and queue sizes and any ingestFaults and  *)
(* restarts: a sample is counted once, what is stored stays due, and a      *)
(* sealed parent matches its minutes.                                       *)
(*                                                                          *)
(* RebuiltHistory, for any legacy tables, failed runs and restarts: the     *)
(* upgrade counts every sample once in the finest tier that held it.        *)
(***************************************************************************)
EXTENDS MetricIngest, RebuiltHistory, FiniteSetTheorems, TLAPS

-----------------------------------------------------------------------------
(* Division. *)

LEMMA DivIs ==
    ASSUME NEW x \in Int, NEW y \in Nat \ {0}
    PROVE  x \div y \in Int /\ (x \div y) * y <= x /\ x < ((x \div y) + 1) * y
  OBVIOUS

LEMMA Cancels ==
    ASSUME NEW a \in Int, NEW b \in Int, NEW y \in Nat \ {0}, a * y < b * y
    PROVE  a < b
  OBVIOUS

LEMMA DivBelow ==
    ASSUME NEW x \in Int, NEW k \in Int, NEW y \in Nat \ {0}, x < k * y
    PROVE  x \div y < k
<1>1. (x \div y) * y < k * y
  BY DivIs
<1> QED
  BY <1>1, DivIs, Cancels

LEMMA DivAbove ==
    ASSUME NEW x \in Int, NEW k \in Int, NEW y \in Nat \ {0}, k * y <= x
    PROVE  k <= x \div y
<1>1. k * y < (x \div y + 1) * y
  BY DivIs
<1>2. k < x \div y + 1
  BY <1>1, DivIs, Cancels
<1> QED
  BY <1>2, DivIs

LEMMA DivMonotone ==
    ASSUME NEW a \in Int, NEW b \in Int, NEW y \in Nat \ {0}, a <= b
    PROVE  a \div y <= b \div y
  BY DivIs, DivAbove

-----------------------------------------------------------------------------
(* Minutes, parents and windows. *)

LEMMA MinuteIs ==
    ASSUME NEW t \in Int
    PROVE  MinuteOf(t) \in Int
  BY TicksPositive, DivIs DEF MinuteOf

LEMMA MinuteLater ==
    ASSUME NEW a \in Int, NEW b \in Int, a <= b
    PROVE  MinuteOf(a) <= MinuteOf(b)
  BY TicksPositive, DivMonotone DEF MinuteOf

LEMMA ParentTicksPositive == ParentTicks \in Nat \ {0}
  BY TicksPositive DEF ParentTicks

LEMMA BucketsIn ==
    ASSUME NEW t \in Times
    PROVE  MinuteOf(t) \in Minutes /\ ParentOf(t) \in Parents /\ ParentOf(t) \in Nat
<1>1. t \in Int /\ 0 <= t /\ t <= MaxTime /\ MaxTime \in Int
  BY IngestBounds DEF Times
<1>2. MinuteOf(t) \in 0..MinuteOf(MaxTime)
  BY <1>1, TicksPositive, DivAbove, DivMonotone, DivIs DEF MinuteOf
<1>3. ParentOf(t) \in 0..ParentOf(MaxTime)
  BY <1>1, ParentTicksPositive, DivAbove, DivMonotone, DivIs DEF ParentOf
<1> QED
  BY <1>2, <1>3 DEF Minutes, Parents

\* A tick is before the minute that ends its parent.
LEMMA MinuteInParent ==
    ASSUME NEW t \in Times
    PROVE  MinuteOf(t) < (ParentOf(t) + 1) * ParentMinutes
<1>1. t \in Int /\ ParentOf(t) \in Nat
  BY BucketsIn DEF Times
<1>2. t < (ParentOf(t) + 1) * (MinuteTicks * ParentMinutes)
  BY <1>1, ParentTicksPositive, DivIs DEF ParentOf, ParentTicks
<1> DEFINE k == (ParentOf(t) + 1) * ParentMinutes
<1>3. (ParentOf(t) + 1) * (MinuteTicks * ParentMinutes) = k * MinuteTicks /\ k \in Int
  BY <1>1, TicksPositive
<1> HIDE DEF k
<1>4. MinuteOf(t) < k
  BY <1>1, <1>2, <1>3, TicksPositive, DivBelow DEF MinuteOf
<1> QED
  BY <1>4 DEF k

\* Once its parent's grace has passed, a minute has ended, and with a window
\* no longer than the grace it is out of the window.
WindowWithinGrace == RawMinutes <= GraceMinutes

LEMMA GraceMinute ==
    ASSUME NEW t \in Times, NEW at \in Nat, PastGrace(ParentOf(t), at)
    PROVE  MinuteOf(t) < MinuteOf(at - GraceMinutes * MinuteTicks)
<1> DEFINE k == (ParentOf(t) + 1) * ParentMinutes
           g == GraceMinutes * MinuteTicks
<1>1. ParentOf(t) \in Nat /\ k \in Int /\ g \in Nat
  BY BucketsIn, TicksPositive, WindowsNatural
<1>2. (ParentOf(t) + 1) * ParentTicks = k * MinuteTicks
  BY <1>1, TicksPositive DEF ParentTicks
<1>3. k * MinuteTicks <= at - g
  BY <1>1, <1>2, TicksPositive DEF PastGrace
<1>4. MinuteOf(t) < k
  BY MinuteInParent
<1>5. at - g \in Int
  BY <1>1
<1> HIDE DEF k, g
<1>6. k <= MinuteOf(at - g)
  BY <1>1, <1>3, <1>5, TicksPositive, DivAbove DEF MinuteOf
<1>7. MinuteOf(t) < MinuteOf(at - g)
  BY <1>1, <1>4, <1>5, <1>6, MinuteIs DEF Times
<1> QED
  BY <1>7 DEF g

LEMMA GraceOver ==
    ASSUME NEW t \in Times, NEW at \in Nat, NEW later \in Nat, at <= later,
           PastGrace(ParentOf(t), at)
    PROVE  /\ MinuteOf(t) < MinuteOf(at)
           /\ PastGrace(ParentOf(t), later)
           /\ WindowWithinGrace => ~InRawWindow(t, later)
<1>1. MinuteOf(t) < MinuteOf(at - GraceMinutes * MinuteTicks)
  BY GraceMinute
<1>2. /\ GraceMinutes * MinuteTicks \in Nat /\ RawMinutes * MinuteTicks \in Nat
      /\ WindowWithinGrace => RawMinutes * MinuteTicks <= GraceMinutes * MinuteTicks
  BY TicksPositive, WindowsNatural DEF WindowWithinGrace
<1>3. MinuteOf(t) < MinuteOf(at)
  <2>1. MinuteOf(at - GraceMinutes * MinuteTicks) <= MinuteOf(at)
    BY <1>2, MinuteLater
  <2> QED
    BY <1>1, <1>2, <2>1, MinuteIs DEF Times
<1>4. PastGrace(ParentOf(t), later)
  <2>1. (ParentOf(t) + 1) * ParentTicks \in Int
    BY BucketsIn, ParentTicksPositive
  <2> QED
    BY <1>2, <2>1 DEF PastGrace
<1>5. ASSUME WindowWithinGrace PROVE ~InRawWindow(t, later)
  <2>1. MinuteOf(at - GraceMinutes * MinuteTicks) <= MinuteOf(later - RawMinutes * MinuteTicks)
    BY <1>2, <1>5, MinuteLater
  <2>2. MinuteOf(t) < MinuteOf(later - RawMinutes * MinuteTicks)
    BY <1>1, <1>2, <2>1, MinuteIs DEF Times
  <2> QED
    BY <1>2, <2>2, MinuteIs DEF InRawWindow, Times
<1> QED
  BY <1>3, <1>4, <1>5

\* The raw window moves on.
LEMMA WindowEarlier ==
    ASSUME NEW t \in Times, NEW at \in Nat, NEW later \in Nat, at <= later, InRawWindow(t, later)
    PROVE  InRawWindow(t, at)
<1>1. RawMinutes * MinuteTicks \in Nat
  BY TicksPositive, WindowsNatural
<1>2. MinuteOf(at - RawMinutes * MinuteTicks) <= MinuteOf(later - RawMinutes * MinuteTicks)
  BY <1>1, MinuteLater
<1> QED
  BY <1>1, <1>2, MinuteIs DEF InRawWindow, Times

-----------------------------------------------------------------------------
(* The inductive invariant of the counts. *)

\* The threads go by clocks of the past; the worker writes what was reported.
WorkOK ==
    /\ writeNow <= now /\ compactNow <= now
    /\ waiting \subseteq reported /\ batch \subseteq waiting
    /\ Cardinality(waiting) <= QueueSize
    /\ \A t \in reported : t <= now

\* A minute that may get a sample: the clock has not left it, or a report waits.
Open(t) == MinuteOf(t) >= MinuteOf(now) \/ \E u \in waiting : MinuteOf(u) = MinuteOf(t)

Whole(t) == MinuteOf(t) \notin late \union cut

\* A sample was counted once if it was reported, is in raw while it can be sent
\* again, and a minute is replaced only by what memory holds of it.
CountOK(t) ==
    /\ Total(t) <= (IF t \in reported THEN 1 ELSE 0)
    /\ t \in acked \union batch => Total(t) = 1
    /\ t \in raw => Total(t) = 1
    /\ Total(t) = 1 /\ Open(t) /\ InRawWindow(t, now) => t \in raw

CountsOK == \A t \in Times : Whole(t) => CountOK(t)
ReplaceOK == replace \subseteq Held(hot)

CountInv == TypeWork /\ TypeStore /\ TypeHistory /\ WorkOK /\ CountsOK /\ ReplaceOK

-----------------------------------------------------------------------------
(* What the database steps do to the counts. *)

LEMMA HeldIs ==
    ASSUME NEW counts \in Counts
    PROVE  /\ Held(counts) \subseteq Minutes
           /\ \A t \in Times : MinuteOf(t) \notin Held(counts) => counts[t] = 0
           /\ \A m \in Held(counts) : \E t \in Times : MinuteOf(t) = m /\ counts[t] > 0
  BY BucketsIn DEF Held, Counts

LEMMA RowAfterNat ==
    ASSUME TypeStore, NEW memory \in Counts, NEW replacing, NEW t \in Times
    PROVE  RowAfter(memory, replacing, t) \in Nat
  BY DEF TypeStore, RowAfter, Counts

\* What is in memory for a minute, and what its row will be, survives a flush,
\* failed or not.
LEMMA Flushed ==
    ASSUME TypeStore, NEW memory \in Counts, NEW replacing \in SUBSET Minutes,
           replacing \subseteq Held(memory), NEW flushed \in SUBSET Minutes, NEW at,
           \/ PersistHotRollups(memory, replacing, flushed, at)
           \/ RestoreHotRollups(memory, replacing)
    PROVE  /\ hot' \in Counts /\ replace' \subseteq Minutes /\ minuteRow' \in Counts
           /\ coarse' \in Counts
           /\ ReplaceOK' /\ Held(hot') \subseteq Held(memory)
           /\ \A t \in Times : Total(t)' = RowAfter(memory, replacing, t)
<1>1. CASE RestoreHotRollups(memory, replacing)
  BY <1>1 DEF RestoreHotRollups, TypeStore, ReplaceOK, Total, RowAfter
<1>2. CASE PersistHotRollups(memory, replacing, flushed, at)
  <2>1. /\ minuteRow' = [t \in Times |-> IF MinuteOf(t) \in flushed
                                         THEN RowAfter(memory, replacing, t) ELSE minuteRow[t]]
        /\ coarse' = [t \in Times |-> IF MinuteOf(t) \in flushed /\ ~Refuses(ParentOf(t), at)
                                      THEN RowAfter(memory, replacing, t) ELSE coarse[t]]
        /\ hot' = [t \in Times |-> IF MinuteOf(t) \in flushed THEN 0 ELSE memory[t]]
        /\ replace' = replacing \ flushed
    BY <1>2 DEF PersistHotRollups
  <2>2. \A t \in Times : RowAfter(memory, replacing, t) \in Nat
    BY RowAfterNat
  <2>3. /\ hot' \in Counts /\ minuteRow' \in Counts /\ coarse' \in Counts
        /\ replace' \subseteq Minutes
    BY <2>1, <2>2 DEF TypeStore, Counts
  <2>4. Held(hot') = Held(memory) \ flushed
    BY <2>1 DEF Held, Counts
  <2>5. ReplaceOK'
    BY <2>1, <2>4 DEF ReplaceOK
  <2>6. ASSUME NEW t \in Times PROVE Total(t)' = RowAfter(memory, replacing, t)
    <3>1. CASE MinuteOf(t) \in flushed
      <4>1. Total(t)' = minuteRow'[t] + hot'[t]
        BY <2>1, <3>1 DEF Total, RowAfter
      <4> QED
        BY <2>1, <2>2, <3>1, <4>1
    <3>2. CASE MinuteOf(t) \notin flushed
      BY <2>1, <3>2 DEF Total, RowAfter
    <3> QED
      BY <3>1, <3>2
  <2> QED
    BY <2>3, <2>4, <2>5, <2>6
<1> QED
  BY <1>1, <1>2

\* A step that writes no new sample and forgets none: what it trims from raw is
\* out of the window.
LEMMA CountsKept ==
    ASSUME CountsOK, TypeStore,
           \A t \in Times : Whole(t)' => Whole(t) /\ Total(t)' = Total(t),
           reported \subseteq reported', acked' \union batch' \subseteq acked \union batch,
           raw' \subseteq raw, \A t \in raw : InRawWindow(t, now') => t \in raw',
           \A t \in Times : Open(t)' => Open(t),
           \A t \in Times : InRawWindow(t, now') => InRawWindow(t, now)
    PROVE  CountsOK'
<1> SUFFICES ASSUME NEW t \in Times, Whole(t)' PROVE CountOK(t)'
  BY DEF CountsOK
<1>1. CountOK(t) /\ Total(t)' = Total(t)
  BY DEF CountsOK
<1>2. InRawWindow(t, now)' <=> InRawWindow(t, now')
  BY DEF InRawWindow
<1>3. Total(t)' <= (IF t \in reported' THEN 1 ELSE 0)
  <2>1. Total(t) \in Nat
    BY RowAfterNat DEF Total, TypeStore
  <2> QED
    BY <1>1, <2>1 DEF CountOK
<1>4. t \in acked' \union batch' => Total(t)' = 1
  BY <1>1 DEF CountOK
<1>5. t \in raw' => Total(t)' = 1
  BY <1>1 DEF CountOK
<1>6. Total(t)' = 1 /\ Open(t)' /\ InRawWindow(t, now') => t \in raw'
  BY <1>1 DEF CountOK
<1> QED
  BY <1>2, <1>3, <1>4, <1>5, <1>6 DEF CountOK

\* A store that is opened again: minutes that may still get a sample are cut or
\* have none.
LEMMA CountsReopened ==
    ASSUME CountsOK, TypeStore, TypeHistory, WorkOK,
           \A t \in Times : Whole(t)' => Whole(t) /\ Total(t)' = Total(t),
           UNCHANGED <<now, reported, acked>>, batch' \subseteq batch, raw' = {},
           {MinuteOf(t) : t \in waiting' \union {now}} \subseteq cut'
    PROVE  CountsOK'
<1> SUFFICES ASSUME NEW t \in Times, Whole(t)' PROVE CountOK(t)'
  BY DEF CountsOK
<1>1. CountOK(t) /\ Total(t)' = Total(t)
  BY DEF CountsOK
<1>2. Total(t)' = 1 /\ Open(t)' => FALSE
  <2> SUFFICES ASSUME Total(t)' = 1, Open(t)' PROVE FALSE
    OBVIOUS
  <2>1. t <= now
    BY <1>1 DEF CountOK, WorkOK
  <2>2. MinuteOf(t) <= MinuteOf(now) /\ MinuteOf(t) \in Int /\ MinuteOf(now) \in Int
    BY <2>1, MinuteLater, MinuteIs DEF TypeHistory, Times
  <2>3. MinuteOf(t) = MinuteOf(now) \/ \E u \in waiting' : MinuteOf(u) = MinuteOf(t)
    BY <2>2 DEF Open
  <2> QED
    BY <2>3 DEF Whole
<1> QED
  BY <1>1, <1>2 DEF CountOK

\* What WriteMinutes makes of the samples of a batch.
Added(samples, window, redone, memory) ==
    /\ window = TrimmedRaw(now) \union {u \in samples : InRawWindow(u, now)}
    /\ redone = {MinuteOf(u) : u \in Upserts(samples)}
    /\ memory = [u \in Times |-> IF MinuteOf(u) \in redone
                                 THEN (IF u \in window THEN 1 ELSE 0)
                                 ELSE IF u \in samples THEN hot[u] + 1 ELSE hot[u]]

LEMMA SamplesCounted ==
    ASSUME CountInv, NEW samples \in SUBSET waiting, NEW window, NEW redone, NEW memory,
           Added(samples, window, redone, memory), NEW t \in Times, Whole(t),
           \A u \in samples : MinuteOf(u) = MinuteOf(t) => InRawWindow(u, now)
    PROVE  RowAfter(memory, replace \union redone, t) = IF t \in samples THEN 1 ELSE Total(t)
<1> USE DEF CountInv, Added
<1>1. CountOK(t) /\ Total(t) \in Nat /\ Total(t) <= 1
  BY RowAfterNat DEF CountsOK, CountOK, Total, TypeStore
<1>2. samples \subseteq Times
  BY DEF TypeWork
<1>3. CASE MinuteOf(t) \in redone
  <2>1. PICK u \in samples : u \in raw /\ InRawWindow(u, now) /\ MinuteOf(u) = MinuteOf(t)
    BY <1>3 DEF Upserts, TrimmedRaw
  <2>2. InRawWindow(t, now) /\ Open(t)
    BY <2>1 DEF InRawWindow, Open
  <2>3. t \in window <=> Total(t) = 1 \/ t \in samples
    BY <1>1, <2>2 DEF CountOK, TrimmedRaw
  <2>4. RowAfter(memory, replace \union redone, t) = IF t \in window THEN 1 ELSE 0
    BY <1>3 DEF RowAfter
  <2> QED
    BY <1>1, <2>3, <2>4
<1>4. CASE MinuteOf(t) \notin redone
  <2>1. memory[t] = IF t \in samples THEN hot[t] + 1 ELSE hot[t]
    BY <1>4
  <2>2. hot[t] \in Nat /\ minuteRow[t] \in Nat
    BY DEF TypeStore, Counts
  <2>3. RowAfter(memory, replace \union redone, t) = IF t \in samples THEN Total(t) + 1 ELSE Total(t)
    BY <1>4, <2>1, <2>2 DEF RowAfter, Total
  <2>4. ASSUME t \in samples PROVE Total(t) = 0
    <3>1. InRawWindow(t, now) /\ Open(t)
      BY <2>4 DEF Open
    <3>2. t \notin raw
      BY <1>4, <2>4, <3>1 DEF Upserts, TrimmedRaw
    <3> QED
      BY <1>1, <3>1, <3>2 DEF CountOK
  <2> QED
    BY <1>1, <2>3, <2>4
<1> QED
  BY <1>3, <1>4

-----------------------------------------------------------------------------
(* Every action keeps the counts. *)

\* A time of the past, and the bounds of what waits.
LEMMA WaitingFewer ==
    ASSUME CountInv, NEW S \in SUBSET waiting
    PROVE  Cardinality(S) <= QueueSize
<1>1. IsFiniteSet(waiting)
  <2>1. IsFiniteSet(Times)
    BY IngestBounds, FS_Interval DEF Times
  <2> QED
    BY <2>1, FS_Subset DEF CountInv, TypeWork
<1>2. Cardinality(S) <= Cardinality(waiting) /\ Cardinality(S) \in Nat /\ Cardinality(waiting) \in Nat
  BY <1>1, FS_Subset, FS_CardinalityType
<1> QED
  BY <1>2, IngestLimits DEF CountInv, WorkOK

LEMMA WaitingMore ==
    ASSUME CountInv, Cardinality(waiting) < QueueSize
    PROVE  Cardinality(waiting \union {now}) <= QueueSize
<1>1. IsFiniteSet(waiting)
  <2>1. IsFiniteSet(Times)
    BY IngestBounds, FS_Interval DEF Times
  <2> QED
    BY <2>1, FS_Subset DEF CountInv, TypeWork
<1>2. Cardinality(waiting) \in Nat
  BY <1>1, FS_CardinalityType
<1>3. \/ Cardinality(waiting \union {now}) = Cardinality(waiting)
      \/ Cardinality(waiting \union {now}) = Cardinality(waiting) + 1
  BY <1>1, FS_AddElement
<1> QED
  BY <1>2, <1>3, IngestLimits

LEMMA TickCounts ==
    ASSUME CountInv, Tick
    PROVE  CountInv'
<1> USE DEF Tick, workVars, memoryVars, rowVars, historyVars, boundVars, CountInv
<1>1. now \in Nat /\ now' \in Nat /\ now <= now' /\ now' \in Times
  BY IngestBounds DEF TypeHistory, Times
<1>2. TypeWork' /\ TypeStore' /\ TypeHistory'
  BY <1>1 DEF TypeWork, TypeStore, TypeHistory
<1>3. WorkOK'
  BY <1>1 DEF WorkOK, TypeWork, TypeHistory, Times
<1>4. \A t \in Times : Open(t)' => Open(t)
  <2>1. MinuteOf(now) <= MinuteOf(now') /\ MinuteOf(now) \in Int /\ MinuteOf(now') \in Int
    BY <1>1, MinuteLater, MinuteIs
  <2>2. \A t \in Times : MinuteOf(t) \in Int
    BY MinuteIs DEF Times
  <2>3. MinuteOf(now)' = MinuteOf(now')
    BY DEF MinuteOf
  <2> QED
    BY <2>1, <2>2, <2>3 DEF Open, MinuteOf
<1>5. \A t \in Times : InRawWindow(t, now') => InRawWindow(t, now)
  BY <1>1, WindowEarlier
<1>6. CountsOK'
  <2>1. \A t \in Times : Whole(t)' => Whole(t) /\ Total(t)' = Total(t)
    BY DEF Whole, Total, RowAfter
  <2> QED
    BY <1>4, <1>5, <2>1, CountsKept
<1>7. ReplaceOK'
  BY DEF ReplaceOK
<1> QED
  BY <1>2, <1>3, <1>6, <1>7

LEMMA WriteReportCounts ==
    ASSUME CountInv, WriteReport
    PROVE  CountInv'
<1> USE DEF WriteReport, memoryVars, rowVars, boundVars, CountInv
<1>1. now \in Times /\ now \in Nat
  BY DEF TypeHistory, Times
<1>2. TypeWork' /\ TypeStore' /\ TypeHistory'
  BY <1>1 DEF TypeWork, TypeStore, TypeHistory
<1>3. WorkOK'
  BY <1>1, WaitingMore DEF WorkOK
<1>4. \A t \in Times : Open(t)' => Open(t)
  BY <1>1, MinuteIs DEF Open
<1>5. CountsOK'
  <2>1. \A t \in Times : Whole(t)' => Whole(t) /\ Total(t)' = Total(t)
    BY DEF Whole, Total, RowAfter
  <2> QED
    BY <1>4, <2>1, CountsKept
<1>6. ReplaceOK'
  BY DEF ReplaceOK
<1> QED
  BY <1>2, <1>3, <1>5, <1>6

\* WriteBatch up to the commit, for what it makes of its samples.
LEMMA MinutesWritten ==
    ASSUME CountInv, NEW samples \in SUBSET waiting, NEW window, NEW redone, NEW memory,
           NEW flushed \in SUBSET Minutes,
           Added(samples, window, redone, memory),
           raw' = window,
           \/ PersistHotRollups(memory, replace \union redone, flushed, now)
           \/ RestoreHotRollups(memory, replace \union redone),
           late \subseteq late',
           {MinuteOf(u) : u \in {v \in samples : ~InRawWindow(v, now)}} \subseteq late',
           UNCHANGED <<now, reported, acked, cut, parentRow, sealed>>,
           batch' \subseteq samples, waiting' \subseteq waiting
    PROVE  TypeStore' /\ CountsOK' /\ ReplaceOK'
<1> USE DEF CountInv
<1>1. samples \subseteq Times /\ window \subseteq Times /\ raw \subseteq Times
  BY DEF TypeWork, TypeStore, TrimmedRaw, Added
<1>2. memory \in Counts
  BY DEF TypeStore, Counts, Added
<1>3. redone \subseteq Held(memory)
  <2> SUFFICES ASSUME NEW u \in Upserts(samples) PROVE MinuteOf(u) \in Held(memory)
    BY DEF Added
  <2>1. u \in window /\ u \in Times /\ MinuteOf(u) \in redone
    BY <1>1 DEF Upserts, Added
  <2>2. memory[u] > 0
    BY <2>1 DEF Added
  <2> QED
    BY <2>1, <2>2 DEF Held
<1>4. replace \subseteq Held(memory)
  <2> SUFFICES ASSUME NEW m \in replace, m \notin redone PROVE m \in Held(memory)
    BY <1>3
  <2>1. PICK u \in Times : MinuteOf(u) = m /\ hot[u] > 0
    BY DEF ReplaceOK, Held
  <2>2. memory[u] > 0
    BY <2>1 DEF TypeStore, Counts, Added
  <2> QED
    BY <2>1, <2>2 DEF Held
<1>5. replace \union redone \subseteq Minutes
  BY <1>2, <1>3, <1>4, HeldIs
<1>6. /\ hot' \in Counts /\ replace' \subseteq Minutes /\ minuteRow' \in Counts
      /\ coarse' \in Counts /\ ReplaceOK'
      /\ \A t \in Times : Total(t)' = RowAfter(memory, replace \union redone, t)
  BY <1>2, <1>3, <1>4, <1>5, Flushed
<1>7. TypeStore'
  BY <1>1, <1>6 DEF TypeStore
<1>8. ASSUME NEW t \in Times, Whole(t)' PROVE CountOK(t)'
  <2>1. Whole(t) /\ \A u \in samples : MinuteOf(u) = MinuteOf(t) => InRawWindow(u, now)
    BY <1>8 DEF Whole
  <2>2. Total(t)' = IF t \in samples THEN 1 ELSE Total(t)
    BY <1>6, <2>1, SamplesCounted
  <2>3. CountOK(t) /\ samples \subseteq reported
    BY <2>1 DEF CountsOK, WorkOK
  <2>4. Total(t)' <= (IF t \in reported' THEN 1 ELSE 0)
    BY <2>2, <2>3 DEF CountOK
  <2>5. t \in acked' \union batch' => Total(t)' = 1
    BY <2>2, <2>3 DEF CountOK
  <2>6. t \in raw' => Total(t)' = 1
    BY <2>2, <2>3 DEF CountOK, TrimmedRaw, Added
  <2>7. Total(t)' = 1 /\ Open(t)' /\ InRawWindow(t, now) => t \in raw'
    <3> SUFFICES ASSUME Total(t)' = 1, Open(t)', InRawWindow(t, now), t \notin samples
                 PROVE  t \in raw'
      BY DEF Added
    <3>1. now' = now /\ MinuteOf(now)' = MinuteOf(now) /\ MinuteOf(t)' = MinuteOf(t)
      BY DEF MinuteOf
    <3>2. Open(t)
      BY <3>1 DEF Open
    <3> QED
      BY <2>2, <2>3, <3>2 DEF CountOK, TrimmedRaw, Added
  <2>8. InRawWindow(t, now)' <=> InRawWindow(t, now)
    BY DEF InRawWindow
  <2> QED
    BY <2>4, <2>5, <2>6, <2>7, <2>8 DEF CountOK
<1> QED
  BY <1>6, <1>7, <1>8 DEF CountsOK

LEMMA OldestWaits == OldestTicks(waiting, BatchSize) \subseteq waiting
  BY DEF OldestTicks

LEMMA ClosedIn ==
    ASSUME NEW counts \in Counts, NEW at
    PROVE  Closed(counts, at) \subseteq Minutes
  BY HeldIs DEF Closed

LEMMA TooLateIn ==
    ASSUME NEW samples \in SUBSET Times, NEW flushed, NEW at
    PROVE  TooLate(samples, flushed, at) \subseteq Minutes
  BY BucketsIn DEF TooLate

LEMMA AddedIn ==
    ASSUME TypeStore, NEW samples, NEW window, NEW redone, NEW memory,
           Added(samples, window, redone, memory)
    PROVE  memory \in Counts
  BY DEF TypeStore, Counts, Added

\* The step of WriteMinutes, by its parts.
WritesMinutes(samples, window, redone, memory, flushed) ==
    /\ samples \subseteq waiting /\ flushed \subseteq Minutes
    /\ Added(samples, window, redone, memory)
    /\ mode \in {"running", "stopping"} /\ batch = {}
    /\ flushed = Closed(memory, now)
    /\ raw' = window
    /\ \/ /\ PersistHotRollups(memory, replace \union redone, flushed, now) /\ NoIngestFault
          /\ late' = late \union TooLate(samples, flushed, now)
          /\ BatchStarts(samples)
       \/ /\ flushed # {} /\ IngestFault
          /\ RestoreHotRollups(memory, replace \union redone)
          /\ late' = late \union TooLate(samples, {}, now)
          /\ BatchFails
    /\ UNCHANGED <<now, compactor, compactNow, parentRow, sealed, reported, acked, cut,
                   missed, restarts>>

LEMMA WriteMinutesParts ==
    ASSUME CountInv, WriteMinutes
    PROVE  \E samples, window, redone, memory, flushed :
               WritesMinutes(samples, window, redone, memory, flushed)
<1> DEFINE samples == OldestTicks(waiting, BatchSize)
           window == TrimmedRaw(now) \union {t \in samples : InRawWindow(t, now)}
           redone == {MinuteOf(t) : t \in Upserts(samples)}
           memory == [t \in Times |-> IF MinuteOf(t) \in redone
                                      THEN (IF t \in window THEN 1 ELSE 0)
                                      ELSE IF t \in samples THEN hot[t] + 1 ELSE hot[t]]
           flushed == Closed(memory, now)
<1>1. samples \in SUBSET waiting
  BY OldestWaits
<1>2. Added(samples, window, redone, memory)
  BY DEF Added
<1>3. flushed \in SUBSET Minutes
  BY <1>2, AddedIn, ClosedIn DEF CountInv
<1>4. /\ raw' = window /\ mode \in {"running", "stopping"} /\ batch = {}
      /\ \/ /\ PersistHotRollups(memory, replace \union redone, flushed, now) /\ NoIngestFault
            /\ late' = late \union TooLate(samples, flushed, now)
            /\ BatchStarts(samples)
         \/ /\ flushed # {} /\ IngestFault
            /\ RestoreHotRollups(memory, replace \union redone)
            /\ late' = late \union TooLate(samples, {}, now)
            /\ BatchFails
      /\ UNCHANGED <<now, compactor, compactNow, parentRow, sealed, reported, acked, cut,
                     missed, restarts>>
  BY DEF WriteMinutes
<1>5. flushed = Closed(memory, now)
  OBVIOUS
<1> HIDE DEF samples, window, redone, memory, flushed
<1> QED
  BY <1>1, <1>2, <1>3, <1>4, <1>5 DEF WritesMinutes

LEMMA FaultsNat ==
    ASSUME TypeHistory, IngestFault \/ NoIngestFault
    PROVE  ingestFaults' \in Nat
  BY DEF TypeHistory, IngestFault, NoIngestFault

LEMMA WriteMinutesCounts ==
    ASSUME CountInv, WriteMinutes
    PROVE  CountInv'
<1>1. PICK samples, window, redone, memory, flushed :
               WritesMinutes(samples, window, redone, memory, flushed)
  BY WriteMinutesParts
<1>2. /\ samples \in SUBSET waiting /\ flushed \in SUBSET Minutes
      /\ Added(samples, window, redone, memory)
      /\ raw' = window
      /\ \/ /\ PersistHotRollups(memory, replace \union redone, flushed, now) /\ NoIngestFault
            /\ late' = late \union TooLate(samples, flushed, now)
            /\ BatchStarts(samples)
         \/ /\ flushed # {} /\ IngestFault
            /\ RestoreHotRollups(memory, replace \union redone)
            /\ late' = late \union TooLate(samples, {}, now)
            /\ BatchFails
      /\ UNCHANGED <<now, compactor, compactNow, parentRow, sealed, reported, acked, cut,
                     missed, restarts>>
  BY <1>1 DEF WritesMinutes
<1>3. samples \subseteq Times
  BY <1>2 DEF CountInv, TypeWork
<1>4. /\ waiting' \subseteq waiting /\ batch' \subseteq samples /\ batch' \subseteq waiting'
      /\ writeNow' \in {0, now} /\ mode' \in {"running", "stopping", "drained"}
  BY <1>2 DEF BatchStarts, BatchFails, CountInv, TypeWork
<1>5. /\ late \subseteq late' /\ late' \subseteq Minutes
      /\ {MinuteOf(u) : u \in {v \in samples : ~InRawWindow(v, now)}} \subseteq late'
  <2>1. /\ TooLate(samples, flushed, now) \subseteq Minutes
        /\ TooLate(samples, {}, now) \subseteq Minutes
    BY <1>3, TooLateIn
  <2>2. PICK S : late' = late \union TooLate(samples, S, now) /\ S \in {flushed, {}}
    BY <1>2
  <2>3. {MinuteOf(u) : u \in {v \in samples : ~InRawWindow(v, now)}} \subseteq TooLate(samples, S, now)
    BY DEF TooLate
  <2> QED
    BY <2>1, <2>2, <2>3 DEF CountInv, TypeHistory
<1>6. TypeStore' /\ CountsOK' /\ ReplaceOK'
  <2>1. \/ PersistHotRollups(memory, replace \union redone, flushed, now)
        \/ RestoreHotRollups(memory, replace \union redone)
    BY <1>2
  <2> QED
    BY <1>2, <1>4, <1>5, <2>1, MinutesWritten
<1>7. 0 \in Times /\ 0 <= now /\ now \in Times
  BY IngestBounds DEF CountInv, TypeHistory, Times
<1>8. TypeWork'
  BY <1>2, <1>4, <1>7 DEF CountInv, TypeWork
<1>9. TypeHistory'
  BY <1>2, <1>5, FaultsNat DEF CountInv, TypeHistory
<1>10. WorkOK'
  <2>1. Cardinality(waiting') <= QueueSize
    BY <1>4, WaitingFewer
  <2>2. writeNow' <= now'
    BY <1>2, <1>4, <1>7 DEF Times
  <2> QED
    BY <1>2, <1>4, <2>1, <2>2 DEF CountInv, WorkOK
<1> QED
  BY <1>6, <1>8, <1>9, <1>10 DEF CountInv

\* A step after which memory and rows of the minutes are as they were.
LEMMA MinutesUnchanged ==
    ASSUME CountInv, UNCHANGED <<now, raw, hot, replace, minuteRow, late, cut, reported>>,
           waiting' \subseteq waiting, acked' \union batch' \subseteq acked \union batch
    PROVE  CountsOK' /\ ReplaceOK'
<1>1. \A t \in Times : Whole(t)' => Whole(t) /\ Total(t)' = Total(t)
  BY DEF Whole, Total, RowAfter
<1>2. \A t \in Times : Open(t)' => Open(t)
  <2>1. now' = now /\ MinuteOf(now)' = MinuteOf(now)
    BY DEF MinuteOf
  <2> QED
    BY <2>1 DEF Open
<1>3. CountsOK'
  BY <1>1, <1>2, CountsKept DEF CountInv
<1> QED
  BY <1>3 DEF CountInv, ReplaceOK

LEMMA SealTypes ==
    ASSUME TypeStore, NEW at, SealParents(at) \/ SealFails(at)
    PROVE  TypeStore' /\ UNCHANGED <<raw, hot, replace, minuteRow>>
<1>1. Due(at) \subseteq Parents
  BY BucketsIn DEF Due, Filling
<1> QED
  BY <1>1 DEF TypeStore, Counts, SealParents, SealFails, memoryVars, rowVars

LEMMA WriteSealCounts ==
    ASSUME CountInv, WriteSeal
    PROVE  CountInv'
<1>1. SealParents(writeNow) \/ SealFails(writeNow)
  BY DEF WriteSeal
<1>2. TypeStore' /\ UNCHANGED <<raw, hot, replace, minuteRow>>
  BY <1>1, SealTypes DEF CountInv
<1>3. /\ UNCHANGED <<now, compactor, compactNow, reported, late, cut, missed, restarts>>
      /\ waiting' \subseteq waiting /\ batch' = {} /\ writeNow' = 0
      /\ mode' \in {"running", "stopping", "drained"}
      /\ acked \subseteq acked' /\ acked' \subseteq acked \union batch
  BY DEF WriteSeal, BatchFails, CountInv, TypeWork
<1>4. ingestFaults' \in Nat
  BY FaultsNat DEF WriteSeal, SealFails, CountInv
<1>5. CountsOK' /\ ReplaceOK'
  BY <1>2, <1>3, MinutesUnchanged
<1>6. 0 \in Times /\ 0 <= now
  BY IngestBounds DEF CountInv, TypeHistory, Times
<1>7. TypeWork' /\ TypeHistory'
  BY <1>3, <1>4, <1>6 DEF CountInv, TypeWork, TypeHistory
<1>8. WorkOK'
  <2>1. Cardinality(waiting') <= QueueSize
    BY <1>3, WaitingFewer
  <2> QED
    BY <1>3, <1>6, <2>1 DEF CountInv, WorkOK
<1> QED
  BY <1>2, <1>5, <1>7, <1>8 DEF CountInv

LEMMA StopBatcherCounts ==
    ASSUME CountInv, StopBatcher
    PROVE  CountInv'
<1> USE DEF StopBatcher, memoryVars, rowVars, historyVars, boundVars
<1>1. CountsOK' /\ ReplaceOK'
  BY MinutesUnchanged
<1>2. TypeWork' /\ TypeStore' /\ TypeHistory' /\ WorkOK'
  BY DEF CountInv, TypeWork, TypeStore, TypeHistory, WorkOK
<1> QED
  BY <1>1, <1>2 DEF CountInv

LEMMA CompactStartCounts ==
    ASSUME CountInv, CompactStart
    PROVE  CountInv'
<1> USE DEF CompactStart, memoryVars, rowVars, historyVars, boundVars
<1>1. CountsOK' /\ ReplaceOK'
  BY MinutesUnchanged
<1>2. TypeWork' /\ TypeStore' /\ TypeHistory' /\ WorkOK'
  BY DEF CountInv, TypeWork, TypeStore, TypeHistory, WorkOK, Times
<1> QED
  BY <1>1, <1>2 DEF CountInv

LEMMA CompactFlushCounts ==
    ASSUME CountInv, CompactFlush
    PROVE  CountInv'
<1> USE DEF CountInv
<1>1. hot \in Counts /\ Closed(hot, compactNow) \in SUBSET Minutes /\ replace \in SUBSET Minutes
  BY ClosedIn DEF TypeStore
<1>2. \/ PersistHotRollups(hot, replace, Closed(hot, compactNow), compactNow)
      \/ RestoreHotRollups(hot, replace)
  BY DEF CompactFlush
<1>3. /\ hot' \in Counts /\ replace' \subseteq Minutes /\ minuteRow' \in Counts
      /\ coarse' \in Counts /\ ReplaceOK'
      /\ \A t \in Times : Total(t)' = Total(t)
  <2>1. replace \subseteq Held(hot)
    BY DEF ReplaceOK
  <2> QED
    BY <1>1, <1>2, <2>1, Flushed DEF Total
<1>4. /\ UNCHANGED <<now, mode, waiting, batch, writeNow, parentRow, sealed, reported, acked,
                     cut, missed, restarts>>
      /\ raw' = TrimmedRaw(compactNow) /\ late \subseteq late'
      /\ compactor' \in {"idle", "seal"} /\ compactNow' \in {0, compactNow}
  BY DEF CompactFlush, CompactEnds
<1>5. late' \subseteq Minutes
  BY TooLateIn DEF CompactFlush, TypeHistory
<1>6. ingestFaults' \in Nat
  BY FaultsNat DEF CompactFlush
<1>7. compactNow \in Nat /\ now \in Nat /\ compactNow <= now /\ 0 \in Times /\ 0 <= now
  BY IngestBounds DEF TypeWork, TypeHistory, WorkOK, Times
<1>8. CountsOK'
  <2>1. \A t \in Times : Whole(t)' => Whole(t) /\ Total(t)' = Total(t)
    BY <1>3, <1>4 DEF Whole
  <2>2. raw' \subseteq raw /\ \A t \in raw : InRawWindow(t, now') => t \in raw'
    BY <1>4, <1>7, WindowEarlier DEF TrimmedRaw, TypeStore
  <2>3. \A t \in Times : Open(t)' => Open(t)
    <3>1. now' = now /\ MinuteOf(now)' = MinuteOf(now)
      BY <1>4 DEF MinuteOf
    <3> QED
      BY <1>4, <3>1 DEF Open
  <2> QED
    BY <1>4, <2>1, <2>2, <2>3, CountsKept
<1>9. TypeStore'
  BY <1>3, <1>4 DEF TypeStore, TrimmedRaw
<1>10. TypeWork' /\ TypeHistory' /\ WorkOK'
  BY <1>4, <1>5, <1>6, <1>7 DEF TypeWork, TypeHistory, WorkOK
<1> QED
  BY <1>3, <1>8, <1>9, <1>10

LEMMA CompactSealCounts ==
    ASSUME CountInv, CompactSeal
    PROVE  CountInv'
<1>1. SealParents(compactNow) \/ SealFails(compactNow)
  BY DEF CompactSeal
<1>2. TypeStore' /\ UNCHANGED <<raw, hot, replace, minuteRow>>
  BY <1>1, SealTypes DEF CountInv
<1>3. /\ UNCHANGED <<now, mode, waiting, batch, writeNow, historyVars, restarts>>
      /\ compactor' = "idle" /\ compactNow' = 0
  BY DEF CompactSeal, CompactEnds
<1>4. ingestFaults' \in Nat
  BY FaultsNat DEF CompactSeal, SealFails, CountInv
<1>5. CountsOK' /\ ReplaceOK'
  BY <1>2, <1>3, MinutesUnchanged DEF historyVars
<1>6. 0 \in Times /\ 0 <= now
  BY IngestBounds DEF CountInv, TypeHistory, Times
<1>7. TypeWork' /\ TypeHistory' /\ WorkOK'
  BY <1>3, <1>4, <1>6 DEF CountInv, TypeWork, TypeHistory, WorkOK, historyVars
<1> QED
  BY <1>2, <1>5, <1>7 DEF CountInv

\* A store closed behind its successor or before it: what it wrote counts what
\* memory held, and every minute memory held is cut.
LEMMA StoreClosed ==
    ASSUME CountInv, CloseStore
    PROVE  /\ minuteRow' \in Counts /\ ingestFaults' \in Nat
           /\ \A t \in Times : MinuteOf(t) \notin Held(hot) => minuteRow'[t] = minuteRow[t]
           /\ cut' = cut \union Held(hot) \union {MinuteOf(t) : t \in waiting \union {now}}
<1>1. \A t \in Times : RowAfter(hot, replace, t) \in Nat
  BY RowAfterNat DEF CountInv, TypeStore
<1>2. \A t \in Times : MinuteOf(t) \notin Held(hot) => RowAfter(hot, replace, t) = minuteRow[t]
  BY HeldIs DEF CountInv, TypeStore, ReplaceOK, RowAfter, Counts
<1>3. minuteRow' \in Counts
  BY <1>1 DEF CloseStore, CountInv, TypeStore, Counts
<1>4. \A t \in Times : MinuteOf(t) \notin Held(hot) => minuteRow'[t] = minuteRow[t]
  BY <1>2 DEF CloseStore
<1>5. ingestFaults' \in Nat
  BY FaultsNat DEF CloseStore, CountInv
<1> QED
  BY <1>3, <1>4, <1>5 DEF CloseStore

LEMMA CutIn ==
    ASSUME CountInv
    PROVE  /\ Held(hot) \subseteq Minutes
           /\ {MinuteOf(t) : t \in waiting \union {now}} \subseteq Minutes
  BY HeldIs, BucketsIn DEF CountInv, TypeStore, TypeWork, TypeHistory

LEMMA StoreReopened ==
    ASSUME CountInv, NEW rows \in Counts, OpenStore(rows), minuteRow' \in Counts,
           \A t \in Times : MinuteOf(t) \notin Held(hot) => minuteRow'[t] = minuteRow[t],
           Held(hot) \subseteq cut', cut \subseteq cut', late \subseteq late',
           {MinuteOf(t) : t \in waiting' \union {now}} \subseteq cut', batch' \subseteq batch
    PROVE  TypeStore' /\ CountsOK' /\ ReplaceOK'
<1> USE DEF CountInv
<1>1. /\ raw' = {} /\ hot' = Empty /\ replace' = {} /\ coarse' = Recovered(rows)
      /\ UNCHANGED <<now, parentRow, sealed, reported, acked>>
  BY DEF OpenStore
<1>2. Empty \in Counts /\ Recovered(rows) \in Counts
  BY DEF Empty, Counts, Recovered
<1>3. TypeStore'
  BY <1>1, <1>2 DEF TypeStore
<1>4. ASSUME NEW t \in Times, Whole(t)' PROVE Whole(t) /\ Total(t)' = Total(t)
  <2>1. MinuteOf(t) \notin Held(hot) /\ Whole(t)
    BY <1>4 DEF Whole
  <2>2. hot[t] = 0 /\ MinuteOf(t) \notin replace /\ minuteRow[t] \in Nat
    BY <2>1, HeldIs DEF TypeStore, ReplaceOK, Counts
  <2>3. Total(t)' = minuteRow'[t] + 0 /\ minuteRow'[t] = minuteRow[t]
    BY <1>1, <2>1 DEF Total, RowAfter, Empty
  <2> QED
    BY <2>1, <2>2, <2>3 DEF Total, RowAfter
<1>5. CountsOK'
  BY <1>1, <1>4, CountsReopened
<1>6. ReplaceOK'
  BY <1>1 DEF ReplaceOK
<1> QED
  BY <1>3, <1>5, <1>6

LEMMA RestartCounts ==
    ASSUME CountInv, RestartPanel
    PROVE  CountInv'
<1>1. /\ CloseStore /\ OpenStore(minuteRow') /\ mode' = "running" /\ CompactEnds
      /\ UNCHANGED <<waiting, batch, writeNow, late, missed>>
  BY DEF RestartPanel
<1>2. /\ minuteRow' \in Counts /\ ingestFaults' \in Nat
      /\ \A t \in Times : MinuteOf(t) \notin Held(hot) => minuteRow'[t] = minuteRow[t]
      /\ cut' = cut \union Held(hot) \union {MinuteOf(t) : t \in waiting \union {now}}
  BY <1>1, StoreClosed
<1>3. TypeStore' /\ CountsOK' /\ ReplaceOK'
  BY <1>1, <1>2, StoreReopened
<1>4. 0 \in Times /\ 0 <= now
  BY IngestBounds DEF CountInv, TypeHistory, Times
<1>5. TypeWork' /\ TypeHistory' /\ WorkOK'
  BY <1>1, <1>2, <1>4, CutIn
     DEF CountInv, TypeWork, TypeHistory, WorkOK, CompactEnds, OpenStore
<1> QED
  BY <1>3, <1>5 DEF CountInv

LEMMA ReloadCounts ==
    ASSUME CountInv, Reload
    PROVE  CountInv'
<1>1. /\ CloseStore /\ OpenStore(minuteRow)
      /\ missed' = missed \union Held(hot) /\ late' = late \union TooLate({}, Held(hot), now)
      /\ UNCHANGED <<mode, waiting, batch, writeNow, compactor, compactNow>>
  BY DEF Reload
<1>2. /\ minuteRow' \in Counts /\ ingestFaults' \in Nat
      /\ \A t \in Times : MinuteOf(t) \notin Held(hot) => minuteRow'[t] = minuteRow[t]
      /\ cut' = cut \union Held(hot) \union {MinuteOf(t) : t \in waiting \union {now}}
  BY <1>1, StoreClosed
<1>3. minuteRow \in Counts
  BY DEF CountInv, TypeStore
<1>4. TypeStore' /\ CountsOK' /\ ReplaceOK'
  BY <1>1, <1>2, <1>3, StoreReopened
<1>5. TooLate({}, Held(hot), now) \subseteq Minutes
  BY TooLateIn
<1>6. TypeWork' /\ TypeHistory' /\ WorkOK'
  BY <1>1, <1>2, <1>5, CutIn DEF CountInv, TypeWork, TypeHistory, WorkOK, OpenStore
<1> QED
  BY <1>4, <1>6 DEF CountInv

LEMMA CrashCounts ==
    ASSUME CountInv, Crash
    PROVE  CountInv'
<1>1. /\ mode' = "running" /\ waiting' = {} /\ batch' = {} /\ writeNow' = 0
      /\ cut' = cut \union Held(hot) \union {MinuteOf(now)}
      /\ OpenStore(minuteRow) /\ compactor' = "idle" /\ compactNow' = 0
      /\ UNCHANGED <<minuteRow, late, missed, ingestFaults>>
  BY DEF Crash, CompactEnds
<1>2. minuteRow \in Counts /\ minuteRow' \in Counts
  BY <1>1 DEF CountInv, TypeStore
<1>3. TypeStore' /\ CountsOK' /\ ReplaceOK'
  BY <1>1, <1>2, StoreReopened
<1>4. 0 \in Times /\ 0 <= now
  BY IngestBounds DEF CountInv, TypeHistory, Times
<1>5. Held(hot) \subseteq Minutes /\ MinuteOf(now) \in Minutes
  BY CutIn, BucketsIn DEF CountInv, TypeHistory
<1>6. Cardinality({}) <= QueueSize
  BY WaitingFewer
<1>7. TypeWork' /\ TypeHistory' /\ WorkOK'
  BY <1>1, <1>4, <1>5, <1>6 DEF CountInv, TypeWork, TypeHistory, WorkOK, OpenStore
<1> QED
  BY <1>3, <1>7 DEF CountInv

LEMMA InitCounts == IngestInit => CountInv
<1> SUFFICES ASSUME IngestInit PROVE CountInv
  OBVIOUS
<1> USE DEF IngestInit
<1>1. 0 \in Times /\ Empty \in Counts
  BY IngestBounds DEF Times, Empty, Counts
<1>2. TypeWork /\ TypeStore /\ TypeHistory
  BY <1>1 DEF TypeWork, TypeStore, TypeHistory
<1>3. WorkOK
  BY FS_EmptySet, IngestLimits DEF WorkOK
<1>4. \A t \in Times : Total(t) = 0
  BY DEF Total, RowAfter, Empty
<1>5. CountsOK /\ ReplaceOK
  BY <1>4 DEF CountsOK, CountOK, ReplaceOK
<1> QED
  BY <1>2, <1>3, <1>5 DEF CountInv

LEMMA NextCounts == CountInv /\ [IngestNext]_ingestVars => CountInv'
<1> SUFFICES ASSUME CountInv, [IngestNext]_ingestVars PROVE CountInv'
  OBVIOUS
<1>1. CASE Tick
  BY <1>1, TickCounts
<1>2. CASE WriteReport
  BY <1>2, WriteReportCounts
<1>3. CASE Worker
  BY <1>3, WriteMinutesCounts, WriteSealCounts DEF Worker
<1>4. CASE StopBatcher
  BY <1>4, StopBatcherCounts
<1>5. CASE Compactor
  BY <1>5, CompactStartCounts, CompactFlushCounts, CompactSealCounts DEF Compactor
<1>6. CASE RestartPanel
  BY <1>6, RestartCounts
<1>7. CASE Reload
  BY <1>7, ReloadCounts
<1>8. CASE Crash
  BY <1>8, CrashCounts
<1>9. CASE UNCHANGED ingestVars
  <2> USE <1>9 DEF ingestVars, workVars, memoryVars, rowVars, historyVars, boundVars
  <2>1. CountsOK' /\ ReplaceOK'
    BY MinutesUnchanged
  <2>2. TypeWork' /\ TypeStore' /\ TypeHistory' /\ WorkOK'
    BY DEF CountInv, TypeWork, TypeStore, TypeHistory, WorkOK
  <2> QED
    BY <2>1, <2>2 DEF CountInv
<1> QED
  BY <1>1, <1>2, <1>3, <1>4, <1>5, <1>6, <1>7, <1>8, <1>9 DEF IngestNext

\* The worker, the compactor, their retries and every restart keep the counts:
\* the invariant of report_batcher.go and hot_rollup.go.
THEOREM IngestCounts == IngestSpec => []CountInv
<1>1. IngestInit => CountInv
  BY InitCounts
<1>2. CountInv /\ [IngestNext]_ingestVars => CountInv'
  BY NextCounts
<1> QED
  BY <1>1, <1>2, PTL DEF IngestSpec

\* Every variable has its type, the batch being written waits, and no more
\* reports wait than enqueue admits (report_batcher.go).
THEOREM IngestTypes == IngestSpec => []IngestTypeOK
<1>1. CountInv => IngestTypeOK
  BY DEF CountInv, WorkOK, IngestTypeOK
<1> QED
  BY <1>1, IngestCounts, PTL

\* A sample is counted at most once and, once its WriteBatch has succeeded,
\* exactly once, in every minute that was neither late nor cut
\* (report_batcher.go, raw_points.go, hot_rollup.go).
THEOREM SamplesAreCountedOnce == IngestSpec => []CountedOnce
<1>1. CountInv => CountedOnce
  BY DEF CountInv, CountsOK, CountOK, Whole, CountedOnce
<1> QED
  BY <1>1, IngestCounts, PTL

-----------------------------------------------------------------------------
(* What is stored is pending until it is sealed. *)

\* A tick whose parent has no minute that came late or was stored behind a reload.
Prompt(t) == ParentOf(t) \in Timely

PendingOK == \A t \in Times : Prompt(t) /\ ParentOf(t) \notin sealed => coarse[t] = minuteRow[t]

LEMMA PromptIs ==
    ASSUME NEW t \in Times
    PROVE  Prompt(t) <=> \A u \in Times : ParentOf(u) = ParentOf(t)
                                            => MinuteOf(u) \notin late \union missed
  BY BucketsIn DEF Prompt, Timely, TicksOf

\* Late minutes stay late.
LEMMA PromptEarlier ==
    ASSUME late \subseteq late', missed \subseteq missed', NEW t \in Times, Prompt(t)'
    PROVE  Prompt(t) /\ MinuteOf(t) \notin late' \union missed'
<1>1. \A u \in Times : ParentOf(u) = ParentOf(t) => MinuteOf(u) \notin late' \union missed'
  BY BucketsIn DEF Prompt, Timely, TicksOf, Parents, Times, ParentOf, MinuteOf
<1> QED
  BY <1>1, PromptIs

\* A minute flushed within the grace of its parent becomes its child.
LEMMA FlushPends ==
    ASSUME CountInv, PendingOK, NEW memory, NEW replacing, NEW flushed, NEW at, NEW samples,
           PersistHotRollups(memory, replacing, flushed, at),
           late' = late \union TooLate(samples, flushed, at), UNCHANGED <<sealed, missed>>
    PROVE  PendingOK'
<1> SUFFICES ASSUME NEW t \in Times, Prompt(t)', ParentOf(t) \notin sealed
             PROVE  coarse'[t] = minuteRow'[t]
  <2>1. \A t \in Times : ParentOf(t)' = ParentOf(t)
    BY DEF ParentOf, ParentTicks
  <2> QED
    BY <2>1 DEF PendingOK
<1>1. Prompt(t) /\ MinuteOf(t) \notin late'
  BY PromptEarlier
<1>2. coarse[t] = minuteRow[t]
  BY <1>1 DEF PendingOK
<1>3. MinuteOf(t) \in flushed => ~Refuses(ParentOf(t), at)
  BY <1>1 DEF TooLate, Refuses
<1> QED
  BY <1>2, <1>3 DEF PersistHotRollups

LEMMA PendingKept ==
    ASSUME PendingOK, late \subseteq late', missed \subseteq missed', sealed \subseteq sealed',
           \A t \in Times : ParentOf(t) \notin sealed'
                              => coarse'[t] = coarse[t] /\ minuteRow'[t] = minuteRow[t]
    PROVE  PendingOK'
  BY PromptEarlier DEF PendingOK

\* A store that is opened finds what is stored, but for the minutes that its
\* predecessor stores later.
LEMMA ReopenPends ==
    ASSUME NEW rows, coarse' = Recovered(rows), sealed' = sealed,
           late \subseteq late', missed \subseteq missed',
           \A t \in Times : MinuteOf(t) \notin missed' => minuteRow'[t] = rows[t]
    PROVE  PendingOK'
<1>1. \A t \in Times : Prompt(t)' => MinuteOf(t) \notin missed'
  BY PromptEarlier
<1> QED
  BY <1>1 DEF PendingOK, Recovered

LEMMA SealPends ==
    ASSUME PendingOK, NEW at, SealParents(at) \/ SealFails(at), UNCHANGED <<late, missed>>
    PROVE  PendingOK'
<1>1. CASE SealParents(at)
  <2>1. /\ sealed' = sealed \union Due(at) /\ minuteRow' = minuteRow
        /\ \A t \in Times : ParentOf(t) \notin Due(at) => coarse'[t] = coarse[t]
    BY <1>1 DEF SealParents
  <2> QED
    BY <2>1, PendingKept
<1>2. CASE SealFails(at)
  BY <1>2, PendingKept DEF SealFails, memoryVars, rowVars
<1> QED
  BY <1>1, <1>2

LEMMA NextPends == CountInv /\ PendingOK /\ [IngestNext]_ingestVars => PendingOK'
<1> SUFFICES ASSUME CountInv, PendingOK, [IngestNext]_ingestVars PROVE PendingOK'
  OBVIOUS
<1>1. CASE UNCHANGED <<coarse, minuteRow, sealed, late, missed>>
  BY <1>1, PendingKept
<1>2. CASE Tick \/ WriteReport \/ StopBatcher \/ CompactStart \/ UNCHANGED ingestVars
  BY <1>1, <1>2 DEF Tick, WriteReport, StopBatcher, CompactStart, ingestVars, workVars, memoryVars,
                    rowVars, historyVars, boundVars
<1>3. CASE WriteMinutes
  <2>1. PICK samples, window, redone, memory, flushed :
               WritesMinutes(samples, window, redone, memory, flushed)
    BY <1>3, WriteMinutesParts
  <2>2. CASE PersistHotRollups(memory, replace \union redone, flushed, now)
               /\ late' = late \union TooLate(samples, flushed, now)
    BY <2>1, <2>2, FlushPends DEF WritesMinutes
  <2>3. CASE RestoreHotRollups(memory, replace \union redone)
               /\ late' = late \union TooLate(samples, {}, now)
    BY <2>1, <2>3, PendingKept DEF WritesMinutes, RestoreHotRollups
  <2> QED
    BY <2>1, <2>2, <2>3 DEF WritesMinutes
<1>4. CASE WriteSeal
  BY <1>4, SealPends DEF WriteSeal
<1>5. CASE CompactFlush
  <2>1. CASE PersistHotRollups(hot, replace, Closed(hot, compactNow), compactNow)
               /\ late' = late \union TooLate({}, Closed(hot, compactNow), compactNow)
    BY <1>5, <2>1, FlushPends DEF CompactFlush
  <2>2. CASE RestoreHotRollups(hot, replace) /\ UNCHANGED late
    BY <1>5, <2>2, <1>1 DEF CompactFlush, RestoreHotRollups
  <2> QED
    BY <1>5, <2>1, <2>2 DEF CompactFlush
<1>6. CASE CompactSeal
  BY <1>6, SealPends DEF CompactSeal, historyVars
<1>7. CASE RestartPanel
  <2>1. /\ coarse' = Recovered(minuteRow') /\ sealed' = sealed /\ UNCHANGED <<late, missed>>
    BY <1>7 DEF RestartPanel, OpenStore
  <2> QED
    BY <2>1, ReopenPends
<1>8. CASE Reload
  <2>1. /\ coarse' = Recovered(minuteRow) /\ sealed' = sealed
        /\ late \subseteq late' /\ missed' = missed \union Held(hot)
    BY <1>8 DEF Reload, OpenStore
  <2>2. \A t \in Times : MinuteOf(t) \notin missed' => minuteRow'[t] = minuteRow[t]
    BY <1>8, <2>1, StoreClosed DEF Reload
  <2> QED
    BY <2>1, <2>2, ReopenPends
<1>9. CASE Crash
  <2>1. /\ coarse' = Recovered(minuteRow) /\ sealed' = sealed
        /\ UNCHANGED <<late, missed, minuteRow>>
    BY <1>9 DEF Crash, OpenStore
  <2> QED
    BY <2>1, ReopenPends
<1> QED
  BY <1>2, <1>3, <1>4, <1>5, <1>6, <1>7, <1>8, <1>9 DEF IngestNext, Worker, Compactor

\* Every minute stored in time is among the children of its parent until that
\* is sealed, across failed steps, crashes, restarts and reloads
\* (coarse_rollup.go:446).
THEOREM StoredStaysPending == IngestSpec => []StoredIsPending
<1>1. IngestInit => CountInv /\ PendingOK
  BY InitCounts DEF IngestInit, PendingOK
<1>2. CountInv /\ PendingOK /\ [IngestNext]_ingestVars => CountInv' /\ PendingOK'
  BY NextCounts, NextPends
<1>3. PendingOK => StoredIsPending
  BY DEF PendingOK, Prompt, StoredIsPending, TicksOf
<1>4. IngestSpec => [](CountInv /\ PendingOK)
  BY <1>1, <1>2, PTL DEF IngestSpec
<1> QED
  BY <1>3, <1>4, PTL

-----------------------------------------------------------------------------
(* What a sealed parent holds, when raw samples leave the window no later     *)
(* than their parent stops taking children.                                   *)

\* A WriteBatch between its database steps has left no closed minute in memory.
WrittenOK == batch # {} => Closed(hot, writeNow) = {}

\* A minute in memory whose parent is about to be sealed came late.
CompactOK ==
    compactor = "seal" =>
        \A t \in Times : PastGrace(ParentOf(t), compactNow) /\ MinuteOf(t) \in Held(hot)
                           => MinuteOf(t) \in late

\* So did one whose parent is sealed, and that parent's grace is over.
ParentsOK ==
    /\ \A p \in sealed : PastGrace(p, now)
    /\ \A t \in Times : ParentOf(t) \in sealed /\ MinuteOf(t) \in Held(hot)
                          => MinuteOf(t) \in late

\* A sealed parent that had no late minute has no children left and holds what
\* its minutes hold.
SealedOK ==
    \A t \in Times : Prompt(t) /\ ParentOf(t) \in sealed
                       => coarse[t] = 0 /\ parentRow[t] = minuteRow[t]

SealInv == WrittenOK /\ CompactOK /\ ParentsOK /\ SealedOK

LEMMA PastGraceLater ==
    ASSUME NEW p \in Parents, NEW at \in Nat, NEW later \in Nat, at <= later, PastGrace(p, at)
    PROVE  PastGrace(p, later)
<1>1. ParentOf(MaxTime) \in Int
  BY IngestBounds, ParentTicksPositive, DivIs DEF ParentOf
<1>2. p \in Int
  BY <1>1 DEF Parents
<1>3. (p + 1) * ParentTicks \in Int /\ GraceMinutes * MinuteTicks \in Nat
  BY <1>2, ParentTicksPositive, TicksPositive, WindowsNatural
<1> QED
  BY <1>3 DEF PastGrace

LEMMA ClocksNat ==
    ASSUME CountInv
    PROVE  now \in Nat /\ writeNow \in Nat /\ compactNow \in Nat /\ writeNow <= now /\ compactNow <= now
  BY DEF CountInv, TypeWork, TypeHistory, WorkOK, Times

\* A minute whose parent's grace is over has closed.
LEMMA GraceClosed ==
    ASSUME NEW counts, NEW t \in Times, NEW at \in Nat, PastGrace(ParentOf(t), at),
           MinuteOf(t) \in Held(counts)
    PROVE  MinuteOf(t) \in Closed(counts, at)
  BY GraceOver DEF Closed

\* Minutes in memory after a write were there before it or got one of its samples.
LEMMA AddedHeld ==
    ASSUME CountInv, NEW samples \in SUBSET waiting, NEW window, NEW redone, NEW memory,
           Added(samples, window, redone, memory), NEW m \in Held(memory)
    PROVE  m \in Held(hot) \/ \E u \in samples : MinuteOf(u) = m
<1>1. PICK t \in Times : MinuteOf(t) = m /\ memory[t] > 0
  BY DEF Held
<1>2. CASE m \in redone
  BY <1>2 DEF Added, Upserts
<1>3. CASE t \in samples
  BY <1>1, <1>3
<1>4. CASE m \notin redone /\ t \notin samples
  <2>1. memory[t] = hot[t]
    BY <1>1, <1>4 DEF Added
  <2> QED
    BY <1>1, <2>1 DEF Held
<1> QED
  BY <1>2, <1>3, <1>4

\* A write brings into memory, for a parent whose grace is over, only late minutes.
LEMMA AddedLate ==
    ASSUME CountInv, WindowWithinGrace, NEW samples \in SUBSET waiting, NEW window, NEW redone,
           NEW memory, Added(samples, window, redone, memory), NEW flushed,
           TooLate(samples, flushed, now) \subseteq late',
           NEW at \in Nat, at <= now, NEW t \in Times, PastGrace(ParentOf(t), at),
           MinuteOf(t) \in Held(memory), MinuteOf(t) \notin Held(hot)
    PROVE  MinuteOf(t) \in late'
<1>1. PICK u \in samples : MinuteOf(u) = MinuteOf(t)
  BY AddedHeld
<1>2. ~InRawWindow(t, now)
  BY ClocksNat, GraceOver
<1>3. ~InRawWindow(u, now)
  BY <1>1, <1>2 DEF InRawWindow
<1> QED
  BY <1>1, <1>3 DEF TooLate

-----------------------------------------------------------------------------
(* Every action keeps sealed parents. *)

\* A step that leaves memory and rows alone.
LEMMA SealKept ==
    ASSUME CountInv, SealInv,
           UNCHANGED <<hot, coarse, minuteRow, parentRow, sealed, late, missed>>,
           now' \in Nat, now <= now',
           UNCHANGED <<batch, writeNow>> \/ batch' = {},
           UNCHANGED <<compactor, compactNow>> \/ compactor' # "seal"
    PROVE  SealInv'
<1> USE DEF SealInv
<1>1. WrittenOK'
  BY DEF WrittenOK, Closed, Held, MinuteOf
<1>2. CompactOK'
  BY DEF CompactOK, Held, MinuteOf, ParentOf, PastGrace, ParentTicks
<1>3. ParentsOK'
  <2>1. \A p \in sealed : PastGrace(p, now')
    BY ClocksNat, PastGraceLater DEF ParentsOK, CountInv, TypeStore
  <2>2. \A p : PastGrace(p, now)' <=> PastGrace(p, now')
    BY DEF PastGrace, ParentTicks
  <2> QED
    BY <2>1, <2>2 DEF ParentsOK, Held, MinuteOf, ParentOf, ParentTicks
<1>4. SealedOK'
  <2>1. \A t \in Times : Prompt(t)' => Prompt(t)
    BY PromptEarlier
  <2> QED
    BY <2>1 DEF SealedOK, ParentOf, ParentTicks
<1> QED
  BY <1>1, <1>2, <1>3, <1>4

LEMMA FlushHeld ==
    ASSUME NEW memory \in Counts, NEW replacing, NEW flushed, NEW at,
           PersistHotRollups(memory, replacing, flushed, at)
    PROVE  Held(hot') = Held(memory) \ flushed
  BY DEF PersistHotRollups, Held, Counts

\* A flush that brings into memory, for a sealed parent, only late minutes.
LEMMA FlushSeals ==
    ASSUME CountInv, SealInv, NEW memory \in Counts, NEW replacing, NEW flushed, NEW at,
           flushed \subseteq Held(memory),
           \/ PersistHotRollups(memory, replacing, flushed, at)
           \/ RestoreHotRollups(memory, replacing),
           UNCHANGED <<now, parentRow, sealed, missed>>, late \subseteq late',
           \A t \in Times : ParentOf(t) \in sealed /\ MinuteOf(t) \in Held(memory)
                              => MinuteOf(t) \in late'
    PROVE  Held(hot') \subseteq Held(memory) /\ ParentsOK' /\ SealedOK'
<1>1. Held(hot') \subseteq Held(memory)
  BY FlushHeld DEF RestoreHotRollups
<1>2. ParentsOK'
  <2>1. \A p : PastGrace(p, now)' <=> PastGrace(p, now)
    BY DEF PastGrace, ParentTicks
  <2> QED
    BY <1>1, <2>1 DEF SealInv, ParentsOK, Held, MinuteOf, ParentOf, ParentTicks
<1>3. ASSUME NEW t \in Times, Prompt(t)', ParentOf(t) \in sealed
      PROVE  coarse'[t] = 0 /\ parentRow'[t] = minuteRow'[t]
  <2>1. Prompt(t) /\ MinuteOf(t) \notin late'
    BY <1>3, PromptEarlier
  <2>2. coarse[t] = 0 /\ parentRow[t] = minuteRow[t]
    BY <1>3, <2>1 DEF SealInv, SealedOK
  <2>3. MinuteOf(t) \notin flushed
    BY <1>3, <2>1
  <2>4. coarse'[t] = coarse[t] /\ minuteRow'[t] = minuteRow[t]
    BY <2>3 DEF PersistHotRollups, RestoreHotRollups
  <2> QED
    BY <2>2, <2>4
<1>4. SealedOK'
  BY <1>3 DEF SealedOK, ParentOf, ParentTicks
<1> QED
  BY <1>1, <1>2, <1>4

LEMMA WriteMinutesSeals ==
    ASSUME CountInv, SealInv, WindowWithinGrace, WriteMinutes
    PROVE  SealInv'
<1>1. PICK samples, window, redone, memory, flushed :
               WritesMinutes(samples, window, redone, memory, flushed)
  BY WriteMinutesParts
<1>2. /\ samples \in SUBSET waiting /\ flushed = Closed(memory, now)
      /\ Added(samples, window, redone, memory)
      /\ \/ /\ PersistHotRollups(memory, replace \union redone, flushed, now)
            /\ late' = late \union TooLate(samples, flushed, now)
            /\ BatchStarts(samples)
         \/ /\ RestoreHotRollups(memory, replace \union redone)
            /\ late' = late \union TooLate(samples, {}, now)
            /\ BatchFails
      /\ UNCHANGED <<now, compactor, compactNow, parentRow, sealed, missed>>
  BY <1>1 DEF WritesMinutes
<1>3. memory \in Counts /\ flushed \subseteq Held(memory)
  BY <1>2, AddedIn DEF CountInv, Closed
<1>4. PICK S : late' = late \union TooLate(samples, S, now)
  BY <1>2
<1>5. ASSUME NEW t \in Times, NEW at \in Nat, at <= now, PastGrace(ParentOf(t), at),
             MinuteOf(t) \in Held(memory), MinuteOf(t) \in Held(hot) => MinuteOf(t) \in late
      PROVE  MinuteOf(t) \in late'
  <2>1. TooLate(samples, S, now) \subseteq late' /\ late \subseteq late'
    BY <1>4
  <2> QED
    BY <1>2, <1>5, <2>1, AddedLate
<1>6. Held(hot') \subseteq Held(memory) /\ ParentsOK' /\ SealedOK'
  <2>1. \A t \in Times : ParentOf(t) \in sealed /\ MinuteOf(t) \in Held(memory)
                           => MinuteOf(t) \in late'
    BY <1>5, ClocksNat DEF SealInv, ParentsOK
  <2>2. \/ PersistHotRollups(memory, replace \union redone, flushed, now)
        \/ RestoreHotRollups(memory, replace \union redone)
    BY <1>2
  <2>3. late \subseteq late' /\ UNCHANGED <<now, parentRow, sealed, missed>>
    BY <1>2, <1>4
  <2> QED
    BY <1>3, <2>1, <2>2, <2>3, FlushSeals
<1>7. CompactOK'
  <2>1. \A t \in Times : PastGrace(ParentOf(t), compactNow) /\ MinuteOf(t) \in Held(hot')
                           /\ compactor = "seal" => MinuteOf(t) \in late'
    BY <1>5, <1>6, ClocksNat DEF SealInv, CompactOK
  <2> QED
    BY <1>2, <2>1 DEF CompactOK, Held, MinuteOf, ParentOf, PastGrace, ParentTicks
<1>8. WrittenOK'
  <2>1. CASE batch' = {}
    BY <2>1 DEF WrittenOK
  <2>2. CASE PersistHotRollups(memory, replace \union redone, flushed, now) /\ writeNow' = now
    <3>1. Held(hot') = Held(memory) \ Closed(memory, now)
      BY <1>2, <1>3, <2>2, FlushHeld
    <3>2. Closed(hot', now) = {}
      BY <3>1 DEF Closed
    <3> QED
      BY <2>2, <3>2 DEF WrittenOK
  <2> QED
    BY <1>2, <2>1, <2>2 DEF BatchStarts, BatchFails
<1> QED
  BY <1>6, <1>7, <1>8 DEF SealInv

LEMMA CompactFlushSeals ==
    ASSUME CountInv, SealInv, CompactFlush
    PROVE  SealInv'
<1>1. /\ compactor = "flush" /\ batch = {} /\ late \subseteq late'
      /\ UNCHANGED <<now, batch, writeNow, parentRow, sealed, missed>>
  BY DEF CompactFlush
<1>2. hot \in Counts /\ Closed(hot, compactNow) \subseteq Held(hot)
  BY DEF CountInv, TypeStore, Closed
<1>3. Held(hot') \subseteq Held(hot) /\ ParentsOK' /\ SealedOK'
  <2>1. \/ PersistHotRollups(hot, replace, Closed(hot, compactNow), compactNow)
        \/ RestoreHotRollups(hot, replace)
    BY DEF CompactFlush
  <2>2. \A t \in Times : ParentOf(t) \in sealed /\ MinuteOf(t) \in Held(hot)
                           => MinuteOf(t) \in late'
    BY <1>1 DEF SealInv, ParentsOK
  <2> QED
    BY <1>1, <1>2, <2>1, <2>2, FlushSeals
<1>4. WrittenOK'
  BY <1>1 DEF WrittenOK
<1>5. CompactOK'
  <2>1. CASE compactor' = "idle"
    BY <2>1 DEF CompactOK
  <2>2. CASE /\ PersistHotRollups(hot, replace, Closed(hot, compactNow), compactNow)
             /\ UNCHANGED compactNow
    <3>1. Held(hot') = Held(hot) \ Closed(hot, compactNow)
      BY <1>2, <2>2, FlushHeld
    <3>2. \A t \in Times : PastGrace(ParentOf(t), compactNow) => MinuteOf(t) \notin Held(hot')
      BY <3>1, ClocksNat, GraceClosed
    <3> QED
      BY <2>2, <3>2 DEF CompactOK, Held, MinuteOf, ParentOf, PastGrace, ParentTicks
  <2> QED
    BY <2>1, <2>2 DEF CompactFlush, CompactEnds
<1> QED
  BY <1>3, <1>4, <1>5 DEF SealInv

\* Sealing parents whose minutes have left memory, or came late.
LEMMA ParentsSealed ==
    ASSUME CountInv, PendingOK, SealInv, NEW at \in Nat, at <= now,
           SealParents(at) \/ SealFails(at), UNCHANGED <<now, late, missed>>,
           \A t \in Times : PastGrace(ParentOf(t), at) /\ MinuteOf(t) \in Held(hot)
                              => MinuteOf(t) \in late
    PROVE  ParentsOK' /\ SealedOK' /\ hot' = hot
<1>1. CASE SealFails(at)
  <2>1. UNCHANGED <<memoryVars, rowVars>>
    BY <1>1 DEF SealFails
  <2>2. ParentsOK'
    <3>1. \A p : PastGrace(p, now)' <=> PastGrace(p, now)
      BY DEF PastGrace, ParentTicks
    <3> QED
      BY <2>1, <3>1 DEF SealInv, ParentsOK, memoryVars, rowVars, Held, MinuteOf, ParentOf, ParentTicks
  <2>3. \A t \in Times : Prompt(t)' => Prompt(t)
    BY PromptEarlier
  <2> QED
    BY <2>1, <2>2, <2>3 DEF SealInv, SealedOK, memoryVars, rowVars, ParentOf, ParentTicks
<1>2. CASE SealParents(at)
  <2>1. PICK due : due = Due(at)
    OBVIOUS
  <2>2. /\ parentRow' = [t \in Times |-> IF ParentOf(t) \in due THEN coarse[t] ELSE parentRow[t]]
        /\ coarse' = [t \in Times |-> IF ParentOf(t) \in due THEN 0 ELSE coarse[t]]
        /\ sealed' = sealed \union due
        /\ UNCHANGED <<raw, hot, replace, minuteRow>>
    BY <1>2, <2>1 DEF SealParents
  <2>3. /\ due \subseteq Parents /\ \A p \in due : PastGrace(p, at)
        /\ \A p \in due : \E u \in Times : ParentOf(u) = p /\ coarse[u] > 0
    BY <2>1, BucketsIn DEF Due, Filling
  <2>4. ParentsOK'
    <3>1. \A p \in sealed \union due : PastGrace(p, now)
      BY <2>3, ClocksNat, PastGraceLater DEF SealInv, ParentsOK
    <3>2. \A p : PastGrace(p, now)' <=> PastGrace(p, now)
      BY DEF PastGrace, ParentTicks
    <3>3. \A t \in Times : ParentOf(t) \in sealed \union due /\ MinuteOf(t) \in Held(hot)
                             => MinuteOf(t) \in late
      BY <2>3 DEF SealInv, ParentsOK
    <3> QED
      BY <2>2, <3>1, <3>2, <3>3 DEF ParentsOK, Held, MinuteOf, ParentOf, ParentTicks
  <2>5. ASSUME NEW t \in Times, Prompt(t)', ParentOf(t) \in sealed \union due
        PROVE  coarse'[t] = 0 /\ parentRow'[t] = minuteRow'[t]
    <3>1. Prompt(t)
      BY <2>5, PromptEarlier
    <3>2. CASE ParentOf(t) \in due /\ ParentOf(t) \notin sealed
      BY <2>2, <3>1, <3>2 DEF PendingOK
    <3>3. CASE ParentOf(t) \in sealed
      <4>1. ParentOf(t) \notin due
        <5> SUFFICES ASSUME ParentOf(t) \in due PROVE FALSE
          OBVIOUS
        <5>1. PICK u \in Times : ParentOf(u) = ParentOf(t) /\ coarse[u] > 0
          BY <2>3
        <5>2. coarse[u] = 0
          BY <3>1, <3>3, <5>1 DEF Prompt, SealInv, SealedOK
        <5> QED
          BY <5>1, <5>2
      <4> QED
        BY <2>2, <3>1, <3>3, <4>1 DEF SealInv, SealedOK
    <3> QED
      BY <2>5, <3>2, <3>3
  <2>6. SealedOK'
    BY <2>2, <2>5 DEF SealedOK, ParentOf, ParentTicks
  <2> QED
    BY <2>2, <2>4, <2>6
<1> QED
  BY <1>1, <1>2

LEMMA WriteSealSeals ==
    ASSUME CountInv, PendingOK, SealInv, WriteSeal
    PROVE  SealInv'
<1>1. /\ batch # {} /\ batch' = {}
      /\ SealParents(writeNow) \/ SealFails(writeNow)
      /\ UNCHANGED <<now, compactor, compactNow, late, missed>>
  BY DEF WriteSeal, BatchFails
<1>2. \A t \in Times : PastGrace(ParentOf(t), writeNow) => MinuteOf(t) \notin Held(hot)
  BY <1>1, ClocksNat, GraceClosed DEF SealInv, WrittenOK
<1>3. ParentsOK' /\ SealedOK' /\ hot' = hot
  BY <1>1, <1>2, ClocksNat, ParentsSealed
<1>4. WrittenOK'
  BY <1>1 DEF WrittenOK
<1>5. CompactOK'
  BY <1>1, <1>3 DEF SealInv, CompactOK, Held, MinuteOf, ParentOf, PastGrace, ParentTicks
<1> QED
  BY <1>3, <1>4, <1>5 DEF SealInv

LEMMA CompactSealSeals ==
    ASSUME CountInv, PendingOK, SealInv, CompactSeal
    PROVE  SealInv'
<1>1. /\ compactor = "seal" /\ compactor' = "idle" /\ batch = {} /\ batch' = {}
      /\ SealParents(compactNow) \/ SealFails(compactNow)
      /\ UNCHANGED <<now, late, missed>>
  BY DEF CompactSeal, CompactEnds, historyVars
<1>2. ParentsOK' /\ SealedOK'
  BY <1>1, ClocksNat, ParentsSealed DEF SealInv, CompactOK
<1> QED
  BY <1>1, <1>2 DEF SealInv, WrittenOK, CompactOK

\* A store that is opened again.
LEMMA ReopenSeals ==
    ASSUME CountInv, SealInv, NEW rows, OpenStore(rows), late \subseteq late', missed \subseteq missed',
           \A t \in Times : MinuteOf(t) \notin Held(hot) => minuteRow'[t] = minuteRow[t],
           batch' = {}, compactor' # "seal"
    PROVE  SealInv'
<1>1. /\ hot' = Empty /\ coarse' = Recovered(rows) /\ UNCHANGED <<now, parentRow, sealed>>
  BY DEF OpenStore
<1>2. ParentsOK'
  <2>1. Held(hot') = {}
    BY <1>1 DEF Held, Empty
  <2>2. \A p : PastGrace(p, now)' <=> PastGrace(p, now)
    BY <1>1 DEF PastGrace, ParentTicks
  <2> QED
    BY <1>1, <2>1, <2>2 DEF SealInv, ParentsOK
<1>3. ASSUME NEW t \in Times, Prompt(t)', ParentOf(t) \in sealed
      PROVE  coarse'[t] = 0 /\ parentRow'[t] = minuteRow'[t]
  <2>1. Prompt(t) /\ MinuteOf(t) \notin late
    BY <1>3, PromptEarlier
  <2>2. MinuteOf(t) \notin Held(hot)
    BY <1>3, <2>1 DEF SealInv, ParentsOK
  <2>3. parentRow[t] = minuteRow[t]
    BY <1>3, <2>1 DEF SealInv, SealedOK
  <2> QED
    BY <1>1, <1>3, <2>2, <2>3 DEF Recovered
<1>4. SealedOK'
  BY <1>1, <1>3 DEF SealedOK, ParentOf, ParentTicks
<1> QED
  BY <1>2, <1>4 DEF SealInv, WrittenOK, CompactOK

LEMMA NextSeals ==
    ASSUME CountInv, PendingOK, SealInv, WindowWithinGrace, [IngestNext]_ingestVars
    PROVE  SealInv'
<1>1. now \in Nat
  BY ClocksNat
<1>2. CASE Tick
  BY <1>1, <1>2, SealKept DEF Tick, workVars, memoryVars, rowVars, historyVars
<1>3. CASE WriteReport \/ StopBatcher \/ CompactStart \/ UNCHANGED ingestVars
  BY <1>1, <1>3, SealKept
  DEF WriteReport, StopBatcher, CompactStart, ingestVars, workVars, memoryVars,
                              rowVars, historyVars
<1>4. CASE Worker
  BY <1>4, WriteMinutesSeals, WriteSealSeals DEF Worker
<1>5. CASE CompactFlush \/ CompactSeal
  BY <1>5, CompactFlushSeals, CompactSealSeals
<1>6. CASE RestartPanel
  <2>1. /\ CloseStore /\ OpenStore(minuteRow') /\ UNCHANGED <<late, missed>>
        /\ batch' = {} /\ compactor' = "idle"
    BY <1>6 DEF RestartPanel, CompactEnds
  <2> QED
    BY <2>1, StoreClosed, ReopenSeals
<1>7. CASE Reload
  <2>1. /\ CloseStore /\ OpenStore(minuteRow) /\ late \subseteq late' /\ missed \subseteq missed'
        /\ batch' = {} /\ compactor' # "seal"
    BY <1>7 DEF Reload
  <2> QED
    BY <2>1, StoreClosed, ReopenSeals
<1>8. CASE Crash
  <2>1. /\ OpenStore(minuteRow) /\ UNCHANGED <<late, missed, minuteRow>>
        /\ batch' = {} /\ compactor' = "idle"
    BY <1>8 DEF Crash, CompactEnds
  <2> QED
    BY <2>1, ReopenSeals
<1> QED
  BY <1>2, <1>3, <1>4, <1>5, <1>6, <1>7, <1>8 DEF IngestNext, Compactor

\* A sealed parent none of whose minutes came late or was stored behind a
\* reload holds exactly what its stored minutes hold, when rawMemoryRetention is
\* no longer than coarseRollupGrace: both are ten minutes (raw_points.go,
\* coarse_rollup.go).
THEOREM ParentsMatch == WindowWithinGrace /\ IngestSpec => []ParentMatchesMinutes
<1> SUFFICES ASSUME WindowWithinGrace PROVE IngestSpec => []ParentMatchesMinutes
  OBVIOUS
<1>1. IngestInit => CountInv /\ PendingOK /\ SealInv
  <2>1. IngestInit => SealInv
    BY DEF IngestInit, SealInv, WrittenOK, CompactOK, ParentsOK, SealedOK
  <2> QED
    BY <2>1, InitCounts DEF IngestInit, PendingOK
<1>2. CountInv /\ PendingOK /\ SealInv /\ [IngestNext]_ingestVars
      => CountInv' /\ PendingOK' /\ SealInv'
  BY NextCounts, NextPends, NextSeals
<1>3. SealInv => ParentMatchesMinutes
  BY DEF SealInv, SealedOK, Prompt, ParentMatchesMinutes, TicksOf
<1>4. IngestSpec => [](CountInv /\ PendingOK /\ SealInv)
  BY <1>1, <1>2, PTL DEF IngestSpec
<1> QED
  BY <1>3, <1>4, PTL

-----------------------------------------------------------------------------
(* The upgrade: hours and days. *)

LEMMA DayTicksPositive == HourTicks * DayHours \in Nat \ {0}
  BY BucketsPositive

LEMMA HourIs ==
    ASSUME NEW t \in Nat
    PROVE  /\ HourOf(t) \in Nat /\ HourOf(t) * HourTicks <= t
           /\ t < (HourOf(t) + 1) * HourTicks
           /\ DayOf(t) \in Nat /\ DayOf(t) * (HourTicks * DayHours) <= t
           /\ t < (DayOf(t) + 1) * (HourTicks * DayHours)
<1>1. ASSUME NEW y \in Nat \ {0}
      PROVE  /\ t \div y \in Nat /\ (t \div y) * y <= t /\ t < (t \div y + 1) * y
  <2>1. 0 * y <= t
    OBVIOUS
  <2>2. 0 <= t \div y
    BY <2>1, DivAbove
  <2> QED
    BY <2>2, DivIs
<1> QED
  BY <1>1, BucketsPositive, DayTicksPositive DEF HourOf, DayOf

LEMMA BucketNat ==
    ASSUME NEW t \in Nat
    PROVE  HourOf(t) \in Nat /\ DayOf(t) \in Nat
  BY HourIs

\* An hour is in one day.
LEMMA SameDay ==
    ASSUME NEW t \in Nat, NEW u \in Nat, HourOf(t) = HourOf(u)
    PROVE  DayOf(t) <= DayOf(u)
<1>1. PICK h \in Nat, d \in Nat : h = HourOf(t) /\ d = DayOf(t)
  BY HourIs
<1>2. PICK k \in Int : k = d * DayHours /\ d * (HourTicks * DayHours) = k * HourTicks
  BY BucketsPositive
<1>3. k * HourTicks <= t
  BY <1>1, <1>2, HourIs
<1>4. k <= h
  BY <1>1, <1>3, BucketsPositive, DivAbove DEF HourOf
<1>5. k * HourTicks <= h * HourTicks
  BY <1>4, BucketsPositive
<1>6. h * HourTicks <= u
  BY <1>1, HourIs
<1>7. d * (HourTicks * DayHours) <= u
  BY <1>2, <1>5, <1>6, BucketsPositive
<1> QED
  BY <1>1, <1>7, DayTicksPositive, DivAbove DEF DayOf

LEMMA HourDueLater ==
    ASSUME NEW h \in Nat, NEW at \in Nat, NEW later \in Nat, at <= later, HourDue(h, at)
    PROVE  HourDue(h, later)
<1>1. (h + 1) * HourTicks \in Int
  BY BucketsPositive
<1> QED
  BY <1>1, BatchPositive DEF HourDue

LEMMA SamplesNat == Samples \subseteq Nat /\ UpgradeTime \in Nat
  BY HistoryBounds DEF Samples

-----------------------------------------------------------------------------
(* What the store makes of its rows. *)

LEMMA HeldPositive ==
    ASSUME NEW rows \in Tallies, NEW t \in Samples
    PROVE  /\ rows[t] \in Nat
           /\ t \in HeldIn(rows) <=> rows[t] > 0
           /\ HourOf(t) \notin HoursIn(rows) => rows[t] = 0
           /\ DayOf(t) \notin DaysIn(rows) => rows[t] = 0
  BY DEF Tallies, HeldIn, HoursIn, DaysIn

LEMMA PersistedIs ==
    ASSUME NEW st \in Stores, NEW S, NEW at
    PROVE  /\ Persisted(st, S, at) \in Stores
           /\ Persisted(st, S, at).hour = st.hour /\ Persisted(st, S, at).day = st.day
           /\ Persisted(st, S, at).dayKids = st.dayKids
           /\ Persisted(st, S, at).pending = st.pending
           /\ \A u \in Samples :
                /\ Persisted(st, S, at).minute[u] = IF u \in S THEN st.minute[u] + 1 ELSE st.minute[u]
                /\ Persisted(st, S, at).hourKids[u] # st.hourKids[u]
                     => u \in S /\ ~HourDue(HourOf(u), at)
<1> DEFINE minute == [t \in Samples |-> IF t \in S THEN st.minute[t] + 1 ELSE st.minute[t]]
           kids == [t \in Samples |-> IF t \in S /\ ~HourDue(HourOf(t), at)
                                      THEN minute[t] ELSE st.hourKids[t]]
<1>1. Persisted(st, S, at) = [st EXCEPT !.minute = minute, !.hourKids = kids]
  BY DEF Persisted
<1>2. minute \in Tallies /\ kids \in Tallies
  BY DEF Stores, Tallies
<1>3. \A u \in Samples : /\ minute[u] = IF u \in S THEN st.minute[u] + 1 ELSE st.minute[u]
                         /\ kids[u] # st.hourKids[u] => u \in S /\ ~HourDue(HourOf(u), at)
  OBVIOUS
<1> HIDE DEF minute, kids
<1> QED
  BY <1>1, <1>2, <1>3 DEF Stores

LEMMA ReloadedIs ==
    ASSUME NEW st \in Stores
    PROVE  /\ Reloaded(st) \in Stores /\ ~Reloaded(st).pending
           /\ Reloaded(st).minute = st.minute
           /\ Reloaded(st).hour = st.hour /\ Reloaded(st).day = st.day
           /\ \A u \in Samples :
                /\ \/ Reloaded(st).hourKids[u] = st.hourKids[u]
                   \/ HourOf(u) \notin HoursIn(st.hour) /\ Reloaded(st).hourKids[u] = st.minute[u]
                /\ Reloaded(st).dayKids[u] \in {st.dayKids[u], st.hour[u]}
<1>1. CASE ~st.pending
  BY <1>1 DEF Reloaded
<1>2. CASE st.pending
  <2> DEFINE hourKids == [t \in Samples |-> IF HourOf(t) \in HoursIn(st.hour) THEN st.hourKids[t]
                                            ELSE st.minute[t]]
             dayKids == [t \in Samples |-> IF HourOf(t) \in HoursIn(st.hour)
                                              /\ DayOf(t) \notin DaysIn(st.day)
                                           THEN st.hour[t] ELSE st.dayKids[t]]
  <2>1. Reloaded(st) = [st EXCEPT !.pending = FALSE, !.hourKids = hourKids, !.dayKids = dayKids]
    BY <1>2 DEF Reloaded
  <2>2. hourKids \in Tallies /\ dayKids \in Tallies
    BY DEF Stores, Tallies
  <2>3. \A u \in Samples :
          /\ \/ hourKids[u] = st.hourKids[u]
             \/ HourOf(u) \notin HoursIn(st.hour) /\ hourKids[u] = st.minute[u]
          /\ dayKids[u] \in {st.dayKids[u], st.hour[u]}
    OBVIOUS
  <2> HIDE DEF hourKids, dayKids
  <2> QED
    BY <2>1, <2>2, <2>3 DEF Stores
<1> QED
  BY <1>1, <1>2 DEF Stores

\* An hour with children in memory that is past its grace.
Falls(st, at, u) == HourOf(u) \in HoursIn(st.hourKids) /\ HourDue(HourOf(u), at)

LEMMA HoursSealedIs ==
    ASSUME NEW st \in Stores, NEW at
    PROVE  /\ HoursSealed(st, at) \in Stores
           /\ HoursSealed(st, at).minute = st.minute /\ HoursSealed(st, at).day = st.day
           /\ HoursSealed(st, at).pending = st.pending
           /\ \A u \in Samples :
                IF Falls(st, at, u)
                THEN /\ HoursSealed(st, at).hour[u] = st.hourKids[u]
                     /\ HoursSealed(st, at).dayKids[u] = st.hourKids[u]
                     /\ HoursSealed(st, at).hourKids[u] = 0
                ELSE /\ HoursSealed(st, at).hour[u] = st.hour[u]
                     /\ HoursSealed(st, at).dayKids[u] = st.dayKids[u]
                     /\ HoursSealed(st, at).hourKids[u] = st.hourKids[u]
<1> DEFINE due == {t \in Samples : HourOf(t) \in HoursIn(st.hourKids) /\ HourDue(HourOf(t), at)}
           hour == [t \in Samples |-> IF t \in due THEN st.hourKids[t] ELSE st.hour[t]]
           dayKids == [t \in Samples |-> IF t \in due THEN st.hourKids[t] ELSE st.dayKids[t]]
           hourKids == [t \in Samples |-> IF t \in due THEN 0 ELSE st.hourKids[t]]
<1>1. HoursSealed(st, at) = [st EXCEPT !.hour = hour, !.dayKids = dayKids, !.hourKids = hourKids]
  BY DEF HoursSealed
<1>2. \A u \in Samples : u \in due <=> Falls(st, at, u)
  BY DEF Falls
<1> HIDE DEF due
<1>3. hour \in Tallies /\ dayKids \in Tallies /\ hourKids \in Tallies
  BY DEF Stores, Tallies
<1>4. \A u \in Samples :
        IF Falls(st, at, u)
        THEN hour[u] = st.hourKids[u] /\ dayKids[u] = st.hourKids[u] /\ hourKids[u] = 0
        ELSE hour[u] = st.hour[u] /\ dayKids[u] = st.dayKids[u] /\ hourKids[u] = st.hourKids[u]
  BY <1>2
<1> HIDE DEF hour, dayKids, hourKids
<1> QED
  BY <1>1, <1>3, <1>4 DEF Stores

LEMMA DaysSealedIs ==
    ASSUME NEW st \in Stores, NEW at
    PROVE  /\ DaysSealed(st, at) \in Stores
           /\ DaysSealed(st, at).minute = st.minute /\ DaysSealed(st, at).hour = st.hour
           /\ DaysSealed(st, at).hourKids = st.hourKids /\ DaysSealed(st, at).pending = st.pending
           /\ \A u \in Samples :
                /\ DaysSealed(st, at).dayKids[u] \in {0, st.dayKids[u]}
                /\ DayOf(u) \notin DaysIn(st.dayKids) => DaysSealed(st, at).day[u] = st.day[u]
<1> DEFINE due == {t \in Samples : DayOf(t) \in DaysIn(st.dayKids) /\ DayDue(DayOf(t), at)}
           day == [t \in Samples |-> IF t \in due THEN st.dayKids[t] ELSE st.day[t]]
           dayKids == [t \in Samples |-> IF t \in due THEN 0 ELSE st.dayKids[t]]
<1>1. DaysSealed(st, at) = [st EXCEPT !.day = day, !.dayKids = dayKids]
  BY DEF DaysSealed
<1>2. \A u \in Samples : DayOf(u) \notin DaysIn(st.dayKids) => u \notin due
  OBVIOUS
<1> HIDE DEF due
<1>3. day \in Tallies /\ dayKids \in Tallies
  BY DEF Stores, Tallies
<1>4. \A u \in Samples : /\ dayKids[u] \in {0, st.dayKids[u]}
                         /\ DayOf(u) \notin DaysIn(st.dayKids) => day[u] = st.day[u]
  BY <1>2
<1> HIDE DEF day, dayKids
<1> QED
  BY <1>1, <1>3, <1>4 DEF Stores

-----------------------------------------------------------------------------
(* The inductive invariant of the upgrade. *)

\* What the legacy tables hold: rows of before the upgrade, and no minute of a
\* day that was folded without its hour.
LegacyOK ==
    /\ legacy.points \subseteq 0..UpgradeTime-1
    /\ HeldIn(legacy.minute) \subseteq 0..UpgradeTime-1
    /\ {legacy.minute, legacy.hour, legacy.day} \subseteq [Samples -> {0, 1}]
    /\ \A t \in HeldIn(legacy.day) : DayOf(t) < DayOf(UpgradeTime)
    /\ \A t \in HeldIn(legacy.day), u \in HeldIn(legacy.minute) :
           DayOf(t) = DayOf(u) => u \in HeldIn(legacy.hour)

\* The hour of a sample had a row and was over, with its grace, at the upgrade.
KeptHour(u) == HourOf(u) \in HoursIn(legacy.hour) /\ HourDue(HourOf(u), UpgradeTime)

\* Its day has nothing but a row.
LoneDay(u) == /\ DayOf(u) \in DaysIn(legacy.day) /\ DayOf(u) \notin DaysIn(legacy.hour)
              /\ DayOf(u) \notin {DayOf(v) : v \in legacy.points}

\* A store with no child of such an hour and with nothing else of such a day.
Building(st) ==
    /\ st \in Stores
    /\ \A u \in Samples : KeptHour(u) => st.hourKids[u] = 0
    /\ \A u \in Samples : LoneDay(u) => /\ st.minute[u] = 0 /\ st.hour[u] = 0
                                        /\ st.hourKids[u] = 0 /\ st.dayKids[u] = 0

\* One that has their old rows.
Finished(st) ==
    /\ Building(st)
    /\ \A u \in Samples : KeptHour(u) => st.hour[u] = legacy.hour[u]
    /\ \A u \in Samples : LoneDay(u) => st.day[u] = legacy.day[u]

Merged == legacy.points \union HeldIn(legacy.minute)

\* The store of each stage, with each sample once in its minute.
StageOK ==
    /\ stage = "points" => Building(shadow) /\ shadow.minute = Row(copied)
    /\ stage \in {"daily", "compact", "switch"} => Finished(shadow) /\ shadow.minute = Row(Merged)
    /\ stage = "serving" => Finished(rebuilt) /\ rebuilt.minute = Row(Merged \union stored)
    /\ stage # "serving" => stored = {}
    /\ \A t \in stored : UpgradeTime <= t

HistoryInv == HistoryTypeOK /\ LegacyOK /\ StageOK

-----------------------------------------------------------------------------
(* What sealing keeps of a store. *)

LEMMA HoursSealedKeeps ==
    ASSUME NEW st \in Stores, NEW at \in Nat, UpgradeTime <= at,
           \A u \in Samples : LoneDay(u) => /\ st.minute[u] = 0 /\ st.hour[u] = 0
                                            /\ st.hourKids[u] = 0 /\ st.dayKids[u] = 0
    PROVE  Building(HoursSealed(st, at))
<1>1. PICK r : r = HoursSealed(st, at)
  OBVIOUS
<1>2. /\ r \in Stores /\ r.minute = st.minute
      /\ \A u \in Samples :
                IF Falls(st, at, u)
                THEN /\ r.hour[u] = st.hourKids[u] /\ r.dayKids[u] = st.hourKids[u]
                     /\ r.hourKids[u] = 0
                ELSE /\ r.hour[u] = st.hour[u] /\ r.dayKids[u] = st.dayKids[u]
                     /\ r.hourKids[u] = st.hourKids[u]
  BY <1>1, HoursSealedIs
<1>3. ASSUME NEW u \in Samples, KeptHour(u) PROVE r.hourKids[u] = 0
  <2>1. HourDue(HourOf(u), at)
    BY <1>3, HourDueLater, HourIs, SamplesNat DEF KeptHour
  <2>2. ~Falls(st, at, u) => st.hourKids[u] = 0
    BY <2>1, HeldPositive DEF Falls, Stores
  <2> QED
    BY <1>2, <2>2
<1>4. \A u \in Samples : LoneDay(u) => /\ r.minute[u] = 0 /\ r.hour[u] = 0
                                       /\ r.hourKids[u] = 0 /\ r.dayKids[u] = 0
  BY <1>2
<1> QED
  BY <1>1, <1>2, <1>3, <1>4 DEF Building

\* Days and hours with children hold some.
LEMMA NotFalls ==
    ASSUME NEW st, NEW at, \A u \in Samples : KeptHour(u) => st.hourKids[u] = 0,
           NEW u \in Samples, KeptHour(u)
    PROVE  ~Falls(st, at, u)
  BY DEF Falls, HoursIn, HeldIn, KeptHour

LEMMA LoneHasNoKids ==
    ASSUME NEW st, \A u \in Samples : LoneDay(u) => st.dayKids[u] = 0,
           NEW u \in Samples, LoneDay(u)
    PROVE  DayOf(u) \notin DaysIn(st.dayKids)
  BY DEF DaysIn, HeldIn, LoneDay

LEMMA HoursSealedFinished ==
    ASSUME NEW st, Finished(st), NEW at \in Nat, UpgradeTime <= at
    PROVE  Finished(HoursSealed(st, at))
<1>1. st \in Stores /\ Building(HoursSealed(st, at))
  BY HoursSealedKeeps DEF Finished, Building
<1>2. \A u \in Samples : KeptHour(u) => ~Falls(st, at, u)
  BY NotFalls DEF Finished, Building
<1> QED
  BY <1>1, <1>2, HoursSealedIs DEF Finished

LEMMA DaysSealedKeeps ==
    ASSUME NEW st, Building(st), NEW at
    PROVE  /\ Building(DaysSealed(st, at))
           /\ Finished(st) => Finished(DaysSealed(st, at))
<1>1. st \in Stores
  BY DEF Building
<1>2. PICK r : r = DaysSealed(st, at)
  OBVIOUS
<1>3. /\ r \in Stores /\ r.minute = st.minute /\ r.hour = st.hour /\ r.hourKids = st.hourKids
      /\ \A u \in Samples :
                /\ r.dayKids[u] \in {0, st.dayKids[u]}
                /\ DayOf(u) \notin DaysIn(st.dayKids) => r.day[u] = st.day[u]
  BY <1>1, <1>2, DaysSealedIs
<1>4. Building(r)
  BY <1>3 DEF Building
<1>5. Finished(st) => Finished(r)
  BY <1>3, <1>4, LoneHasNoKids DEF Finished, Building
<1> QED
  BY <1>2, <1>4, <1>5

\* Rows that are read back: an hour with a row takes no children.
LEMMA ReloadedFinished ==
    ASSUME NEW st, Finished(st)
    PROVE  Finished(Reloaded(st))
<1>1. st \in Stores
  BY DEF Finished, Building
<1>2. PICK r : r = Reloaded(st)
  OBVIOUS
<1>3. /\ r \in Stores /\ r.minute = st.minute /\ r.hour = st.hour /\ r.day = st.day
      /\ \A u \in Samples :
                /\ \/ r.hourKids[u] = st.hourKids[u]
                   \/ HourOf(u) \notin HoursIn(st.hour) /\ r.hourKids[u] = st.minute[u]
                /\ r.dayKids[u] \in {st.dayKids[u], st.hour[u]}
  BY <1>1, <1>2, ReloadedIs
<1>4. ASSUME NEW u \in Samples, KeptHour(u) PROVE HourOf(u) \in HoursIn(st.hour)
  <2>1. PICK v \in Samples : legacy.hour[v] > 0 /\ HourOf(v) = HourOf(u)
    BY <1>4 DEF KeptHour, HoursIn, HeldIn
  <2>2. KeptHour(v)
    BY <1>4, <2>1 DEF KeptHour
  <2>3. st.hour[v] > 0
    BY <2>1, <2>2 DEF Finished
  <2> QED
    BY <2>1, <2>3 DEF HoursIn, HeldIn
<1>5. Building(r)
  BY <1>3, <1>4 DEF Finished, Building
<1> QED
  BY <1>2, <1>3, <1>5 DEF Finished

LEMMA SealedIs ==
    ASSUME NEW st \in Stores, NEW at
    PROVE  /\ Sealed(st, at) \in Stores /\ Sealed(st, at).minute = st.minute
           /\ ~Sealed(st, at).pending
<1>1. Reloaded(st) \in Stores /\ ~Reloaded(st).pending /\ Reloaded(st).minute = st.minute
  BY ReloadedIs
<1>2. PICK x : x = HoursSealed(Reloaded(st), at)
  OBVIOUS
<1>3. x \in Stores /\ ~x.pending /\ x.minute = st.minute
  BY <1>1, <1>2, HoursSealedIs
<1> QED
  BY <1>2, <1>3, DaysSealedIs DEF Sealed

LEMMA SealedFinished ==
    ASSUME NEW st, Finished(st), NEW at \in Nat, UpgradeTime <= at
    PROVE  Finished(Sealed(st, at))
<1>1. PICK x : x = HoursSealed(Reloaded(st), at)
  OBVIOUS
<1>2. Finished(x)
  BY <1>1, ReloadedFinished, HoursSealedFinished
<1> QED
  BY <1>1, <1>2, DaysSealedKeeps DEF Sealed, Finished

\* A store in building is sealed: what is read back of hours past their grace is
\* sealed at once.
LEMMA SealedBuilding ==
    ASSUME NEW st \in Stores, NEW at \in Nat, UpgradeTime <= at,
           \A u \in Samples : LoneDay(u) => /\ st.minute[u] = 0 /\ st.hour[u] = 0
                                            /\ st.hourKids[u] = 0 /\ st.dayKids[u] = 0
    PROVE  Building(Sealed(st, at))
<1>1. PICK y : y = Reloaded(st)
  OBVIOUS
<1>2. y \in Stores /\ \A u \in Samples : LoneDay(u) => /\ y.minute[u] = 0 /\ y.hour[u] = 0
                                                       /\ y.hourKids[u] = 0 /\ y.dayKids[u] = 0
  BY <1>1, ReloadedIs
<1>3. PICK x : x = HoursSealed(y, at)
  OBVIOUS
<1>4. Building(x)
  BY <1>2, <1>3, HoursSealedKeeps
<1> QED
  BY <1>1, <1>3, <1>4, DaysSealedKeeps DEF Sealed

-----------------------------------------------------------------------------
(* Every step of the upgrade and of the rebuilt store. *)

LEMMA StoreNext ==
    ASSUME NEW s, legacy' = legacy
    PROVE  /\ Building(s) /\ shadow' = s => Building(shadow)'
           /\ Finished(s) /\ shadow' = s => Finished(shadow)'
           /\ Finished(s) /\ rebuilt' = s => Finished(rebuilt)'
<1>1. \A u : (KeptHour(u)' <=> KeptHour(u)) /\ (LoneDay(u)' <=> LoneDay(u))
  BY DEF KeptHour, LoneDay
<1>2. Building(s) /\ shadow' = s => Building(shadow)'
  BY <1>1 DEF Building
<1>3. Building(s) /\ rebuilt' = s => Building(rebuilt)'
  BY <1>1 DEF Building
<1> QED
  BY <1>1, <1>2, <1>3 DEF Finished

LEMMA LegacyKept ==
    ASSUME LegacyOK, legacy' = legacy
    PROVE  LegacyOK' /\ Merged' = Merged
  BY DEF LegacyOK, Merged

LEMMA EmptyBuilding ==
    ASSUME NEW minute \in Tallies, NEW hour \in Tallies, NEW day \in Tallies
    PROVE  /\ Nothing \in Tallies /\ \A u \in Samples : Nothing[u] = 0
           /\ Opened(minute, hour, day) \in Stores
           /\ Opened(minute, hour, day).minute = minute /\ Opened(minute, hour, day).hour = hour
           /\ Opened(minute, hour, day).day = day
           /\ Opened(minute, hour, day).hourKids = Nothing
           /\ Opened(minute, hour, day).dayKids = Nothing
<1>1. Nothing \in Tallies /\ \A u \in Samples : Nothing[u] = 0
  BY DEF Nothing, Tallies
<1> QED
  BY <1>1 DEF Opened, Stores

LEMMA EmptyStore ==
    /\ Nothing \in Tallies /\ \A u \in Samples : Nothing[u] = 0
    /\ Opened(Nothing, Nothing, Nothing) \in Stores
    /\ Opened(Nothing, Nothing, Nothing).minute = Nothing
    /\ Building(Opened(Nothing, Nothing, Nothing))
<1>1. Nothing \in Tallies /\ \A u \in Samples : Nothing[u] = 0
  BY DEF Nothing, Tallies
<1> QED
  BY <1>1, EmptyBuilding DEF Building

LEMMA RowIs ==
    ASSUME NEW S
    PROVE  Row(S) \in Tallies /\ \A u \in Samples : Row(S)[u] = IF u \in S THEN 1 ELSE 0
  BY DEF Row, Tallies

LEMMA HeldRow ==
    ASSUME NEW S \in SUBSET Samples
    PROVE  HeldIn(Row(S)) = S /\ Row(S) \in [Samples -> {0, 1}]
  BY DEF HeldIn, Row

\* A store that is closed and opened keeps its old rows.
LEMMA ReopenedFinished ==
    ASSUME NEW st, Finished(st)
    PROVE  LET o == Opened(st.minute, st.hour, st.day)
           IN  /\ Finished(Reloaded(o)) /\ Reloaded(o) \in Stores
               /\ Reloaded(o).minute = st.minute /\ ~Reloaded(o).pending
<1>1. st \in Stores /\ st.minute \in Tallies /\ st.hour \in Tallies /\ st.day \in Tallies
  BY DEF Finished, Building, Stores
<1>2. PICK o : o = Opened(st.minute, st.hour, st.day)
  OBVIOUS
<1>3. /\ o \in Stores /\ o.minute = st.minute /\ o.hour = st.hour /\ o.day = st.day
      /\ o.hourKids = Nothing /\ o.dayKids = Nothing /\ \A u \in Samples : Nothing[u] = 0
  BY <1>1, <1>2, EmptyBuilding
<1>4. Finished(o)
  BY <1>3 DEF Finished, Building
<1> QED
  BY <1>2, <1>3, <1>4, ReloadedFinished, ReloadedIs

LEMMA InitHistory == HistoryInit => HistoryInv
<1> SUFFICES ASSUME HistoryInit PROVE HistoryInv
  OBVIOUS
<1>1. PICK seen \in SUBSET (0..UpgradeTime-1), foldedTo \in 0..UpgradeTime,
           pointsFrom \in 0..UpgradeTime, minutesFrom \in 0..UpgradeTime,
           hoursFrom \in 0..HourOf(UpgradeTime) :
             /\ hoursFrom * HourTicks <= minutesFrom
             /\ legacy = LegacyTables(seen, pointsFrom, minutesFrom, hoursFrom, foldedTo)
  BY DEF HistoryInit, LegacyInit
<1>2. /\ legacy.points = {t \in seen : pointsFrom <= t}
      /\ legacy.minute = Row({t \in seen : minutesFrom <= t /\ t < foldedTo})
      /\ legacy.hour = Row({t \in seen : hoursFrom <= HourOf(t) /\ HourOf(t) < HourOf(foldedTo)})
      /\ legacy.day = Row({t \in seen : DayOf(t) < DayOf(foldedTo)})
  BY <1>1 DEF LegacyTables
<1>3. UpgradeTime \in Nat /\ seen \subseteq Samples /\ seen \subseteq Nat /\ foldedTo \in Nat
      /\ hoursFrom \in Nat /\ minutesFrom \in Nat /\ Samples \subseteq Nat
  BY <1>1, HistoryBounds, HourIs DEF Samples
<1>4. /\ HeldIn(legacy.minute) = {t \in seen : minutesFrom <= t /\ t < foldedTo}
      /\ HeldIn(legacy.hour) = {t \in seen : hoursFrom <= HourOf(t) /\ HourOf(t) < HourOf(foldedTo)}
      /\ HeldIn(legacy.day) = {t \in seen : DayOf(t) < DayOf(foldedTo)}
      /\ {legacy.minute, legacy.hour, legacy.day} \subseteq [Samples -> {0, 1}]
  <2> DEFINE M == {t \in seen : minutesFrom <= t /\ t < foldedTo}
             H == {t \in seen : hoursFrom <= HourOf(t) /\ HourOf(t) < HourOf(foldedTo)}
             D == {t \in seen : DayOf(t) < DayOf(foldedTo)}
  <2>1. M \subseteq Samples /\ H \subseteq Samples /\ D \subseteq Samples
    BY <1>3
  <2>2. legacy.minute = Row(M) /\ legacy.hour = Row(H) /\ legacy.day = Row(D)
    BY <1>2
  <2> HIDE DEF M, H, D
  <2>3. /\ HeldIn(legacy.minute) = M /\ HeldIn(legacy.hour) = H /\ HeldIn(legacy.day) = D
        /\ {legacy.minute, legacy.hour, legacy.day} \subseteq [Samples -> {0, 1}]
    BY <2>1, <2>2, HeldRow
  <2> QED
    BY <2>3 DEF M, H, D
<1>5. LegacyOK
  <2>1. /\ legacy.points \subseteq 0..UpgradeTime-1
        /\ HeldIn(legacy.minute) \subseteq 0..UpgradeTime-1
    BY <1>2, <1>4
  <2>2. {legacy.minute, legacy.hour, legacy.day} \subseteq [Samples -> {0, 1}]
    BY <1>2, <1>4
  <2>3. ASSUME NEW t \in HeldIn(legacy.day) PROVE DayOf(t) < DayOf(foldedTo)
    BY <1>2, <1>4
  <2>4. DayOf(foldedTo) <= DayOf(UpgradeTime)
    BY <1>1, <1>3, DayTicksPositive, DivMonotone DEF DayOf
  <2>5. ASSUME NEW t \in HeldIn(legacy.day) PROVE DayOf(t) < DayOf(UpgradeTime)
    <3>1. t \in Nat
      BY <1>3 DEF HeldIn
    <3> QED
      BY <1>3, <2>3, <2>4, <3>1, BucketNat
  <2>6. ASSUME NEW t \in HeldIn(legacy.day), NEW u \in HeldIn(legacy.minute), DayOf(t) = DayOf(u)
        PROVE  u \in HeldIn(legacy.hour)
    <3>1. u \in seen /\ minutesFrom <= u /\ u < foldedTo /\ u \in Nat
      BY <1>2, <1>3, <1>4
    <3>2. hoursFrom * HourTicks <= u /\ hoursFrom * HourTicks \in Int
      BY <1>1, <1>3, <3>1, BucketsPositive
    <3>3. hoursFrom <= HourOf(u)
      BY <1>3, <3>1, <3>2, BucketsPositive, DivAbove DEF HourOf
    <3>4. HourOf(u) <= HourOf(foldedTo)
      BY <1>3, <3>1, BucketsPositive, DivMonotone DEF HourOf
    <3>5. HourOf(u) # HourOf(foldedTo)
      <4> SUFFICES ASSUME HourOf(u) = HourOf(foldedTo) PROVE FALSE
        OBVIOUS
      <4>1. DayOf(foldedTo) <= DayOf(u)
        BY <1>3, <3>1, SameDay
      <4>2. DayOf(u) < DayOf(foldedTo)
        BY <2>3, <2>6
      <4> QED
        BY <1>3, <3>1, <4>1, <4>2, BucketNat
    <3>6. HourOf(u) < HourOf(foldedTo)
      BY <1>3, <3>1, <3>4, <3>5, BucketNat
    <3> QED
      BY <1>2, <1>3, <1>4, <3>1, <3>3, <3>6
  <2> QED
    BY <2>1, <2>2, <2>5, <2>6 DEF LegacyOK
<1>6. HistoryTypeOK
  <2>1. {legacy.minute, legacy.hour, legacy.day} \subseteq Tallies
    BY <1>2, RowIs
  <2>2. legacy.points \subseteq Samples
    BY <1>2, <1>3
  <2>3. /\ clock = UpgradeTime /\ stage = "guide" /\ copied = {} /\ stored = {}
        /\ shadow = Opened(Nothing, Nothing, Nothing) /\ rebuilt = Opened(Nothing, Nothing, Nothing)
        /\ aborts = 0 /\ reopens = 0
    BY DEF HistoryInit
  <2>4. UpgradeTime \in UpgradeTime..LastTick /\ 0 \in 0..MaxAborts /\ 0 \in 0..MaxReopens
    BY HistoryBounds
  <2> QED
    BY <2>1, <2>2, <2>3, <2>4, EmptyStore DEF HistoryTypeOK
<1>7. StageOK
  BY DEF HistoryInit, StageOK
<1> QED
  BY <1>5, <1>6, <1>7 DEF HistoryInv

\* A step that leaves the tables as they are.
LEMMA HistoryKept ==
    ASSUME HistoryInv, UNCHANGED <<stage, legacy, copied, shadow, rebuilt, stored>>,
           clock' \in UpgradeTime..LastTick, aborts' \in 0..MaxAborts, reopens' \in 0..MaxReopens
    PROVE  HistoryInv'
<1>1. LegacyOK' /\ Merged' = Merged
  BY LegacyKept DEF HistoryInv
<1>2. HistoryTypeOK'
  BY DEF HistoryInv, HistoryTypeOK
<1>3. StageOK'
  BY <1>1, StoreNext DEF HistoryInv, StageOK
<1> QED
  BY <1>1, <1>2, <1>3 DEF HistoryInv

LEMMA RebuildStartsKeeps ==
    ASSUME HistoryInv, RebuildStarts
    PROVE  HistoryInv'
<1> USE DEF RebuildStarts
<1>1. LegacyOK'
  BY LegacyKept DEF HistoryInv
<1>2. shadow' = Opened(Nothing, Nothing, Nothing)
  BY DEF EmptyShadow
<1>3. HistoryTypeOK'
  BY <1>2, EmptyStore DEF HistoryInv, HistoryTypeOK
<1>4. Building(shadow)' /\ shadow'.minute = Row(copied')
  BY <1>2, EmptyStore, StoreNext DEF Row, Nothing
<1>5. StageOK'
  BY <1>4 DEF HistoryInv, StageOK
<1> QED
  BY <1>1, <1>3, <1>5 DEF HistoryInv

LEMMA CopyLegacyPointsKeeps ==
    ASSUME HistoryInv, CopyLegacyPoints
    PROVE  HistoryInv'
<1>1. PICK points : points = Eldest(legacy.points \ copied, PointBatch)
  OBVIOUS
<1>2. /\ stage = "points" /\ stage' = "points" /\ copied' = copied \union points
      /\ shadow' = Sealed(Persisted(shadow, points, clock), clock)
      /\ UNCHANGED <<clock, legacy, rebuilt, stored, aborts, reopens>>
  BY <1>1 DEF CopyLegacyPoints
<1>3. points \subseteq legacy.points \ copied
  BY <1>1 DEF Eldest
<1>4. /\ shadow \in Stores /\ Building(shadow) /\ shadow.minute = Row(copied)
      /\ clock \in Nat /\ UpgradeTime <= clock
  BY <1>2, SamplesNat DEF HistoryInv, HistoryTypeOK, StageOK
<1>5. PICK st : st = Persisted(shadow, points, clock)
  OBVIOUS
<1>6. /\ st \in Stores /\ st.hour = shadow.hour /\ st.dayKids = shadow.dayKids
      /\ \A u \in Samples :
           /\ st.minute[u] = IF u \in points THEN shadow.minute[u] + 1 ELSE shadow.minute[u]
           /\ st.hourKids[u] # shadow.hourKids[u] => u \in points
  BY <1>4, <1>5, PersistedIs
<1>7. \A u \in Samples : LoneDay(u) => u \notin points
  BY <1>3 DEF LoneDay
<1>8. \A u \in Samples : LoneDay(u) => /\ st.minute[u] = 0 /\ st.hour[u] = 0
                                       /\ st.hourKids[u] = 0 /\ st.dayKids[u] = 0
  BY <1>4, <1>6, <1>7 DEF Building
<1>9. Building(shadow)'
  BY <1>2, <1>4, <1>5, <1>6, <1>8, SealedBuilding, StoreNext
<1>10. shadow' \in Stores /\ shadow'.minute = st.minute
  BY <1>2, <1>5, <1>6, SealedIs
<1>11. st.minute = Row(copied')
  <2>1. \A u \in Samples : st.minute[u] = Row(copied')[u]
    BY <1>2, <1>3, <1>4, <1>6, RowIs
  <2>2. st.minute \in Tallies /\ Row(copied') \in Tallies
    BY <1>6, RowIs DEF Stores
  <2> QED
    BY <2>1, <2>2 DEF Tallies
<1>12. HistoryTypeOK'
  BY <1>2, <1>3, <1>10 DEF HistoryInv, HistoryTypeOK
<1>13. StageOK'
  BY <1>2, <1>9, <1>10, <1>11 DEF HistoryInv, StageOK
<1> QED
  BY <1>2, <1>12, <1>13, LegacyKept DEF HistoryInv

\* The old rows that CopyLegacyRollups writes have nothing in a lone day.
LEMMA LoneLegacy ==
    ASSUME LegacyOK, NEW u \in Samples, LoneDay(u)
    PROVE  /\ u \notin legacy.points /\ u \notin HeldIn(legacy.minute)
           /\ legacy.hour[u] = 0
<1>1. u \notin HeldIn(legacy.hour)
  BY DEF LoneDay, DaysIn
<1>2. legacy.hour[u] = 0
  BY <1>1 DEF LegacyOK, HeldIn
<1>3. PICK t \in HeldIn(legacy.day) : DayOf(t) = DayOf(u)
  BY DEF LoneDay, DaysIn
<1>4. u \notin HeldIn(legacy.minute)
  BY <1>1, <1>3 DEF LegacyOK
<1> QED
  BY <1>2, <1>4 DEF LoneDay

LEMMA OverwrittenIs ==
    ASSUME NEW rows \in Tallies, NEW old \in Tallies, NEW buckets
    PROVE  /\ Overwritten(rows, old, buckets) \in Tallies
           /\ \A u \in Samples : Overwritten(rows, old, buckets)[u]
                                   = IF u \in buckets THEN old[u] ELSE rows[u]
  BY DEF Overwritten, Tallies

LEMMA CopyLegacyRollupsKeeps ==
    ASSUME HistoryInv, CopyLegacyRollups
    PROVE  HistoryInv'
<1>1. PICK minute, hour, day, oldHours, oldDays :
        /\ oldHours = {t \in Samples : HourOf(t) \in HoursIn(legacy.hour)}
        /\ oldDays = {t \in Samples : DayOf(t) \in DaysIn(legacy.day)}
        /\ minute = Overwritten(shadow.minute, legacy.minute, HeldIn(legacy.minute))
        /\ hour = Overwritten(shadow.hour, legacy.hour, oldHours)
        /\ day = Overwritten(shadow.day, legacy.day, oldDays)
  OBVIOUS
<1>2. /\ stage = "points" /\ copied = legacy.points /\ stage' = "daily"
      /\ shadow' = [shadow EXCEPT !.minute = minute, !.hour = hour, !.day = day]
      /\ UNCHANGED <<clock, legacy, copied, rebuilt, stored, aborts, reopens>>
  BY <1>1 DEF CopyLegacyRollups
<1>3. /\ shadow \in Stores /\ Building(shadow) /\ shadow.minute = Row(copied) /\ LegacyOK
      /\ shadow.minute \in Tallies /\ shadow.hour \in Tallies /\ shadow.day \in Tallies
      /\ legacy.minute \in Tallies /\ legacy.hour \in Tallies /\ legacy.day \in Tallies
  BY <1>2 DEF HistoryInv, HistoryTypeOK, StageOK, Stores
<1>4. /\ minute \in Tallies /\ hour \in Tallies /\ day \in Tallies
      /\ \A u \in Samples :
           /\ minute[u] = IF u \in HeldIn(legacy.minute) THEN legacy.minute[u] ELSE shadow.minute[u]
           /\ hour[u] = IF u \in oldHours THEN legacy.hour[u] ELSE shadow.hour[u]
           /\ day[u] = IF u \in oldDays THEN legacy.day[u] ELSE shadow.day[u]
  <2>1. /\ minute \in Tallies
        /\ \A u \in Samples : minute[u] = IF u \in HeldIn(legacy.minute) THEN legacy.minute[u]
                                         ELSE shadow.minute[u]
    BY <1>1, <1>3, OverwrittenIs
  <2>2. /\ hour \in Tallies
        /\ \A u \in Samples : hour[u] = IF u \in oldHours THEN legacy.hour[u] ELSE shadow.hour[u]
    BY <1>1, <1>3, OverwrittenIs
  <2>3. /\ day \in Tallies
        /\ \A u \in Samples : day[u] = IF u \in oldDays THEN legacy.day[u] ELSE shadow.day[u]
    BY <1>1, <1>3, OverwrittenIs
  <2> QED
    BY <2>1, <2>2, <2>3
<1>5. PICK s : s = shadow'
  OBVIOUS
<1>6. /\ s \in Stores /\ s.minute = minute /\ s.hour = hour /\ s.day = day
      /\ s.hourKids = shadow.hourKids /\ s.dayKids = shadow.dayKids
  BY <1>2, <1>3, <1>4, <1>5 DEF Stores
<1>7. ASSUME NEW u \in Samples, LoneDay(u)
      PROVE  s.minute[u] = 0 /\ s.hour[u] = 0 /\ s.day[u] = legacy.day[u]
  <2>1. u \notin legacy.points /\ u \notin HeldIn(legacy.minute) /\ legacy.hour[u] = 0
    BY <1>3, <1>7, LoneLegacy
  <2> QED
    BY <1>1, <1>3, <1>4, <1>6, <1>7, <2>1 DEF Building, LoneDay
<1>8. \A u \in Samples : KeptHour(u) => s.hour[u] = legacy.hour[u]
  BY <1>1, <1>4, <1>6 DEF KeptHour
<1>9. Finished(s)
  BY <1>3, <1>6, <1>7, <1>8 DEF Finished, Building
<1>10. s.minute = Row(Merged)
  <2>1. ASSUME NEW u \in Samples PROVE minute[u] = Row(Merged)[u]
    <3>1. u \in HeldIn(legacy.minute) => legacy.minute[u] = 1
      BY <1>3 DEF LegacyOK, HeldIn
    <3>2. Row(copied)[u] = (IF u \in legacy.points THEN 1 ELSE 0)
          /\ Row(Merged)[u] = IF u \in Merged THEN 1 ELSE 0
      BY <1>2, RowIs
    <3> QED
      BY <1>3, <1>4, <3>1, <3>2 DEF Merged
  <2>2. Row(Merged) \in Tallies
    BY RowIs
  <2> QED
    BY <1>4, <1>6, <2>1, <2>2 DEF Tallies
<1>11. LegacyOK' /\ Merged' = Merged
  BY <1>2, <1>3, LegacyKept
<1>12. Finished(shadow)' /\ shadow'.minute = Row(Merged)
  BY <1>2, <1>5, <1>9, <1>10, StoreNext
<1>13. HistoryTypeOK'
  BY <1>2, <1>5, <1>6 DEF HistoryInv, HistoryTypeOK
<1>14. StageOK'
  BY <1>2, <1>11, <1>12 DEF HistoryInv, StageOK
<1> QED
  BY <1>11, <1>13, <1>14 DEF HistoryInv

LEMMA RebuildDailyKeeps ==
    ASSUME HistoryInv, RebuildDailyRollups
    PROVE  HistoryInv'
<1>1. PICK day, backed : /\ backed = BackedDays(shadow.hour)
                         /\ day = Overwritten(shadow.day, shadow.hour, backed)
  OBVIOUS
<1>2. /\ stage = "daily" /\ stage' = "compact"
      /\ shadow' = [shadow EXCEPT !.day = day]
      /\ UNCHANGED <<clock, legacy, copied, rebuilt, stored, aborts, reopens>>
  BY <1>1 DEF RebuildDailyRollups
<1>3. Finished(shadow) /\ shadow \in Stores /\ shadow.minute = Row(Merged)
  BY <1>2 DEF HistoryInv, StageOK, Finished, Building
<1>4. /\ day \in Tallies
      /\ \A u \in Samples : day[u] = IF u \in backed THEN shadow.hour[u] ELSE shadow.day[u]
  BY <1>1, <1>3, OverwrittenIs DEF Stores
<1>5. PICK s : s = shadow'
  OBVIOUS
<1>6. /\ s \in Stores /\ s.minute = shadow.minute /\ s.hour = shadow.hour /\ s.day = day
      /\ s.hourKids = shadow.hourKids /\ s.dayKids = shadow.dayKids
  BY <1>2, <1>3, <1>4, <1>5 DEF Stores
<1>7. ASSUME NEW u \in Samples, LoneDay(u) PROVE u \notin backed
  <2>1. \A v \in Samples : DayOf(v) = DayOf(u) => shadow.hour[v] = 0
    BY <1>3, <1>7 DEF Finished, Building, LoneDay
  <2> QED
    BY <1>1, <2>1 DEF BackedDays, DaysIn, HeldIn
<1>8. Finished(s)
  BY <1>3, <1>4, <1>6, <1>7 DEF Finished, Building
<1>9. LegacyOK' /\ Merged' = Merged
  BY <1>2, LegacyKept DEF HistoryInv
<1>10. Finished(shadow)' /\ shadow'.minute = Row(Merged)
  BY <1>2, <1>3, <1>5, <1>6, <1>8, StoreNext
<1>11. HistoryTypeOK'
  BY <1>2, <1>5, <1>6 DEF HistoryInv, HistoryTypeOK
<1>12. StageOK'
  BY <1>2, <1>9, <1>10 DEF HistoryInv, StageOK
<1> QED
  BY <1>9, <1>11, <1>12 DEF HistoryInv

LEMMA CompactShadowKeeps ==
    ASSUME HistoryInv, CompactShadow
    PROVE  HistoryInv'
<1>1. /\ stage = "compact" /\ stage' = "switch" /\ shadow' = Sealed(shadow, clock)
      /\ UNCHANGED <<clock, legacy, copied, rebuilt, stored, aborts, reopens>>
  BY DEF CompactShadow
<1>2. /\ Finished(shadow) /\ shadow \in Stores /\ shadow.minute = Row(Merged)
      /\ clock \in Nat /\ UpgradeTime <= clock
  BY <1>1, SamplesNat DEF HistoryInv, HistoryTypeOK, StageOK, Finished, Building
<1>3. shadow' \in Stores /\ shadow'.minute = Row(Merged) /\ Finished(shadow)'
  BY <1>1, <1>2, SealedIs, SealedFinished, StoreNext
<1>4. LegacyOK' /\ Merged' = Merged
  BY <1>1, LegacyKept DEF HistoryInv
<1>5. HistoryTypeOK'
  BY <1>1, <1>3 DEF HistoryInv, HistoryTypeOK
<1>6. StageOK'
  BY <1>1, <1>3, <1>4 DEF HistoryInv, StageOK
<1> QED
  BY <1>4, <1>5, <1>6 DEF HistoryInv

LEMMA SwitchTablesKeeps ==
    ASSUME HistoryInv, SwitchTables
    PROVE  HistoryInv'
<1>1. /\ stage = "switch" /\ stage' = "serving"
      /\ rebuilt' = Reloaded(Opened(shadow.minute, shadow.hour, shadow.day))
      /\ shadow' = Opened(Nothing, Nothing, Nothing)
      /\ UNCHANGED <<clock, legacy, copied, stored, aborts, reopens>>
  BY DEF SwitchTables, EmptyShadow
<1>2. Finished(shadow) /\ shadow.minute = Row(Merged) /\ stored = {}
  BY <1>1 DEF HistoryInv, StageOK
<1>3. /\ rebuilt' \in Stores /\ ~rebuilt'.pending /\ rebuilt'.minute = Row(Merged)
      /\ Finished(rebuilt)'
  BY <1>1, <1>2, ReopenedFinished, StoreNext
<1>4. LegacyOK' /\ Merged' = Merged
  BY <1>1, LegacyKept DEF HistoryInv
<1>5. HistoryTypeOK'
  BY <1>1, <1>3, EmptyStore DEF HistoryInv, HistoryTypeOK
<1>6. (Merged \union stored)' = Merged
  BY <1>1, <1>2, <1>4
<1>7. StageOK'
  BY <1>1, <1>2, <1>3, <1>6 DEF StageOK
<1> QED
  BY <1>4, <1>5, <1>7 DEF HistoryInv

LEMMA RebuildAbortsKeeps ==
    ASSUME HistoryInv, RebuildAborts
    PROVE  HistoryInv'
<1>1. LegacyOK'
  BY LegacyKept DEF RebuildAborts, HistoryInv
<1>2. HistoryTypeOK'
  BY HistoryBounds DEF RebuildAborts, HistoryInv, HistoryTypeOK
<1>3. StageOK'
  BY DEF RebuildAborts, HistoryInv, StageOK
<1> QED
  BY <1>1, <1>2, <1>3 DEF HistoryInv

LEMMA ReportStoredKeeps ==
    ASSUME HistoryInv, ReportStored
    PROVE  HistoryInv'
<1>1. /\ stage = "serving" /\ stage' = "serving" /\ clock \notin stored
      /\ stored' = stored \union {clock}
      /\ rebuilt' = Sealed(Persisted(rebuilt, {clock}, clock), clock)
      /\ UNCHANGED <<clock, legacy, copied, shadow, aborts, reopens>>
  BY DEF ReportStored
<1>2. /\ Finished(rebuilt) /\ rebuilt \in Stores /\ rebuilt.minute = Row(Merged \union stored)
      /\ clock \in Nat /\ UpgradeTime <= clock /\ clock \in Samples /\ LegacyOK
  BY <1>1, SamplesNat, HistoryBounds
     DEF HistoryInv, HistoryTypeOK, StageOK, Finished, Building, Samples
<1>3. PICK st : st = Persisted(rebuilt, {clock}, clock)
  OBVIOUS
<1>4. /\ st \in Stores /\ st.hour = rebuilt.hour /\ st.day = rebuilt.day
      /\ st.dayKids = rebuilt.dayKids
      /\ \A u \in Samples :
           /\ st.minute[u] = IF u = clock THEN rebuilt.minute[u] + 1 ELSE rebuilt.minute[u]
           /\ st.hourKids[u] # rebuilt.hourKids[u] => u = clock
  BY <1>2, <1>3, PersistedIs
<1>5. ~KeptHour(clock)
  <2> SUFFICES ASSUME HourDue(HourOf(clock), UpgradeTime) PROVE FALSE
    BY DEF KeptHour
  <2>1. PICK e \in Int : e = (HourOf(clock) + 1) * HourTicks
    BY <1>2, BucketNat, BucketsPositive
  <2>2. e + SealGrace <= UpgradeTime
    BY <2>1 DEF HourDue
  <2>3. clock < e
    BY <1>2, <2>1, HourIs
  <2> QED
    BY <1>2, <2>2, <2>3, BatchPositive, SamplesNat
<1>6. ~LoneDay(clock)
  <2> SUFFICES ASSUME LoneDay(clock) PROVE FALSE
    OBVIOUS
  <2>1. PICK t \in HeldIn(legacy.day) : DayOf(t) = DayOf(clock)
    BY DEF LoneDay, DaysIn
  <2>2. DayOf(clock) < DayOf(UpgradeTime)
    BY <1>2, <2>1 DEF LegacyOK
  <2>3. DayOf(UpgradeTime) <= DayOf(clock)
    BY <1>2, SamplesNat, DayTicksPositive, DivMonotone DEF DayOf
  <2> QED
    BY <1>2, <2>2, <2>3, SamplesNat, BucketNat
<1>7. Finished(st)
  BY <1>2, <1>4, <1>5, <1>6 DEF Finished, Building
<1>8. st.minute = Row(Merged \union stored')
  <2>1. clock \notin Merged
    BY <1>2, SamplesNat DEF Merged, LegacyOK
  <2>2. PICK old, all : old = Merged \union stored /\ all = Merged \union stored'
    OBVIOUS
  <2>3. clock \notin old /\ all = old \union {clock}
    BY <1>1, <2>1, <2>2
  <2>4. /\ \A u \in Samples : Row(old)[u] = (IF u \in old THEN 1 ELSE 0)
        /\ \A u \in Samples : Row(all)[u] = (IF u \in all THEN 1 ELSE 0)
        /\ Row(all) \in Tallies
    BY RowIs
  <2>5. \A u \in Samples : st.minute[u] = Row(all)[u]
    <3>1. rebuilt.minute = Row(old)
      BY <1>2, <2>2
    <3> QED
      BY <1>4, <2>3, <2>4, <3>1
  <2>6. st.minute \in Tallies
    BY <1>4 DEF Stores
  <2>7. st.minute = Row(all)
    BY <2>4, <2>5, <2>6 DEF Tallies
  <2> QED
    BY <2>2, <2>7
<1>9. /\ rebuilt' \in Stores /\ ~rebuilt'.pending /\ rebuilt'.minute = Row(Merged \union stored')
      /\ Finished(rebuilt)'
  BY <1>1, <1>2, <1>3, <1>4, <1>7, <1>8, SealedIs, SealedFinished, StoreNext
<1>10. LegacyOK' /\ Merged' = Merged
  BY <1>1, LegacyKept DEF HistoryInv
<1>11. HistoryTypeOK'
  BY <1>1, <1>2, <1>9 DEF HistoryInv, HistoryTypeOK
<1>12. StageOK'
  BY <1>1, <1>2, <1>9, <1>10, SamplesNat DEF HistoryInv, StageOK
<1> QED
  BY <1>10, <1>11, <1>12 DEF HistoryInv

\* A serving store is sealed or opened again.
LEMMA ServingKeeps ==
    ASSUME HistoryInv, stage = "serving",
           UNCHANGED <<clock, stage, legacy, copied, shadow, stored, aborts>>,
           reopens' \in 0..MaxReopens,
           rebuilt' \in {Sealed(rebuilt, clock),
                         Reloaded(Opened(rebuilt.minute, rebuilt.hour, rebuilt.day))}
    PROVE  HistoryInv'
<1>1. /\ Finished(rebuilt) /\ rebuilt \in Stores /\ rebuilt.minute = Row(Merged \union stored)
      /\ clock \in Nat /\ UpgradeTime <= clock
  BY SamplesNat DEF HistoryInv, HistoryTypeOK, StageOK, Finished, Building
<1>2. /\ rebuilt' \in Stores /\ ~rebuilt'.pending /\ rebuilt'.minute = rebuilt.minute
      /\ Finished(rebuilt)'
  BY <1>1, SealedIs, SealedFinished, ReopenedFinished, StoreNext
<1>3. LegacyOK' /\ Merged' = Merged
  BY LegacyKept DEF HistoryInv
<1>4. HistoryTypeOK'
  BY <1>2 DEF HistoryInv, HistoryTypeOK
<1>5. StageOK'
  BY <1>1, <1>2, <1>3 DEF HistoryInv, StageOK
<1> QED
  BY <1>3, <1>4, <1>5 DEF HistoryInv

LEMMA NextHistory == HistoryInv /\ [HistoryNext]_rebuiltVars => HistoryInv'
<1> SUFFICES ASSUME HistoryInv, [HistoryNext]_rebuiltVars PROVE HistoryInv'
  OBVIOUS
<1>1. CASE MinutePasses \/ UNCHANGED rebuiltVars
  <2>1. clock' \in UpgradeTime..LastTick /\ aborts' \in 0..MaxAborts /\ reopens' \in 0..MaxReopens
    BY <1>1, HistoryBounds DEF MinutePasses, rebuiltVars, HistoryInv, HistoryTypeOK
  <2> QED
    BY <1>1, <2>1, HistoryKept DEF MinutePasses, rebuiltVars
<1>2. CASE RebuildStarts
  BY <1>2, RebuildStartsKeeps
<1>3. CASE CopyLegacyPoints
  BY <1>3, CopyLegacyPointsKeeps
<1>4. CASE CopyLegacyRollups
  BY <1>4, CopyLegacyRollupsKeeps
<1>5. CASE RebuildDailyRollups
  BY <1>5, RebuildDailyKeeps
<1>6. CASE CompactShadow
  BY <1>6, CompactShadowKeeps
<1>7. CASE SwitchTables
  BY <1>7, SwitchTablesKeeps
<1>8. CASE RebuildAborts
  BY <1>8, RebuildAbortsKeeps
<1>9. CASE ReportStored
  BY <1>9, ReportStoredKeeps
<1>10. CASE CompactLive
  <2>1. reopens' \in 0..MaxReopens
    BY <1>10 DEF CompactLive, HistoryInv, HistoryTypeOK
  <2> QED
    BY <1>10, <2>1, ServingKeeps DEF CompactLive
<1>11. CASE ReopenLive
  <2>1. reopens' \in 0..MaxReopens
    BY <1>11, HistoryBounds DEF ReopenLive, HistoryInv, HistoryTypeOK
  <2> QED
    BY <1>11, <2>1, ServingKeeps DEF ReopenLive
<1> QED
  BY <1>1, <1>2, <1>3, <1>4, <1>5, <1>6, <1>7, <1>8, <1>9, <1>10, <1>11 DEF HistoryNext

\* The shadow and the rebuilt store hold what their stage says, however often
\* the guide fails and starts over (restructure.go).
THEOREM HistoryInvariant == HistorySpec => []HistoryInv
<1>1. HistoryInit => HistoryInv
  BY InitHistory
<1>2. HistoryInv /\ [HistoryNext]_rebuiltVars => HistoryInv'
  BY NextHistory
<1> QED
  BY <1>1, <1>2, PTL DEF HistorySpec

\* Every variable has its type, and a serving store has read its children back
\* (coarse_rollup.go).
THEOREM HistoryTypes == HistorySpec => []HistoryTypeOK
<1>1. HistoryInv => HistoryTypeOK
  BY DEF HistoryInv
<1> QED
  BY <1>1, HistoryInvariant, PTL

\* The upgrade loses no sample and counts none twice in its finest tier, however
\* the old points and rows overlap and however often it was started over
\* (restructure.go).
THEOREM UpgradeCopiesOnce == HistorySpec => []CopiedOnce
<1>1. HistoryInv => CopiedOnce
  <2> SUFFICES ASSUME HistoryInv, stage = "serving", NEW t \in Samples
               PROVE  /\ t \in legacy.points \union HeldIn(legacy.minute) \union stored
                           => rebuilt.minute[t] = 1
                      /\ rebuilt.minute[t] <= 1
                      /\ t \in HeldIn(legacy.hour) /\ HourDue(HourOf(t), UpgradeTime)
                           => rebuilt.hour[t] = 1
                      /\ t \in HeldIn(legacy.day) /\ DayOf(t) \notin DaysIn(legacy.hour)
                           /\ DayOf(t) \notin {DayOf(u) : u \in legacy.points}
                           => rebuilt.day[t] = 1
    BY DEF CopiedOnce
  <2>1. Finished(rebuilt) /\ rebuilt.minute = Row(Merged \union stored) /\ LegacyOK
    BY DEF HistoryInv, StageOK
  <2>2. rebuilt.minute[t] = IF t \in Merged \union stored THEN 1 ELSE 0
    BY <2>1, RowIs
  <2>3. ASSUME t \in HeldIn(legacy.hour), HourDue(HourOf(t), UpgradeTime)
        PROVE  rebuilt.hour[t] = 1
    <3>1. KeptHour(t) /\ legacy.hour[t] = 1
      BY <2>1, <2>3 DEF KeptHour, HoursIn, HeldIn, LegacyOK
    <3> QED
      BY <2>1, <3>1 DEF Finished
  <2>4. ASSUME t \in HeldIn(legacy.day), DayOf(t) \notin DaysIn(legacy.hour),
               DayOf(t) \notin {DayOf(u) : u \in legacy.points}
        PROVE  rebuilt.day[t] = 1
    <3>1. LoneDay(t) /\ legacy.day[t] = 1
      BY <2>1, <2>4 DEF LoneDay, DaysIn, HeldIn, LegacyOK
    <3> QED
      BY <2>1, <3>1 DEF Finished
  <2> QED
    BY <2>2, <2>3, <2>4 DEF Merged
<1> QED
  BY <1>1, HistoryInvariant, PTL
=============================================================================
