\* Days of two hours without a grace: rows of the three tiers, an upgrade in the
\* middle of a day, reports after it and one restart.
CONSTANTS
    HourTicks = 1
    DayHours = 2
    SealGrace = 0
    PointBatch = 4
    LegacyKinds = {"rollups"}
    UpgradeTime = 3
    LastTick = 6
    MaxAborts = 1
    MaxReopens = 1
SPECIFICATION HistorySpec
INVARIANT DayHoldsItsHours
CHECK_DEADLOCK FALSE
