\* Alerts: two sweeps at once, sockets and POST presence, rotation, notifications
\* switched off, reads and sends that fail, goroutines in any order.  History:
\* every legacy store of four minutes in one day of two hours, points copied in
\* batches of two, one failed run of the guide, one restart after it, and time for
\* that day and for the first hour after it to be sealed.  ./data: two versions, two
\* requests, three states and seconds, and two failed steps, deaths or starts in the
\* second of the one before.
CONSTANTS
    s1 = s1
    s2 = s2
    Node = "node"
    Sweepers = {s1, s2}
    WindowSets <- OneWindow
    MaxDeferral = 1
    GracePeriod = 1
    PresenceTTL = 1
    Transports = {"ws", "post"}
    ReadOutcomes = {"ok", "off", "error"}
    OnlineFirst = FALSE
    FallbackOnly = FALSE
    SlowSender = TRUE
    MaxConns = 2
    MaxFailures = 1
    Horizon = 2
    EndOfTime = 4
    HourTicks = 2
    DayHours = 2
    SealGrace = 1
    PointBatch = 2
    LegacyKinds = {"points", "rollups", "both"}
    UpgradeTime = 4
    LastTick = 7
    MaxAborts = 1
    MaxReopens = 1
    Retention = 2
    Stagers = {s1, s2}
    MaxVersion = 2
    MaxStates = 3
    MaxSeconds = 3
    MaxTroubles = 2
SPECIFICATION OneSpec
SYMMETRY SweepSymmetry
INVARIANTS PendingTracked RecoveryMatchesReport CopiedOnce WipedIsArchived StagedUntilApplied RollbackKept
CHECK_DEADLOCK FALSE
