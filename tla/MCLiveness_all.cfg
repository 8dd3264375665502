\* Alerts: one sweep, three connections, three schedules, edits and one refused
\* send.  Commands: see Events and Restarted in MCLiveness.  The upgrade: every store found, on every
\* driver, two batches of rows, three failed runs or dead panels.
CONSTANTS
    s1 = s1
    s2 = s2
    c1 = c1
    c2 = c2
    Node = "node"
    Sweepers = {s1}
    WindowSets <- Schedules
    MaxDeferral = 1
    GracePeriod = 2
    PresenceTTL = 1
    Transports = {"ws"}
    ReadOutcomes = {"ok"}
    OnlineFirst = TRUE
    FallbackOnly = FALSE
    SlowSender = FALSE
    MaxConns = 3
    MaxFailures = 1
    Horizon = 2
    EndOfTime = 6
    Drivers = {"sqlite", "postgresql", "mysql"}
    BatchCount = 2
    MaxBreaks = 3
SPECIFICATION OneSpec
INVARIANTS OneReportPerOutage HistoryNeverTorn BackupsAreSpare OpensClean
PROPERTIES LastingOutageReported GraceRespected NoAlertInsideWindow NoAlertWhileReporting
PROPERTIES QueuedIsRun UpgradeHappens
CHECK_DEADLOCK FALSE
