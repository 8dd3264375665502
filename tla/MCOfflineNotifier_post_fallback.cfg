\* A socket opens and fails within the life of the POST presence entry.
CONSTANTS
    s1 = s1
    s2 = s2
    Node = "node"
    Sweepers = {s1}
    WindowSets <- NoWindow
    MaxDeferral = 1
    GracePeriod = 3
    PresenceTTL = 1
    Transports = {"ws", "post"}
    ReadOutcomes = {"ok"}
    OnlineFirst = TRUE
    FallbackOnly = TRUE
    SlowSender = FALSE
    MaxConns = 2
    MaxFailures = 0
    Horizon = 4
    EndOfTime = 6
SPECIFICATION Spec
PROPERTIES NoAlertWhileReporting
CHECK_DEADLOCK FALSE
