\* The goroutine that records a connection may run after the connection ended.
CONSTANTS
    s1 = s1
    s2 = s2
    Node = "node"
    Sweepers = {s1}
    WindowSets <- NoWindow
    MaxDeferral = 5
    GracePeriod = 1
    PresenceTTL = 1
    Transports = {"ws"}
    ReadOutcomes = {"ok"}
    OnlineFirst = FALSE
    FallbackOnly = FALSE
    SlowSender = FALSE
    MaxConns = 2
    MaxFailures = 0
    Horizon = 1
    EndOfTime = 3
SPECIFICATION FairSpec
PROPERTIES LastingOutageReported
CHECK_DEADLOCK FALSE
