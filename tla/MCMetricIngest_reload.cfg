CONSTANTS
    MinuteTicks = 2
    ParentMinutes = 2
    RawMinutes = 2
    GraceMinutes = 2
    BatchSize = 2
    QueueSize = 2
    MaxTime = 9
    MaxReports = 2
    MaxIngestFaults = 0
    MaxRestarts = 1
SPECIFICATION IngestSpec
INVARIANT ReopenRecovers
CHECK_DEADLOCK FALSE
