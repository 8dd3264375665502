CONSTANTS
    MinuteTicks = 2
    ParentMinutes = 2
    RawMinutes = 2
    GraceMinutes = 2
    BatchSize = 1
    QueueSize = 2
    MaxTime = 8
    MaxReports = 3
    MaxIngestFaults = 1
    MaxRestarts = 0
SPECIFICATION IngestSpec
PROPERTY SealedForGood
CHECK_DEADLOCK FALSE
