\* Archives: two uploads in a store for one, two chunks, two crashes or errors.
\* Uploads to an agent: one of two chunks, two requests at once, four calls and
\* restored sessions, one disturbance.  The terminal: a browser's connection and
\* its return, two connections of the agent, one mishap.
\* Commands: three, two of one coalescing key, over the POST fallback with a queue of
\* two, with two lost calls or poll timeouts; or two commands with two lost calls or
\* restarts of the agent; or two commands over two sockets, with two dropped links or
\* failed token lookups.
CONSTANTS
    Archives = {x1, x2}
    NoArchive = d0
    ChunkCount = 2
    MaxArchives = 1
    ArchiveTTL = 1
    StoreHorizon = 2
    MaxCuts = 2
    Uploads = {u1}
    NoUpload = u0
    PartCount = 2
    Callers = {x1, x2}
    UploadSlots = 1
    SessionTTL = 0
    StreamTTL = 1
    SameSize = {}
    UploadHorizon = 1
    MaxObjects = 3
    MaxCalls = 4
    MaxUploadFaults = 1
    Browsers = {x1, x2}
    AgentConns = {y1, y2}
    NoEnd = nil
    MaxMishaps = 1
    c1 = x1
    c2 = x2
    c3 = c3
    Commands = {x1, x2, c3}
    Key <- PingKey
    NoKey = 0
    QueueLimit = 2
    ReportTake = 1
    MaxConns = 0
    MaxRotations = 0
    MayPost = TRUE
    FaultKinds = {"call", "timeout"}
    MaxFaults = 2
SPECIFICATION EachSpec
SYMMETRY Symmetric
INVARIANTS FinalizedIsWhole DirectoriesBounded DownOnlyIfCut
INVARIANTS SlotsAccounted CompleteMeansStored
INVARIANTS SessionWillEnd ShellWillEnd NoShellWithoutSession
INVARIANTS ExecutedOnce WaitingPollMissesNothing
PROPERTIES PublishedWhole LivePairKept MailboxSpec
CHECK_DEADLOCK FALSE
