\* Ingestion: two reports in eight ticks, long enough for the first parent to
\* close, outlive its grace and be sealed, one fault and one restart.  Sessions:
\* two tokens, two requests at once, a cache for one entry, a write of the users
\* table and a failed statement.  Commands: a dispatch, two sockets and the POST
\* fallback around a token rotation, with one dropped link or expiry.
CONSTANTS
    MinuteTicks = 2
    ParentMinutes = 2
    RawMinutes = 2
    GraceMinutes = 2
    BatchSize = 2
    QueueSize = 2
    MaxTime = 8
    MaxReports = 2
    MaxIngestFaults = 1
    MaxRestarts = 1
    SessionTokens = {k1, k2}
    Requests = {q1, q2}
    NoToken = k0
    PositiveTTL = 1
    NegativeTTL = 1
    MaxEntries = 1
    SessionLife = 0
    SessionHorizon = 1
    MaxUserWrites = 1
    MaxQueryErrors = 1
    c1 = c1
    c2 = c2
    c3 = c3
    Commands = {c1}
    Key <- PlainKey
    NoKey = 0
    QueueLimit = 2
    ReportTake = 1
    MaxConns = 2
    MaxRotations = 1
    MayPost = TRUE
    FaultKinds = {"drop", "expiry"}
    MaxFaults = 1
SPECIFICATION AnySpec
SYMMETRY Symmetric
INVARIANTS CountedOnce ParentMatchesMinutes StoredIsPending
INVARIANTS RevokedSoonRefused RevocationIsFinal
INVARIANTS RetirementBoundary RegisteredIsServed NoOrphanSocket
CHECK_DEADLOCK FALSE
