\* A lookup that has read a session's row before it was revoked caches the session
\* after the revocation has returned.
CONSTANTS
    SessionTokens = {k1}
    Requests = {q1, q2}
    NoToken = k0
    PositiveTTL = 2
    NegativeTTL = 1
    MaxEntries = 2
    SessionLife = 2
    SessionHorizon = 1
    MaxUserWrites = 0
    MaxQueryErrors = 0
SPECIFICATION SessionSpec
INVARIANTS RevokedAtOnce
CHECK_DEADLOCK FALSE
