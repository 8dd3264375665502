\* A token lookup that fails while the persisted rollout state is reconciled
\* ends the handler before its cleanup is deferred, and the closed socket stays
\* registered.
CONSTANTS
    c1 = c1
    c2 = c2
    c3 = c3
    Commands = {c1}
    Key <- PlainKey
    NoKey = 0
    QueueLimit = 2
    ReportTake = 1
    MaxConns = 1
    MaxRotations = 0
    MayPost = FALSE
    FaultKinds = {"lookup"}
    MaxFaults = 1
SPECIFICATION Spec
INVARIANTS RegisteredIsServed
CHECK_DEADLOCK FALSE
