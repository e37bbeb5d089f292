\* Two workers on one queue, one cut off from the broker.
CONSTANTS
    wHls = wHls
    wHls2 = wHls2
    wCap = wCap
    NoVideo = NoVideo
    Videos = {v1}
    JobTypes = {"hls"}
    MaxClaims = 0
    Workers = {wHls, wHls2}
    WorkerType <- ScaledOut
    Requests = {r1}
    MaxAttempts = 2
    NumFiles = 2
    MaxFaults = 1
    MaxCalls = 1
    LosesConnections = TRUE
    LosesPublishes = FALSE
SPECIFICATION Spec
INVARIANTS NoSilentLoss
\* An instance whose calls and faults are used up has nothing left to do.
CHECK_DEADLOCK FALSE
