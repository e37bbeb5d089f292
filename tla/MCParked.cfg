\* SIGTERM in the last attempt.
CONSTANTS
    wHls = wHls
    wHls2 = wHls2
    wCap = wCap
    NoVideo = NoVideo
    Videos = {v1}
    JobTypes = {"hls"}
    MaxClaims = 0
    Workers = {wHls}
    WorkerType <- Single
    Requests = {r1}
    MaxAttempts = 2
    NumFiles = 2
    MaxFaults = 1
    MaxCalls = 1
    LosesConnections = FALSE
    LosesPublishes = FALSE
SPECIFICATION Spec
INVARIANTS ParkedIsRecorded
\* An instance whose calls and faults are used up has nothing left to do.
CHECK_DEADLOCK FALSE
