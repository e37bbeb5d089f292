\* One queue, one worker, two videos: every job settles, with all of its files.
CONSTANTS
    wHls = wHls
    wHls2 = wHls2
    wCap = wCap
    NoVideo = NoVideo
    Videos = {v1, v2}
    JobTypes = {"hls"}
    MaxClaims = 0
    Workers = {wHls}
    WorkerType <- Single
    Requests = {r1, r2}
    MaxAttempts = 2
    NumFiles = 2
    MaxFaults = 2
    MaxCalls = 2
    LosesConnections = TRUE
    LosesPublishes = TRUE
SPECIFICATION FairSpec
INVARIANTS TypeOK CompletedIsWhole EntryPointIsLast
PROPERTIES JobsSettle KeepsContract
\* An instance whose calls and faults are used up has nothing left to do.
CHECK_DEADLOCK FALSE
