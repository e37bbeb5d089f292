\* The deployed topology, one worker per queue, with two faults of any kind.
\* The files of an output are MCLiveness's concern.
CONSTANTS
    wHls = wHls
    wHls2 = wHls2
    wCap = wCap
    NoVideo = NoVideo
    Videos = {v1}
    JobTypes = {"hls", "caption"}
    MaxClaims = 0
    Workers = {wHls, wCap}
    WorkerType <- Deployed
    Requests = {r1, r2}
    MaxAttempts = 2
    NumFiles = 1
    MaxFaults = 2
    MaxCalls = 2
    LosesConnections = TRUE
    LosesPublishes = TRUE
SYMMETRY RequestSymmetry
SPECIFICATION Spec
INVARIANTS DeliveryHeld OnlyPublishesLose NoWorkOnCompleted OvershootIsPaidFor
PROPERTIES CompletedStays
\* An instance whose calls and faults are used up has nothing left to do.
CHECK_DEADLOCK FALSE
