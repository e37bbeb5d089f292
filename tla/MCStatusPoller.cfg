\* Two videos followed on one page; the first call has two fetches in flight.
CONSTANTS
    v1 = v1
    v2 = v2
    Videos <- BothVideos
    JobTypes = {"hls"}
    CompletionsAreFinal = FALSE
    Follows <- OneAfterTheOther
    MaxPolls = 2
    MaxTicks <- TwoAndOne
    MaxFaults = 1
SPECIFICATION PollerFairSpec
INVARIANTS PageTypeOK LoadsOnlyWhole
PROPERTIES NoticesCompletion PollingEnds
