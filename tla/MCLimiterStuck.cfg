\* A client goes away between the INCR and the EXPIRE of its first request.
CONSTANTS
    Requests = {r1, r2}
    Limit = 1
    Window = 2
    MaxRequests = 3
    MaxFaults = 1
SPECIFICATION LimiterFairSpec
PROPERTIES CounterResets
