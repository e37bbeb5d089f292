\* Three concurrent requests, several windows, two commands that fail or are never sent.
CONSTANTS
    Requests = {r1, r2, r3}
    Limit = 2
    Window = 3
    MaxRequests = 8
    MaxFaults = 2
SPECIFICATION LimiterFairSpec
INVARIANTS LimiterTypeOK AtMostLimitPerWindow BurstBounded
PROPERTIES ResetsUnlessExpireLost
