\* A worker and two handlers on the rows of one video, any order of calls.
CONSTANTS
    wHls = wHls
    api1 = api1
    api2 = api2
    Videos = {v1}
    JobTypes = {"hls", "caption"}
    NoVideo = NoVideo
    MaxClaims = 2
    Sessions = {wHls, api1, api2}
    Serves <- OneWorker
    Nobody = Nobody
SPECIFICATION RowFairSpec
INVARIANTS LockTypeOK StoreTypeOK ColumnAgrees DeadlockIsWithDelete
PROPERTIES StoreSpec EveryCallReturns
