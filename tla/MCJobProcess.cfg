\* The three kinds of job, three renditions and thumbnails as in the code.
CONSTANTS
    Videos = {}
    NoVideo = NoVideo
    JobTypes = {"hls", "thumbnail", "caption"}
    Renditions = 3
    Thumbnails = 3
SPECIFICATION ProcessFairSpec
INVARIANTS ProcessTypeOK SentIsFinal NoStrayEncoder OnlyFailuresLeaveFiles
PROPERTIES KeepsAttemptContract CancelEndsAttempt
\* A worker that was told to stop has nothing left to do.
CHECK_DEADLOCK FALSE
