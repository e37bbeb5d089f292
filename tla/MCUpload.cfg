\* Three handlers at once, two versions of every part, two calls that fail.
CONSTANTS
    Uploads = {u1}
    PartCount = 2
    PageSize = 1
    Contents = {a, b}
    Missing = Missing
    Requests = {r1, r2, r3}
    MaxFaults = 2
SPECIFICATION UploadFairSpec
INVARIANTS UploadTypeOK AssembledIsComplete ObjectIsWhatWasUploaded AnnouncedOnce OneCompleter
PROPERTIES AssembledIsAnnounced
\* An upload that is recorded and whose session has ended is finished.
CHECK_DEADLOCK FALSE
