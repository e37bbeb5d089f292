\* Two files of two parts, three upload ids, one fault.
CONSTANTS
    Uploads = {u1, u2, u3}
    PartCount = 2
    PageSize = 1
    Contents = {f, g}
    Missing = Missing
    Requests = {r1, r2}
    MaxFaults = 1
    Nothing = Nothing
    PartSize = 3
    FileSize = 5
    MaxInt64 = 127
    MaxInt32 = 7
SPECIFICATION PageUploadFairSpec
INVARIANTS RecordedIsOneFile OneVideoPerFile LoopCoversTheFile
PROPERTIES UploadFinishes
\* Both files uploaded, or no id left.
CHECK_DEADLOCK FALSE
