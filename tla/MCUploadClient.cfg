SPECIFICATION UploadFairSpec
CONSTANTS
    None = None
    a = a
    b = b
    Instances = {a, b}
    Txns = {t1, t2}
    SeqIDs = {1, 2}
    Payloads <- UploadPayloads
    Requests = {r1}
    A2SServers = {}
    RConServers = {}
    MaxStagingSize = 3
    MaxBodySize = 1
    TransactionTTL = 0
    Second = 1
    DefaultInterval = 0
    OverwriteInstanceID = FALSE
    AgeCap = 0
    MaxUploads = 4
    MaxFaults = 1
INVARIANTS
    UploadTypeOK
    PartOnlyIfReopened
    PublishedOnce
PROPERTIES
    UploadsEnd
