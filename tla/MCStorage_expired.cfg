SPECIFICATION FairSpec
CONSTANTS
    None = None
    a = a
    b = b
    Instances = {a, b}
    Txns = {t1, t2}
    SeqIDs = {1, 2}
    Payloads <- LivenessPayloads
    Requests = {}
    A2SServers = {}
    RConServers = {}
    MaxStagingSize = 4
    MaxBodySize = 2
    TransactionTTL = 1
    Second = 1
    DefaultInterval = 1
    OverwriteInstanceID = FALSE
    AgeCap = 0
    MaxUploads = 3
PROPERTIES
    ExpiredDropsCounted
