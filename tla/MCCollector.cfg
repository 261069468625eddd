SPECIFICATION CollectorFairSpec
CONSTANTS
    None = None
    a = a
    b = b
    Instances = {a, b}
    Txns = {}
    SeqIDs = {1}
    Payloads <- CollectorPayloads
    Requests = {}
    A2SServers = {a}
    RConServers = {}
    MaxStagingSize = 0
    MaxBodySize = 1
    TransactionTTL = 1
    Second = 1
    DefaultInterval = 1
    OverwriteInstanceID = FALSE
    AgeCap = 5
    MaxUploads = 3
    MultiplierNum = 3
    MultiplierDen = 2
    MinStaleAge = 1
INVARIANTS
    CollectorTypeOK
PROPERTIES
    DownOnlyWhenLate
    ScrapesNeverGoBack
    SilenceShown
