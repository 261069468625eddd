SPECIFICATION FairSpec
CONSTANTS
    None = None
    a = a
    b = b
    Instances = {a, b}
    Txns = {t1, t2}
    SeqIDs = {1, 2}
    Payloads <- SafetyPayloads
    Requests = {r1}
    A2SServers = {}
    RConServers = {b}
    MaxStagingSize = 4
    MaxBodySize = 2
    TransactionTTL = 1
    Second = 2
    DefaultInterval = 1
    OverwriteInstanceID = FALSE
    AgeCap = 0
    MaxUploads = 3
INVARIANTS
    TypeOK
    StagingAccounting
    QuotaRespected
    StagedNonEmpty
    OneTxnPerInstance
    NoForeignSeries
PROPERTIES
    StatsOnlyGrow
    ImplementsUploadLog
    Drains
