SPECIFICATION StatusFairSpec
CONSTANTS
    None = None
    a = a
    b = b
    Instances = {a, b}
    Txns = {}
    SeqIDs = {1}
    Payloads <- StatusPayloads
    Requests = {}
    A2SServers = {}
    RConServers = {}
    MaxStagingSize = 0
    MaxBodySize = 1
    TransactionTTL = 1
    Second = 1
    DefaultInterval = 1
    OverwriteInstanceID = FALSE
    AgeCap = 0
    MaxUploads = 2
    Unencodable <- NotANumber
    URLIds = {a, AllKey}
    AllKey = AllKey
    Readers = {q1, q2}
    CacheTTL = 2
    MaxWork = 1
    ShownCap = 4
INVARIANTS
    SingleAnswersSingle
