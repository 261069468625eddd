SPECIFICATION PollersFairSpec
CONSTANTS
    None = None
    a = a
    b = b
    Instances = {a, b}
    Txns = {}
    SeqIDs = {1}
    Payloads = {}
    Requests = {}
    A2SServers = {a, b}
    RConServers = {a}
    MaxStagingSize = 0
    MaxBodySize = 1
    TransactionTTL = 1
    Second = 1
    DefaultInterval = 1
    OverwriteInstanceID = FALSE
    AgeCap = 0
    MaxUploads = 0
    MaxFaults = 2
INVARIANTS
    PollersTypeOK
    OneConnection
    OneFaultForgiven
PROPERTIES
    PollsConverge
