SPECIFICATION FairSpec
CONSTANTS
    Requests = {r1}
    Handlers = {h1, h2}
    NoRequest = NoRequest
    Payloads = {}
    ClientPayloads = {}
    NoPayload = NoPayload
    Lifetimes = {1}
    Extensions = {1}
    Limits = {1}
    PauseLengths = {1}
    MaxTime = 3
    MaxAttempts = 1
    MaxRestarts = 1
    Overlap = TRUE
PROPERTIES
    ExpiredNeverLingers
    OnlyExpiredDeleted
