SPECIFICATION FairSpec
CONSTANTS
    Shares = {s1}
    OidcShares = {s1}
    Handlers = {h1, h2}
    NoShare = NoShare
    Lifetimes = {1}
    Limits = {1}
    PauseLengths = {1}
    MaxTime = 2
    MaxAttempts = 2
    MaxRestarts = 1
    MaxCounted = 0
    Overlap = TRUE
INVARIANTS
    NoAccessAfterExpiry
    PauseHorizon
PROPERTIES
    RemovalFinalWhenFree
    ExpiredIsRemovedForGood
