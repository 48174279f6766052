SPECIFICATION Spec
CONSTANTS
    Shares = {s1}
    OidcShares = {}
    Handlers = {h1, h2}
    NoShare = NoShare
    Lifetimes = {2}
    Limits = {2}
    PauseLengths = {1}
    MaxTime = 4
    MaxAttempts = 2
    MaxRestarts = 1
    MaxCounted = 3
    Overlap = FALSE
SYMMETRY HandlerSymmetry
INVARIANTS
    RevealOnRecord
    RemovedStaysRemoved
    FailuresCounted
PROPERTIES
    Lifecycle
