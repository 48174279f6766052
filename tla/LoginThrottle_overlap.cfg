SPECIFICATION Spec
CONSTANTS
    Accounts = {a1}
    NoAccount = NoAccount
    Handlers = {h1, h2}
    Entries = {e1, e2, e3}
    NoEntry = NoEntry
    FailedAttemptLimit = 2
    PauseMinutes = 3
    FailureWindowMinutes = 1
    MaxTrackedAccounts = 1
    MaxTime = 4
SYMMETRY Symmetry
INVARIANTS
    PauseHorizon
    LimitPauses
    OnlyConsecutiveCounted
PROPERTIES
    PauseKept
