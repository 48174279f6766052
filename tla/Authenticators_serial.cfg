SPECIFICATION Spec
CONSTANTS
    Browsers = {b1, b2}
    Handlers = {h1}
    NoBrowser = NoBrowser
    MaxSetups = 2
    MaxTime = 2
    MaxAttempts = 2
    Overlap = FALSE
SYMMETRY BrowserSymmetry
INVARIANTS
    TypeOK
    LastIsNewest
PROPERTIES
    SecondFactorPassed
    OwnerReplaces
    Lifecycle
