SPECIFICATION Spec
CONSTANTS
    Browsers = {b1}
    Handlers = {h1}
    NoBrowser = NoBrowser
    MaxSetups = 1
    MaxTime = 1
    MaxAttempts = 1
    Overlap = FALSE
PROPERTIES
    FactorPrompted
