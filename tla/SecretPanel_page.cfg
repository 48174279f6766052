SPECIFICATION PanelSpec
CONSTANTS
    Secret = "plaintext"
    Passwords = {right, wrong}
    NoPassword = NoPassword
    Key = right
    Attempts = {a1, a2}
    Copies = {c1, c2}
INVARIANTS
    PanelConsistent
    CopiedIsSecret
PROPERTIES
    OnlyToggleReveals
    SettlesDown
