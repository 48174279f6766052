SPECIFICATION Spec
CONSTANTS
    Texts = {t1}
    NoText = NoText
    Passwords = {short, keyA, keyB}
    NoPassword = NoPassword
    LongPasswords = {keyA, keyB}
    NoPayload = NoPayload
    NotPosted = NotPosted
    Presets = {4, 24}
    Attempts = {a1, a2}
INVARIANTS
    PlaintextStays
    SealedAsEntered
    ScreenTrue
PROPERTIES
    SamePasswordReused
    ControlsReturn
