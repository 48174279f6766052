SPECIFICATION FieldSpec
CONSTANTS
    Lower = {"a"}
    Upper = {"A"}
    Digit = {"2"}
    Symbol = {"!"}
    Accented = {"acute e"}
    PickLower = {"a"}
    PickUpper = {"A"}
    PickDigit = {"2"}
    PickSymbol = {"!"}
    MinimumLength = 4
    GeneratedLength = 5
    Typed <- MCTyped
    Again = FALSE
INVARIANTS
    GeneratedIsStrong
    SubmittedIsSound
    VerdictsFresh
