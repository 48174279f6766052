SPECIFICATION Spec
CONSTANTS
    Users = {u1, u2, u3}
    Handlers = {h1}
    NoUser = NoUser
    Names = {n1, n2}
    NoName = NoName
    ConfiguredNames = {n1, n2, NoName}
    RoleChoices = {{"Admin"}, {"User"}}
    Passwords = {p0, p1}
    ConfiguredPassword = p0
    MaxAttempts = 2
    Overlap = FALSE
SYMMETRY Symmetry
PROPERTIES
    AdminRemains
    StartRestores
    DirectorySpec
