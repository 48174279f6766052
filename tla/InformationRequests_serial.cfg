SPECIFICATION Spec
CONSTANTS
    Requests = {r1}
    Handlers = {h1, h2}
    NoRequest = NoRequest
    Payloads = {p1, c1}
    ClientPayloads = {c1}
    NoPayload = NoPayload
    Lifetimes = {2}
    Extensions = {1}
    Limits = {2}
    PauseLengths = {1}
    MaxTime = 4
    MaxAttempts = 2
    MaxRestarts = 1
    Overlap = FALSE
SYMMETRY HandlerSymmetry
PROPERTIES
    ResponseKept
    Lifecycle
