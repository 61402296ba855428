CONSTANTS
    URL = {a, b}
    Instance = {i}
    Client = {c}
    Reader = {}
    Request = {}
    Parallel = 2
    AddKnown = FALSE
    Lock = Lock
SPECIFICATION Spec
INVARIANT NoBackendLost
CHECK_DEADLOCK FALSE
