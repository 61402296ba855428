CONSTANTS
    URL = {a, b}
    Instance = {i}
    Client = {c}
    Reader = {}
    Request = {r, q}
    Parallel = 1
    AddKnown = FALSE
    Lock = Lock
SPECIFICATION Spec
INVARIANTS WeightCountsRequests
SYMMETRY RequestSym
