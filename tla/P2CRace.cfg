CONSTANTS
    URL = {a, b}
    Instance = {i, j}
    Client = {c}
    Reader = {}
    Request = {}
    Parallel = 2
    AddKnown = TRUE
    Lock = Lock
SPECIFICATION Spec
INVARIANTS NoPhantomBackend OneObjectPerUrl
PROPERTY RegistrySpec
SYMMETRY Sym
\* A panic ends the process.
CHECK_DEADLOCK FALSE
