CONSTANTS
    URL = {a, b}
    Instance = {i}
    Client = {c, c2}
    Reader = {d}
    Request = {}
    Parallel = 1
    AddKnown = FALSE
    Lock = Lock
SPECIFICATION FairSpec
INVARIANTS NoBackendLost OneListEach NeverPanics HealthIsOnePicture
PROPERTIES Recovers CloseStopsLoop
