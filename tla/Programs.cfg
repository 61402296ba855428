CONSTANTS
    LastIP = 4
    Limit = 2
    MaxNames = 3
    Iterations = 2
    MaxSignals = 3
    Replicas = 2
    Install = {i1, i2}
    MaxRounds = 3
    User = {u1, u2}
    MaxEvents = 3
    BufSize = 1
    MaxUses = 2
    Call = {k1, k2}
    MaxPets = 3
    Id = {p, q}
    Name = {a, b}
    Type = {s, t}
    Day = {1, 2}
    MaxLength = 2
    Wrapper = {"backoff", "breaker"}
    SlowRounds = 20
    FastRounds = 60
    Conn = {c1, c2}
    MaxConn = 1
    MaxRequests = 3
    Workflow = {n}
    Sub = {s1, s2}
    Files = {"ok", "missing", "bad"}
    Pattern = {x, y}
    URL = {u}
    Pool = {o1, o2, o3}
    Caller = {c, d}
    Request = {r}
    NoPool = NoPool
    Cmd = {d1, d2}
    Check = {h1, h2}
    Lock = Lock
SPECIFICATION Spec
INVARIANTS
    TypeOK ExitsAreHonest PackageIsThere RendersOwnUnlessShared CallsAccounted
    StreamIsHonest FailuresAreBounded SlotsAreServed FoundIsMatching PoolsAreSound
    ClosedMeansStopped RegisteredUntilStopped StopReachesSubscribers
PROPERTIES NoStepUndoes StopIsDelivered ProgramsProgress
