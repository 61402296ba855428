-------------------------------- MODULE P2C --------------------------------
(***************************************************************************)
(* One power-of-two-choices pool of the HTTP load balancer                 *)
(* (orchestration/lb/server/http/p2c.go).                                  *)
(*                                                                         *)
(* The two atomic.Value fields hold copy-on-write slices: every change is  *)
(* a Load, a new slice and a Store.  Add and Remove make their changes     *)
(* under mu.  A round of health checks also holds mu, but in the parent    *)
(* goroutine: the goroutines it spawns, one per backend, share the lock    *)
(* and make their Loads and Stores with no ordering among themselves.      *)
(* ServeHTTP and Health read with no lock.                                 *)
(***************************************************************************)
EXTENDS Naturals, Integers, FiniteSets

CONSTANTS
    URL,        \* backend URLs: the identity addToValue and removeFromValue compare
    Instance,   \* names for the weightedBackend objects allocated for one URL
    Client,     \* callers of Add and Remove
    Reader,     \* callers of Health
    Request,    \* HTTP requests in flight at a time
    Parallel,   \* how many goroutines of a round may be switching lists at once
    AddKnown,   \* whether callers Add a URL that is already in the pool
    Lock        \* the value of mu when nobody holds it

ASSUME ParallelAssumption == Parallel \in Nat \ {0}
ASSUME AddKnownAssumption == AddKnown \in BOOLEAN
ASSUME RequestAssumption == IsFiniteSet(Request)
ASSUME HolderAssumption == Lock \notin Client /\ "loop" \notin Client /\ Lock # "loop"

Side == {"healthy", "sick"}
Obj  == URL \X Instance     \* weightedBackend pointers

VARIABLES
    list,     \* the slices in P2C.healthy and P2C.sick, as sets of objects
    mark,     \* Backend.healthState of an object
    weight,   \* weightedBackend.weight
    mu,       \* holder of P2C.mu
    closed,   \* P2C.done is closed
    loop,     \* where healthLoop is
    chk,      \* chk[s][o]: where the goroutine checking o, found on list s, is
    seen,     \* seen[s][o]: the slice that goroutine has loaded
    client,   \* the call each client is in
    reader,   \* the Health call each reader is in
    rq,       \* the request each slot is serving
    up,       \* what the health check of a URL would answer now
    members,  \* history: URLs added and not removed, as the callers were told
    crashed   \* a goroutine panicked, which ends the process

poolVars == <<list, mark, mu, closed, loop, chk, seen, client, reader, up, members, crashed>>
vars == <<list, mark, weight, mu, closed, loop, chk, seen, client, reader, rq, up, members, crashed>>

Url(o)    == o[1]
Urls(S)   == {Url(o) : o \in S}
Other(s)  == IF s = "healthy" THEN "sick" ELSE "healthy"

idleClient  == [pc |-> "idle"]
idleReader  == [pc |-> "idle"]
idleRequest == [pc |-> "idle"]

\* Slots of the model's heap that the program no longer refers to; Add
\* allocates from them, so no run is limited to a number of Adds.
Referenced(o) ==
    \/ \E s \in Side : o \in list[s] \/ chk[s][o] # "idle"
    \/ \E s \in Side, p \in Obj : o \in seen[s][p]
    \/ \E c \in Client : client[c].pc = "probed" /\ client[c].obj = o
    \/ \E r \in Request : \/ rq[r].pc = "pick" /\ o \in rq[r].snap
                          \/ rq[r].pc \in {"weigh", "compare"} /\ o \in {rq[r].x, rq[r].y}
                          \/ rq[r].pc \in {"chosen", "serving"} /\ o = rq[r].to

Init ==
    /\ list = [s \in Side |-> {}]
    /\ mark = [o \in Obj |-> "unknown"]
    /\ weight = [o \in Obj |-> 0]
    /\ mu = Lock
    /\ closed = FALSE
    /\ loop = "select"
    /\ chk = [s \in Side |-> [o \in Obj |-> "idle"]]
    /\ seen = [s \in Side |-> [o \in Obj |-> {}]]
    /\ client = [c \in Client |-> idleClient]
    /\ reader = [d \in Reader |-> idleReader]
    /\ rq = [r \in Request |-> idleRequest]
    /\ up \in [URL -> BOOLEAN]
    /\ members = {}
    /\ crashed = FALSE

-----------------------------------------------------------------------------
(* The copy-on-write helpers, on the slice a caller has loaded.            *)

\* Mistake: the search for a URL stops at the first backend.
HasAny(S, u) == S # {}

Has(S, u)      == u \in Urls(S)                      \* the URL comparison of both loops
\* Mistake: what is stored is not a slice of backends.
WithoutAsUrls(S, u) == Urls(S) \ {u}

Without(S, u)  == {o \in S : Url(o) # u}

-----------------------------------------------------------------------------
(* Callers.                                                                *)

\* Add up to the lock: the health check runs outside it.  A sick backend is
\* refused and its object dropped.
AddProbe(c) ==
    /\ client[c].pc = "idle"
    /\ \E o \in Obj :
        /\ ~Referenced(o)
        /\ AddKnown \/ Url(o) \notin members
        /\ ~AddKnown => \A d \in Client : client[d].pc = "probed" => Url(client[d].obj) # Url(o)
        /\ up[Url(o)]
        /\ mark' = [mark EXCEPT ![o] = "healthy"]
        /\ weight' = [weight EXCEPT ![o] = 0]
        /\ client' = [client EXCEPT ![c] = [pc |-> "probed", obj |-> o]]
    /\ UNCHANGED <<list, mu, closed, loop, chk, seen, reader, rq, up, members, crashed>>

\* Mistake: addToValue does not look for the URL.
AddStoreUnchecked(c) ==
    /\ client[c].pc = "probed"
    /\ mu = Lock
    /\ list' = [list EXCEPT !["healthy"] = @ \cup {client[c].obj}]
    /\ members' = members \cup {Url(client[c].obj)}
    /\ client' = [client EXCEPT ![c] = idleClient]
    /\ UNCHANGED <<mark, weight, mu, closed, loop, chk, seen, reader, rq, up, crashed>>

\* The rest of Add, under mu: only the healthy slice is searched for the URL.
AddStore(c) ==
    /\ client[c].pc = "probed"
    /\ mu = Lock
    /\ LET o == client[c].obj IN
         IF Has(list["healthy"], Url(o))
         THEN UNCHANGED <<list, members>>
         ELSE /\ list' = [list EXCEPT !["healthy"] = @ \cup {o}]
              /\ members' = members \cup {Url(o)}
    /\ client' = [client EXCEPT ![c] = idleClient]
    /\ UNCHANGED <<mark, weight, mu, closed, loop, chk, seen, reader, rq, up, crashed>>

\* History of a Health call between its two loads: which members were removed,
\* and whether a round of health checks ran.
Noting(q, removed, quiet) ==
    IF q.pc = "asking" THEN [q EXCEPT !.kept = @ \ removed, !.quiet = @ /\ quiet] ELSE q

\* Remove takes mu and stores the healthy slice first ...
RemoveHealthy(c) ==
    /\ client[c].pc = "idle"
    /\ mu = Lock
    /\ mu' = c
    /\ \E u \in URL :
        /\ list' = [list EXCEPT !["healthy"] = Without(@, u)]
        /\ members' = members \ {u}
        /\ client' = [client EXCEPT ![c] = [pc |-> "removing", url |-> u]]
        /\ reader' = [d \in Reader |-> Noting(reader[d], {u}, TRUE)]
    /\ UNCHANGED <<mark, weight, closed, loop, chk, seen, rq, up, crashed>>

\* Mistake: Remove leaves the sick slice alone.
RemoveSickSkipped(c) ==
    /\ client[c].pc = "removing"
    /\ mu' = Lock
    /\ client' = [client EXCEPT ![c] = idleClient]
    /\ UNCHANGED <<list, mark, weight, closed, loop, chk, seen, reader, rq, up, members, crashed>>

\* ... and then the sick one.
RemoveSick(c) ==
    /\ client[c].pc = "removing"
    /\ list' = [list EXCEPT !["sick"] = Without(@, client[c].url)]
    /\ mu' = Lock
    /\ client' = [client EXCEPT ![c] = idleClient]
    /\ UNCHANGED <<mark, weight, closed, loop, chk, seen, reader, rq, up, members, crashed>>

\* Health loads the two slices one after the other, with no lock.  "kept" and
\* "quiet" are history: the members of the whole time between the loads, and
\* whether no round of health checks overlapped it.
HealthLoadHealthy(d) ==
    /\ reader[d].pc = "idle"
    /\ reader' = [reader EXCEPT ![d] = [pc |-> "asking", h |-> Urls(list["healthy"]),
                                       kept |-> members, quiet |-> mu # "loop"]]
    /\ UNCHANGED <<list, mark, weight, mu, closed, loop, chk, seen, client, rq, up, members, crashed>>

\* Mistake: a pool is called empty when nothing in it is healthy.
StatusOfHealthy(h, s) == IF h = {} THEN "EMPTY" ELSE IF s # {} THEN "DEGRADED" ELSE "FULL"

StatusOf(h, s) == IF h = {} /\ s = {} THEN "EMPTY" ELSE IF s # {} THEN "DEGRADED" ELSE "FULL"

HealthLoadSick(d) ==
    /\ reader[d].pc = "asking"
    /\ reader' = [reader EXCEPT ![d] =
                    [pc |-> "told", status |-> StatusOf(reader[d].h, list["sick"]),
                     h |-> reader[d].h, kept |-> reader[d].kept, quiet |-> reader[d].quiet]]
    /\ UNCHANGED <<list, mark, weight, mu, closed, loop, chk, seen, client, rq, up, members, crashed>>

HealthReturn(d) ==
    /\ reader[d].pc = "told"
    /\ reader' = [reader EXCEPT ![d] = idleReader]
    /\ UNCHANGED <<list, mark, weight, mu, closed, loop, chk, seen, client, rq, up, members, crashed>>

Close ==
    /\ ~closed      \* a second close(s.done) would panic; LoadBalancer.RemovePool calls it once
    /\ closed' = TRUE
    /\ UNCHANGED <<list, mark, weight, mu, loop, chk, seen, client, reader, rq, up, members, crashed>>

-----------------------------------------------------------------------------
(* healthLoop and one round of healthChecks.                               *)

\* Mistake: the break leaves the select and not the loop.
LoopExitOfSelect ==
    /\ loop = "select" /\ closed
    /\ UNCHANGED vars

LoopExit ==
    /\ loop = "select" /\ closed
    /\ loop' = "exited"
    /\ UNCHANGED <<list, mark, weight, mu, closed, chk, seen, client, reader, rq, up, members, crashed>>

\* The timer case of the select: also possible once more after Close, when both are ready.
LoopTick ==
    /\ loop = "select"
    /\ loop' = "lock"
    /\ UNCHANGED <<list, mark, weight, mu, closed, chk, seen, client, reader, rq, up, members, crashed>>

\* One goroutine for each backend of the slice of side s.
Spawn(s) == [chk EXCEPT ![s] = [o \in Obj |-> IF o \in list[s] THEN "probe" ELSE @[o]]]

\* Mistake: a round does not take mu.
LoopLockFree ==
    /\ loop = "lock"
    /\ chk' = Spawn("healthy")
    /\ loop' = "spawn"
    /\ UNCHANGED <<list, mark, weight, mu, closed, seen, client, reader, rq, up, members, crashed>>

LoopLock ==
    /\ loop = "lock" /\ mu = Lock
    /\ mu' = "loop"
    /\ chk' = Spawn("healthy")
    /\ loop' = "spawn"
    /\ reader' = [d \in Reader |-> Noting(reader[d], {}, FALSE)]
    /\ UNCHANGED <<list, mark, weight, closed, seen, client, rq, up, members, crashed>>

\* Mistake: a round does not check the sick backends.
LoopSpawnNoSick ==
    /\ loop = "spawn"
    /\ loop' = "wait"
    /\ UNCHANGED <<list, mark, weight, mu, closed, chk, seen, client, reader, rq, up, members, crashed>>

\* The sick slice is loaded when the first goroutines are already running.
LoopSpawnSick ==
    /\ loop = "spawn"
    /\ chk' = Spawn("sick")
    /\ loop' = "wait"
    /\ UNCHANGED <<list, mark, weight, mu, closed, seen, client, reader, rq, up, members, crashed>>

\* wg.Wait returns; mu is released.
LoopEndRound ==
    /\ loop = "wait"
    /\ \A s \in Side, o \in Obj : chk[s][o] = "idle"
    /\ loop' = "select"
    /\ mu' = Lock
    /\ UNCHANGED <<list, mark, weight, closed, chk, seen, client, reader, rq, up, members, crashed>>

Switching == {so \in Side \X Obj : chk[so[1]][so[2]] \notin {"idle", "probe"}}

\* Mistake: setHealth is not called.
ProbeUnmarked(s, o) ==
    /\ chk[s][o] = "probe"
    /\ up[Url(o)] # (s = "healthy") => Cardinality(Switching) < Parallel
    /\ chk' = [chk EXCEPT ![s][o] = IF up[Url(o)] = (s = "healthy") THEN "idle" ELSE "remove"]
    /\ UNCHANGED <<list, mark, weight, mu, closed, loop, seen, client, reader, rq, up, members, crashed>>

\* The health check of one backend; when it contradicts the list the backend
\* is on, healthyToSick or sickToHealthy begins with setHealth.
Probe(s, o) ==
    /\ chk[s][o] = "probe"
    /\ IF up[Url(o)] = (s = "healthy")
       THEN chk' = [chk EXCEPT ![s][o] = "idle"] /\ UNCHANGED mark
       ELSE /\ Cardinality(Switching) < Parallel
            /\ mark' = [mark EXCEPT ![o] = Other(s)]
            /\ chk' = [chk EXCEPT ![s][o] = "remove"]
    /\ UNCHANGED <<list, weight, mu, closed, loop, seen, client, reader, rq, up, members, crashed>>

\* removeFromValue loads its slice: it returns nil for an empty one, so the
\* caller goes on, and an error when the backend is not there, so it stops.
RemoveLoad(s, o) ==
    /\ chk[s][o] = "remove"
    /\ LET next == IF list[s] = {} THEN "add"
                   ELSE IF Has(list[s], Url(o)) THEN "removeStore" ELSE "idle"
       IN  /\ chk' = [chk EXCEPT ![s][o] = next]
           /\ seen' = [seen EXCEPT ![s][o] = IF next = "removeStore" THEN list[s] ELSE {}]
    /\ UNCHANGED <<list, mark, weight, mu, closed, loop, client, reader, rq, up, members, crashed>>

\* Mistake: a backend taken off one list is not put on the other.
RemoveStoreOnly(s, o) ==
    /\ chk[s][o] = "removeStore"
    /\ list' = [list EXCEPT ![s] = Without(seen[s][o], Url(o))]
    /\ chk' = [chk EXCEPT ![s][o] = "idle"]
    /\ seen' = [seen EXCEPT ![s][o] = {}]
    /\ UNCHANGED <<mark, weight, mu, closed, loop, client, reader, rq, up, members, crashed>>

RemoveStore(s, o) ==
    /\ chk[s][o] = "removeStore"
    /\ list' = [list EXCEPT ![s] = Without(seen[s][o], Url(o))]
    /\ chk' = [chk EXCEPT ![s][o] = "add"]
    /\ seen' = [seen EXCEPT ![s][o] = {}]
    /\ UNCHANGED <<mark, weight, mu, closed, loop, client, reader, rq, up, members, crashed>>

\* addToValue loads the other slice; a backend it already holds is the
\* error the caller panics with.
AddLoad(s, o) ==
    /\ chk[s][o] = "add"
    /\ IF Has(list[Other(s)], Url(o))
       THEN crashed' = TRUE /\ UNCHANGED <<chk, seen>>
       ELSE /\ chk' = [chk EXCEPT ![s][o] = "addStore"]
            /\ seen' = [seen EXCEPT ![s][o] = list[Other(s)]]
            /\ UNCHANGED crashed
    /\ UNCHANGED <<list, mark, weight, mu, closed, loop, client, reader, rq, up, members>>

AddToOther(s, o) ==
    /\ chk[s][o] = "addStore"
    /\ list' = [list EXCEPT ![Other(s)] = seen[s][o] \cup {o}]
    /\ chk' = [chk EXCEPT ![s][o] = "idle"]
    /\ seen' = [seen EXCEPT ![s][o] = {}]
    /\ UNCHANGED <<mark, weight, mu, closed, loop, client, reader, rq, up, members, crashed>>

-----------------------------------------------------------------------------
(* ServeHTTP.                                                              *)

\* An empty slice is answered with a 500 and changes nothing.
RqLoad(r) ==
    /\ rq[r].pc = "idle"
    /\ list["healthy"] # {}
    /\ rq' = [rq EXCEPT ![r] = [pc |-> "pick", snap |-> list["healthy"]]]
    /\ UNCHANGED <<poolVars, weight>>

\* Two draws, possibly of the same backend.
RqPick(r) ==
    /\ rq[r].pc = "pick"
    /\ \E x, y \in rq[r].snap : rq' = [rq EXCEPT ![r] = [pc |-> "weigh", x |-> x, y |-> y]]
    /\ UNCHANGED <<poolVars, weight>>

\* The rand.Rand is shared with no lock: a draw that races with another may
\* also panic inside it, which net/http turns into an aborted request.
RqPickPanic(r) ==
    /\ rq[r].pc = "pick"
    /\ \E q \in Request \ {r} : rq[q].pc = "pick"
    /\ rq' = [rq EXCEPT ![r] = idleRequest]
    /\ UNCHANGED <<poolVars, weight>>

RqWeighX(r) ==
    /\ rq[r].pc = "weigh"
    /\ rq' = [rq EXCEPT ![r] = [pc |-> "compare", x |-> rq[r].x, y |-> rq[r].y, wx |-> weight[rq[r].x]]]
    /\ UNCHANGED <<poolVars, weight>>

Lighter(q) == IF q.wx < weight[q.y] THEN q.x ELSE q.y

RqCompare(r) ==
    /\ rq[r].pc = "compare"
    /\ rq' = [rq EXCEPT ![r] = [pc |-> "chosen", to |-> Lighter(rq[r])]]
    /\ UNCHANGED <<poolVars, weight>>

\* weightedBackend.handler: call(), then the proxy.
RqCall(r) ==
    /\ rq[r].pc = "chosen"
    /\ weight' = [weight EXCEPT ![rq[r].to] = @ + 1]
    /\ rq' = [rq EXCEPT ![r].pc = "serving"]
    /\ UNCHANGED poolVars

\* Mistake: done() is skipped when the proxy panics.
RqDoneOrNot(r) ==
    /\ rq[r].pc = "serving"
    /\ \E less \in {0, 1} : weight' = [weight EXCEPT ![rq[r].to] = @ - less]
    /\ rq' = [rq EXCEPT ![r] = idleRequest]
    /\ UNCHANGED poolVars

\* The deferred done(), also when the proxy panics.  It panics below zero,
\* which aborts the request only.
RqDone(r) ==
    /\ rq[r].pc = "serving"
    /\ weight' = [weight EXCEPT ![rq[r].to] = @ - 1]
    /\ rq' = [rq EXCEPT ![r] = idleRequest]
    /\ UNCHANGED poolVars

-----------------------------------------------------------------------------
(* The backends: a health check starts or stops passing.                   *)
Flip(u) ==
    /\ up' = [up EXCEPT ![u] = ~@]
    /\ UNCHANGED <<list, mark, weight, mu, closed, loop, chk, seen, client, reader, rq, members, crashed>>

ClientStep(c)  == AddProbe(c) \/ AddStore(c) \/ RemoveHealthy(c) \/ RemoveSick(c)
ReaderStep(d)  == HealthLoadHealthy(d) \/ HealthLoadSick(d) \/ HealthReturn(d)
CheckStep(s, o) == Probe(s, o) \/ RemoveLoad(s, o) \/ RemoveStore(s, o)
                    \/ AddLoad(s, o) \/ AddToOther(s, o)
LoopStep       == LoopTick \/ LoopLock \/ LoopSpawnSick \/ LoopEndRound
RequestStep(r) == RqLoad(r) \/ RqPick(r) \/ RqPickPanic(r) \/ RqWeighX(r)
                    \/ RqCompare(r) \/ RqCall(r) \/ RqDone(r)

Next ==
    /\ ~crashed
    /\ \/ \E c \in Client : ClientStep(c)
       \/ \E d \in Reader : ReaderStep(d)
       \/ Close
       \/ LoopExit
       \/ LoopStep
       \/ \E s \in Side, o \in Obj : CheckStep(s, o)
       \/ \E r \in Request : RequestStep(r)
       \/ \E u \in URL : Flip(u)

Spec == Init /\ [][Next]_vars

\* The scheduler runs every goroutine; a mutex waiter is not starved, and a
\* select with two ready cases does not take the same one for ever.  Clients
\* finish the calls they begin; nothing obliges them to begin one, and
\* nothing obliges a backend to change.
Fairness ==
    /\ WF_vars(~crashed /\ LoopTick)
    /\ WF_vars(~crashed /\ LoopSpawnSick)
    /\ WF_vars(~crashed /\ LoopEndRound)
    /\ SF_vars(~crashed /\ LoopLock)
    /\ SF_vars(~crashed /\ LoopExit)
    /\ \A s \in Side, o \in Obj : WF_vars(~crashed /\ CheckStep(s, o))
    /\ \A c \in Client : WF_vars(~crashed /\ RemoveSick(c))

FairSpec == Spec /\ Fairness

-----------------------------------------------------------------------------
(* Properties.                                                             *)

ClientState ==
    [pc : {"idle"}] \cup [pc : {"probed"}, obj : Obj] \cup [pc : {"removing"}, url : URL]

ReaderState ==
    [pc : {"idle"}] \cup [pc : {"asking"}, h : SUBSET URL, kept : SUBSET URL, quiet : BOOLEAN]
      \cup [pc : {"told"}, status : {"EMPTY", "FULL", "DEGRADED"},
            h : SUBSET URL, kept : SUBSET URL, quiet : BOOLEAN]

RequestState ==
    [pc : {"idle"}] \cup [pc : {"pick"}, snap : SUBSET Obj]
      \cup [pc : {"weigh"}, x : Obj, y : Obj] \cup [pc : {"compare"}, x : Obj, y : Obj, wx : Int]
      \cup [pc : {"chosen", "serving"}, to : Obj]

\* The type invariant of the pool's state.
TypeOK ==
    /\ list \in [Side -> SUBSET Obj]
    /\ mark \in [Obj -> {"unknown", "healthy", "sick"}]
    /\ weight \in [Obj -> Int]
    /\ mu \in {Lock, "loop"} \cup Client
    /\ closed \in BOOLEAN
    /\ loop \in {"select", "lock", "spawn", "wait", "exited"}
    /\ chk \in [Side -> [Obj -> {"idle", "probe", "remove", "removeStore", "add", "addStore"}]]
    /\ seen \in [Side -> [Obj -> SUBSET Obj]]
    /\ client \in [Client -> ClientState]
    /\ reader \in [Reader -> ReaderState]
    /\ rq \in [Request -> RequestState]
    /\ up \in [URL -> BOOLEAN]
    /\ members \in SUBSET URL
    /\ crashed \in BOOLEAN

\* URLs a Remove has taken off the healthy slice and not yet off the sick one.
Leaving == {client[c].url : c \in {d \in Client : client[d].pc = "removing"}}

\* However the Loads and Stores of a round interleave, no list holds a backend
\* that callers removed or never added: a stale slice cannot bring back a
\* backend that Remove took out (p2c.go Remove, healthChecks).
NoPhantomBackend ==
    /\ Urls(list["healthy"]) \subseteq members
    /\ Urls(list["sick"]) \subseteq members \cup Leaving

\* addToValue keeps the objects of one slice at different URLs, also when
\* goroutines of a round and callers add to it (p2c.go addToValue).
OneObjectPerUrl ==
    \A s \in Side : \A o, p \in list[s] : Url(o) = Url(p) => o = p

\* The requests that o is proxying.
Serving(o) == {r \in Request : rq[r].pc = "serving" /\ rq[r].to = o}

\* The weight of an object is the number of requests being proxied to it,
\* through every removal, switch and re-add, so the panic of
\* weightedBackend.done is never reached (p2c.go handler, call, done).
WeightCountsRequests ==
    \A o \in Obj : weight[o] = Cardinality(Serving(o))

\* Every backend that was added and not removed is on one of the two lists
\* whenever no change is under way, so that the health checks can return it to
\* service (lb/README.md: "it will remove unhealthy nodes until they pass a
\* health check").
NoBackendLost ==
    mu = Lock => members \subseteq Urls(list["healthy"]) \cup Urls(list["sick"])

\* Between rounds a backend is on one list only, the one its last health
\* check put it on.
OneListEach ==
    mu = Lock => /\ Urls(list["healthy"]) \cap Urls(list["sick"]) = {}
                 /\ \A s \in Side : \A o \in list[s] : mark[o] = s

\* The panics of healthyToSick and sickToHealthy are never reached.
NeverPanics == ~crashed

\* When no round overlaps a call of Health, its two loads make one picture,
\* whatever Adds and Removes come between them: PS_EMPTY means that no backend
\* was configured throughout, and PS_FULL that every one that was is in the
\* answer (lb.proto PoolStatus; the workflow's checkLBState relies on both).
HealthIsOnePicture ==
    \A d \in Reader : reader[d].pc = "told" /\ reader[d].quiet =>
        /\ reader[d].status = "EMPTY" => reader[d].kept = {}
        /\ reader[d].status = "FULL"  => reader[d].kept \subseteq reader[d].h

\* A registered backend that keeps passing its health check ends up in service
\* for good while the pool is open.
Recovers ==
    \A u \in URL : (<>[](up[u] /\ u \in members /\ ~closed)) => <>[](u \in Urls(list["healthy"]))

\* Close ends the health check goroutine.
CloseStopsLoop == closed ~> (loop = "exited")

\* The pool keeps the promise of PoolRegistry: the healthy slice is what serves.
Registry == INSTANCE PoolRegistry WITH registered <- members, inService <- Urls(list["healthy"])
RegistrySpec == Registry!Spec
=============================================================================
