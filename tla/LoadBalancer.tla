---------------------------- MODULE LoadBalancer ----------------------------
(***************************************************************************)
(* The load balancer's pools and routes (lb/server/http/server.go) under   *)
(* the gRPC calls that control it (lb/server/grpc/server.go) and the HTTP  *)
(* requests it routes.  A pool is seen from outside here: open or closed,  *)
(* with a set of backends; its inside is module P2C.                       *)
(***************************************************************************)
EXTENDS Naturals, FiniteSets

CONSTANTS
    Pattern, URL,
    Pool,        \* the pool objects that can be allocated
    Caller,      \* gRPC calls in progress
    Request,     \* HTTP requests in progress
    NoPool,      \* "pattern not registered"
    Lock         \* the value of LoadBalancer.mu when nobody holds it

VARIABLES
    pools,     \* LoadBalancer.pools
    routes,    \* the patterns of the mux that routeHandler holds
    mu,        \* holder of LoadBalancer.mu
    state,     \* of each pool: "free" (not allocated), "open" (its health loop runs) or "closed"
    backends,  \* the backends of each pool
    call,      \* the gRPC call of each caller
    rq,        \* the pool each request was routed to
    closes     \* history: how often each pool was closed

vars == <<pools, routes, mu, state, backends, call, rq, closes>>

Idle == [pc |-> "idle"]

Init ==
    /\ pools = [k \in Pattern |-> NoPool]
    /\ routes = pools
    /\ mu = Lock
    /\ state = [p \in Pool |-> "free"]
    /\ backends = [p \in Pool |-> {}]
    /\ call = [c \in Caller |-> Idle]
    /\ rq = [r \in Request |-> NoPool]
    /\ closes = [p \in Pool |-> 0]

Become(c, r) == call' = [call EXCEPT ![c] = r]

-----------------------------------------------------------------------------
(* AddPool.                                                                *)

\* The gRPC handler builds the pool, which starts its health loop, ...
NewPool(c) ==
    /\ call[c].pc = "idle"
    /\ \E k \in Pattern, p \in Pool :
        /\ state[p] = "free"
        /\ state' = [state EXCEPT ![p] = "open"]
        /\ Become(c, [pc |-> "addPool", key |-> k, pool |-> p])
    /\ UNCHANGED <<pools, routes, mu, backends, rq, closes>>

\* Mistake: the route of a taken pattern is replaced.
AddPoolReroutes(c) ==
    /\ call[c].pc = "addPool" /\ mu = Lock
    /\ LET k == call[c].key IN
         /\ pools' = IF pools[k] # NoPool THEN pools ELSE [pools EXCEPT ![k] = call[c].pool]
         /\ routes' = [routes EXCEPT ![k] = call[c].pool]
    /\ Become(c, Idle)
    /\ UNCHANGED <<mu, state, backends, rq, closes>>

\* ... then registers it.  A pattern that is taken is an error, and the new
\* pool is left open.  Otherwise the present mux gets the route.
AddPool(c) ==
    /\ call[c].pc = "addPool" /\ mu = Lock
    /\ LET k == call[c].key IN
         IF pools[k] # NoPool
         THEN UNCHANGED <<pools, routes>>
         ELSE /\ pools' = [pools EXCEPT ![k] = call[c].pool]
              /\ routes' = [routes EXCEPT ![k] = call[c].pool]
    /\ Become(c, Idle)
    /\ UNCHANGED <<mu, state, backends, rq, closes>>

-----------------------------------------------------------------------------
(* RemovePool: an unknown pattern is no error and changes nothing.         *)

\* Mistake: the closed pool stays registered.
RemovePoolOnlyCloses(c) ==
    /\ call[c].pc = "idle" /\ mu = Lock
    /\ \E k \in Pattern :
        /\ pools[k] # NoPool
        /\ state' = [state EXCEPT ![pools[k]] = "closed"]
        /\ closes' = [closes EXCEPT ![pools[k]] = @ + 1]
    /\ mu' = c
    /\ Become(c, [pc |-> "rebuild"])
    /\ UNCHANGED <<pools, routes, backends, rq>>

RemovePoolClose(c) ==
    /\ call[c].pc = "idle" /\ mu = Lock
    /\ \E k \in Pattern :
        /\ pools[k] # NoPool
        /\ state' = [state EXCEPT ![pools[k]] = "closed"]
        /\ closes' = [closes EXCEPT ![pools[k]] = @ + 1]
        /\ pools' = [pools EXCEPT ![k] = NoPool]
    /\ mu' = c
    /\ Become(c, [pc |-> "rebuild"])
    /\ UNCHANGED <<routes, backends, rq>>

\* Mistake: the old mux stays.
RemovePoolKeepsMux(c) ==
    /\ call[c].pc = "rebuild"
    /\ mu' = Lock
    /\ Become(c, Idle)
    /\ UNCHANGED <<pools, routes, state, backends, rq, closes>>

\* A new mux with the pools that are left replaces the old one in one store.
RemovePoolReplace(c) ==
    /\ call[c].pc = "rebuild"
    /\ routes' = pools
    /\ mu' = Lock
    /\ Become(c, Idle)
    /\ UNCHANGED <<pools, state, backends, rq, closes>>

-----------------------------------------------------------------------------
(* AddBackend and RemoveBackend: GetPool under mu, the pool itself without.  *)

\* Mistake: a pattern that is not registered yields a nil pool.
GetPoolUnchecked(c) ==
    /\ call[c].pc = "idle" /\ mu = Lock
    /\ \E k \in Pattern, u \in URL, op \in {"addBackend", "removeBackend"} :
         Become(c, [pc |-> op, key |-> k, pool |-> pools[k], url |-> u])
    /\ UNCHANGED <<pools, routes, mu, state, backends, rq, closes>>

GetPool(c) ==
    /\ call[c].pc = "idle" /\ mu = Lock
    /\ \E k \in Pattern, u \in URL, op \in {"addBackend", "removeBackend"} :
        /\ pools[k] # NoPool
        /\ Become(c, [pc |-> op, key |-> k, pool |-> pools[k], url |-> u])
    /\ UNCHANGED <<pools, routes, mu, state, backends, rq, closes>>

\* Pool.Add of a healthy backend that is new to the pool.
AddBackend(c) ==
    /\ call[c].pc = "addBackend"
    /\ backends' = [backends EXCEPT ![call[c].pool] = @ \cup {call[c].url}]
    /\ Become(c, Idle)
    /\ UNCHANGED <<pools, routes, mu, state, rq, closes>>

\* Pool.Add of a sick one, or one that is already there: an error.
AddBackendRefused(c) ==
    /\ call[c].pc = "addBackend"
    /\ Become(c, Idle)
    /\ UNCHANGED <<pools, routes, mu, state, backends, rq, closes>>

RemoveBackend(c) ==
    /\ call[c].pc = "removeBackend"
    /\ backends' = [backends EXCEPT ![call[c].pool] = @ \ {call[c].url}]
    /\ Become(c, Idle)
    /\ UNCHANGED <<pools, routes, mu, state, rq, closes>>

\* A call for a pattern that is not registered is an error, or no error for
\* RemovePool; it changes nothing.
UnknownPattern(c) ==
    /\ call[c].pc = "idle" /\ mu = Lock
    /\ \E k \in Pattern : pools[k] = NoPool
    /\ UNCHANGED vars

-----------------------------------------------------------------------------
(* HTTP requests: routeHandler loads the mux, which finds the pool.        *)

Route(r) ==
    /\ rq[r] = NoPool
    /\ \E k \in Pattern : routes[k] # NoPool /\ rq' = [rq EXCEPT ![r] = routes[k]]
    /\ UNCHANGED <<pools, routes, mu, state, backends, call, closes>>

Served(r) ==
    /\ rq[r] # NoPool
    /\ rq' = [rq EXCEPT ![r] = NoPool]
    /\ UNCHANGED <<pools, routes, mu, state, backends, call, closes>>

-----------------------------------------------------------------------------
CallStep(c) == AddPool(c) \/ RemovePoolReplace(c) \/ AddBackend(c) \/ AddBackendRefused(c)
                 \/ RemoveBackend(c)

Begin(c) == NewPool(c) \/ RemovePoolClose(c) \/ GetPool(c) \/ UnknownPattern(c)

Next == (\E c \in Caller : Begin(c) \/ CallStep(c)) \/ \E r \in Request : Route(r) \/ Served(r)

Spec == Init /\ [][Next]_vars

-----------------------------------------------------------------------------
(* Properties.                                                             *)

CallState ==
    [pc : {"idle", "rebuild"}] \cup [pc : {"addPool"}, key : Pattern, pool : Pool]
      \cup [pc : {"addBackend", "removeBackend"}, key : Pattern, pool : Pool, url : URL]

\* The type invariant.
TypeOK ==
    /\ pools \in [Pattern -> Pool \cup {NoPool}] /\ routes \in [Pattern -> Pool \cup {NoPool}]
    /\ mu \in Caller \cup {Lock}
    /\ state \in [Pool -> {"free", "open", "closed"}]
    /\ backends \in [Pool -> SUBSET URL]
    /\ call \in [Caller -> CallState]
    /\ rq \in [Request -> Pool \cup {NoPool}]
    /\ closes \in [Pool -> Nat]

\* Between calls the mux routes exactly the registered pools, each under its
\* pattern only, and a registered pool is open: in whatever order calls add
\* and remove pools, no route outlives its pool (server.go AddPool, RemovePool).
RoutesArePools ==
    mu = Lock =>
        /\ routes = pools
        /\ \A k \in Pattern : pools[k] # NoPool =>
              /\ state[pools[k]] = "open"
              /\ \A l \in Pattern : pools[l] = pools[k] => l = k

\* A pool is closed once at most: the second close of P2C.done would panic.
ClosedOnce == \A p \in Pool : closes[p] <= 1

\* A request goes to a pool that was registered when its route was found, or
\* that a RemovePool under way is taking out.
RoutedToRegistered ==
    [][\A r \in Request : rq[r] = NoPool /\ rq'[r] # NoPool =>
          \/ \E k \in Pattern : pools[k] = rq'[r]
          \/ mu # Lock /\ state[rq'[r]] = "closed"]_vars
=============================================================================
