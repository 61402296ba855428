------------------------ MODULE LoadBalancer_proofs ------------------------
(***************************************************************************)
(* Proofs about the load balancer's pools and routes, for any patterns,    *)
(* pools, calls and requests.                                              *)
(***************************************************************************)
EXTENDS LoadBalancer, TLAPS

\* The values for "nobody" and "nothing" are not ones of somebody or something.
Distinct == Lock \notin Caller /\ NoPool \notin Pool

-----------------------------------------------------------------------------
(* The invariant.                                                          *)

\* The mutex is held by the RemovePool that is between closing a pool and
\* replacing the mux, and by nobody else from one step to the next.
MutexHeld ==
    /\ mu # Lock => call[mu].pc = "rebuild"
    /\ \A c \in Caller : call[c].pc = "rebuild" => mu = c

\* A registered pool is open, and registered once.
RegisteredOpen ==
    \A k \in Pattern : pools[k] # NoPool =>
        state[pools[k]] = "open" /\ \A l \in Pattern : pools[l] = pools[k] => l = k

\* A pool that an AddPool has built is open, and nobody else has it.
BuiltIsOwn ==
    \A c \in Caller : call[c].pc = "addPool" =>
        /\ state[call[c].pool] = "open"
        /\ \A k \in Pattern : pools[k] # call[c].pool
        /\ \A d \in Caller : call[d].pc = "addPool" /\ call[d].pool = call[c].pool => d = c

\* The mux differs from the map only for the pool that is being removed.
RoutesFollow ==
    \A k \in Pattern : \/ routes[k] = pools[k]
                       \/ mu # Lock /\ pools[k] = NoPool /\ state[routes[k]] = "closed"

CloseCounted == \A p \in Pool : closes[p] = IF state[p] = "closed" THEN 1 ELSE 0

IInv == TypeOK /\ MutexHeld /\ RegisteredOpen /\ BuiltIsOwn /\ RoutesFollow /\ CloseCounted

-----------------------------------------------------------------------------
(* The steps.                                                              *)

LEMMA NewPoolKeeps == ASSUME Distinct, IInv, NEW c \in Caller, NewPool(c) PROVE IInv'
<1>1. PICK k \in Pattern, p \in Pool :
        /\ call[c].pc = "idle" /\ state[p] = "free"
        /\ state' = [state EXCEPT ![p] = "open"]
        /\ call' = [call EXCEPT ![c] = [pc |-> "addPool", key |-> k, pool |-> p]]
        /\ UNCHANGED <<pools, routes, mu, backends, rq, closes>>
  BY DEF NewPool, Become
<1>2. TypeOK'
  BY <1>1 DEF IInv, TypeOK, CallState
<1>3. MutexHeld' /\ RegisteredOpen' /\ RoutesFollow' /\ CloseCounted'
  BY <1>1 DEF Distinct, IInv, TypeOK, MutexHeld, RegisteredOpen, RoutesFollow, CloseCounted
<1>4. BuiltIsOwn'
  BY <1>1 DEF Distinct, IInv, TypeOK, RegisteredOpen, BuiltIsOwn
<1> QED
  BY <1>2, <1>3, <1>4 DEF IInv

LEMMA AddPoolKeeps == ASSUME Distinct, IInv, NEW c \in Caller, AddPool(c) PROVE IInv'
<1>1. /\ call[c].pc = "addPool" /\ mu = Lock /\ call[c].key \in Pattern /\ call[c].pool \in Pool
      /\ call' = [call EXCEPT ![c] = Idle]
      /\ UNCHANGED <<mu, state, backends, rq, closes>>
  BY DEF AddPool, Become, IInv, TypeOK, CallState
<1>2. \/ UNCHANGED <<pools, routes>>
      \/ /\ pools[call[c].key] = NoPool
         /\ pools' = [pools EXCEPT ![call[c].key] = call[c].pool]
         /\ routes' = [routes EXCEPT ![call[c].key] = call[c].pool]
  BY DEF AddPool
<1>3. TypeOK'
  BY <1>1, <1>2 DEF IInv, TypeOK, CallState, Idle
<1>4. MutexHeld' /\ CloseCounted' /\ RoutesFollow'
  BY <1>1, <1>2 DEF IInv, TypeOK, MutexHeld, CloseCounted, RoutesFollow, Idle
<1>5. RegisteredOpen' /\ BuiltIsOwn'
  BY <1>1, <1>2 DEF Distinct, IInv, TypeOK, RegisteredOpen, BuiltIsOwn, Idle
<1> QED
  BY <1>3, <1>4, <1>5 DEF IInv

LEMMA RemovePoolKeeps ==
    ASSUME Distinct, IInv, NEW c \in Caller, RemovePoolClose(c) \/ RemovePoolReplace(c)
    PROVE  IInv'
<1>1. CASE RemovePoolClose(c)
  <2>1. PICK k \in Pattern :
          /\ call[c].pc = "idle" /\ mu = Lock /\ mu' = c /\ pools[k] # NoPool
          /\ state' = [state EXCEPT ![pools[k]] = "closed"]
          /\ closes' = [closes EXCEPT ![pools[k]] = @ + 1]
          /\ pools' = [pools EXCEPT ![k] = NoPool]
          /\ call' = [call EXCEPT ![c] = [pc |-> "rebuild"]]
          /\ UNCHANGED <<routes, backends, rq>>
    BY <1>1 DEF RemovePoolClose, Become
  <2>2. pools[k] \in Pool /\ state[pools[k]] = "open" /\ closes[pools[k]] = 0
    BY <2>1 DEF IInv, TypeOK, RegisteredOpen, CloseCounted
  <2>3. TypeOK'
    BY <2>1, <2>2 DEF IInv, TypeOK, CallState
  <2>4. MutexHeld' /\ CloseCounted'
    BY <2>1, <2>2 DEF Distinct, IInv, TypeOK, MutexHeld, CloseCounted
  <2>5. RegisteredOpen' /\ BuiltIsOwn'
    <3>1. RegisteredOpen'
      BY <2>1, <2>2 DEF Distinct, IInv, TypeOK, RegisteredOpen
    <3>2. \A d \in Caller : call'[d].pc = "addPool" => call'[d] = call[d]
      BY <2>1 DEF IInv, TypeOK
    <3>3. \A d \in Caller : call[d].pc = "addPool" =>
            call[d].pool \in Pool /\ call[d].pool # pools[k]
      BY DEF IInv, TypeOK, CallState, BuiltIsOwn
    <3>4. ASSUME NEW d \in Caller, call[d].pc = "addPool"
          PROVE  /\ state'[call[d].pool] = "open"
                 /\ \A l \in Pattern : pools'[l] # call[d].pool
      BY <2>1, <3>3, <3>4 DEF Distinct, IInv, TypeOK, BuiltIsOwn
    <3>5. BuiltIsOwn'
      BY <3>2, <3>4 DEF IInv, BuiltIsOwn
    <3> QED
      BY <3>1, <3>5
  <2>6. RoutesFollow'
    BY <2>1, <2>2 DEF Distinct, IInv, TypeOK, RoutesFollow, RegisteredOpen
  <2> QED
    BY <2>3, <2>4, <2>5, <2>6 DEF IInv
<1>2. CASE RemovePoolReplace(c)
  <2>1. /\ call[c].pc = "rebuild" /\ mu = c /\ mu' = Lock /\ routes' = pools
        /\ call' = [call EXCEPT ![c] = Idle]
        /\ UNCHANGED <<pools, state, backends, rq, closes>>
    BY <1>2 DEF RemovePoolReplace, Become, IInv, MutexHeld
  <2>2. TypeOK'
    BY <2>1 DEF IInv, TypeOK, CallState, Idle
  <2>3. MutexHeld' /\ CloseCounted' /\ RegisteredOpen' /\ BuiltIsOwn' /\ RoutesFollow'
    BY <2>1 DEF IInv, TypeOK, MutexHeld, CloseCounted, RegisteredOpen, BuiltIsOwn, RoutesFollow, Idle
  <2> QED
    BY <2>2, <2>3 DEF IInv
<1> QED
  BY <1>1, <1>2

\* Calls that use a pool, and requests, leave the pools and the routes alone.
LEMMA OthersKeep ==
    ASSUME Distinct, IInv,
           \/ \E c \in Caller : GetPool(c) \/ AddBackend(c) \/ AddBackendRefused(c) \/ RemoveBackend(c)
           \/ \E r \in Request : Route(r) \/ Served(r)
    PROVE  IInv'
<1>1. UNCHANGED <<pools, routes, mu, state, closes>>
  BY DEF GetPool, AddBackend, AddBackendRefused, RemoveBackend, Route, Served
<1>2. ASSUME NEW c \in Caller, GetPool(c) \/ AddBackend(c) \/ AddBackendRefused(c) \/ RemoveBackend(c)
      PROVE  IInv'
  <2>1. PICK r : /\ call[c].pc \in {"idle", "addBackend", "removeBackend"}
                 /\ r \in CallState /\ r.pc \in {"idle", "addBackend", "removeBackend"}
                 /\ call' = [call EXCEPT ![c] = r] /\ UNCHANGED rq
    BY <1>2 DEF GetPool, AddBackend, AddBackendRefused, RemoveBackend, Become, IInv, TypeOK, CallState, Idle
  <2>2. backends' \in [Pool -> SUBSET URL]
    BY <1>2 DEF GetPool, AddBackend, AddBackendRefused, RemoveBackend, IInv, TypeOK, CallState
  <2>3. TypeOK'
    BY <1>1, <2>1, <2>2 DEF IInv, TypeOK
  <2>4. MutexHeld' /\ CloseCounted' /\ RegisteredOpen' /\ BuiltIsOwn' /\ RoutesFollow'
    BY <1>1, <2>1 DEF Distinct, IInv, TypeOK, MutexHeld, CloseCounted, RegisteredOpen, BuiltIsOwn, RoutesFollow
  <2> QED
    BY <2>3, <2>4 DEF IInv
<1>3. ASSUME NEW r \in Request, Route(r) \/ Served(r) PROVE IInv'
  BY <1>1, <1>3 DEF Route, Served, IInv, TypeOK, MutexHeld, CloseCounted, RegisteredOpen, BuiltIsOwn, RoutesFollow
<1> QED
  BY <1>2, <1>3

LEMMA IInvInit == ASSUME Distinct, Init PROVE IInv
  BY DEF Distinct, Init, IInv, TypeOK, MutexHeld, CloseCounted, RegisteredOpen, BuiltIsOwn, RoutesFollow, CallState, Idle

LEMMA IInvStep == ASSUME Distinct, IInv, [Next]_vars PROVE IInv'
<1>1. CASE UNCHANGED vars
  BY <1>1 DEF vars, IInv, TypeOK, MutexHeld, CloseCounted, RegisteredOpen, BuiltIsOwn, RoutesFollow
<1>2. CASE Next
  <2>1. ASSUME NEW c \in Caller, Begin(c) \/ CallStep(c), ~UNCHANGED vars PROVE IInv'
    BY <2>1, NewPoolKeeps, AddPoolKeeps, RemovePoolKeeps, OthersKeep DEF Begin, CallStep, UnknownPattern
  <2> QED
    BY <1>1, <1>2, <2>1, OthersKeep DEF Next
<1> QED
  BY <1>1, <1>2

LEMMA IInvInvariant == ASSUME Distinct PROVE Spec => []IInv
  BY IInvInit, IInvStep, PTL DEF Spec

-----------------------------------------------------------------------------
(* The theorems.                                                           *)

\* The state of the load balancer keeps its types.
THEOREM TypeCorrect == ASSUME Distinct PROVE Spec => []TypeOK
<1>1. IInv => TypeOK
  BY DEF IInv
<1> QED
  BY <1>1, IInvInvariant, PTL

\* Between calls the mux has exactly the routes of the registered pools, which
\* are open, in whatever order calls add and remove pools (server.go AddPool,
\* RemovePool).
THEOREM RoutesSound == ASSUME Distinct PROVE Spec => []RoutesArePools
<1>1. IInv => RoutesArePools
  <2> SUFFICES ASSUME IInv, mu = Lock PROVE routes = pools
    BY DEF RoutesArePools, IInv, RegisteredOpen
  <2>1. \A k \in Pattern : routes[k] = pools[k]
    BY DEF IInv, RoutesFollow
  <2> QED
    BY <2>1 DEF IInv, TypeOK
<1> QED
  BY <1>1, IInvInvariant, PTL

\* P2C.done is closed once at most, so that no RemovePool panics.
THEOREM ClosesOnce == ASSUME Distinct PROVE Spec => []ClosedOnce
<1>1. IInv => ClosedOnce
  BY DEF IInv, CloseCounted, ClosedOnce
<1> QED
  BY <1>1, IInvInvariant, PTL

LEMMA RoutesRegistered ==
    ASSUME IInv, [Next]_vars, NEW r \in Request, rq[r] = NoPool, rq'[r] # NoPool
    PROVE  \/ \E k \in Pattern : pools[k] = rq'[r]
           \/ mu # Lock /\ state[rq'[r]] = "closed"
<1>1. ~UNCHANGED rq
  OBVIOUS
<1>2. PICK s \in Request : Route(s) \/ Served(s)
  BY <1>1 DEF Next, Begin, CallStep, NewPool, RemovePoolClose, GetPool, UnknownPattern, vars, AddPool,
     RemovePoolReplace, AddBackend, AddBackendRefused, RemoveBackend
<1>3. PICK k \in Pattern : rq'[r] = routes[k]
  BY <1>2 DEF Route, Served, IInv, TypeOK
<1> QED
  BY <1>3 DEF IInv, RoutesFollow

\* A request is routed to a registered pool, or to one that is being removed
\* while it is routed (server.go routeHandler, with no lock).
THEOREM RoutesToRegistered == ASSUME Distinct PROVE Spec => RoutedToRegistered
<1>1. IInv /\ [Next]_vars =>
        [\A r \in Request : rq[r] = NoPool /\ rq'[r] # NoPool =>
            \/ \E k \in Pattern : pools[k] = rq'[r]
            \/ mu # Lock /\ state[rq'[r]] = "closed"]_vars
  BY RoutesRegistered
<1> QED
  BY <1>1, IInvInvariant, PTL DEF Spec, RoutedToRegistered
=============================================================================
