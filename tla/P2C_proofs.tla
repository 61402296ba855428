----------------------------- MODULE P2C_proofs -----------------------------
(***************************************************************************)
(* Proofs about the pool of P2C, for every set of URLs, callers, readers   *)
(* and requests, and any number of goroutines switching lists at a time.   *)
(***************************************************************************)
EXTENDS P2C, FiniteSetTheorems, TLAPS

-----------------------------------------------------------------------------
(* Type correctness.                                                       *)

\* What Remove and a round note about a Health call under way keeps the type
\* of that call (p2c.go Health).
LEMMA NotingType ==
    ASSUME NEW q \in ReaderState, NEW removed \in SUBSET URL, NEW quiet \in BOOLEAN
    PROVE  Noting(q, removed, quiet) \in ReaderState
<1>1. CASE q.pc = "asking"
  <2>1. q \in [pc : {"asking"}, h : SUBSET URL, kept : SUBSET URL, quiet : BOOLEAN]
    BY <1>1 DEF ReaderState
  <2>2. q.kept \ removed \in SUBSET URL /\ (q.quiet /\ quiet) \in BOOLEAN
    BY <2>1
  <2>3. [q EXCEPT !.kept = @ \ removed, !.quiet = @ /\ quiet]
          \in [pc : {"asking"}, h : SUBSET URL, kept : SUBSET URL, quiet : BOOLEAN]
    BY <2>1, <2>2
  <2> QED
    BY <1>1, <2>3 DEF Noting, ReaderState
<1>2. CASE q.pc # "asking"
  BY <1>2 DEF Noting
<1> QED
  BY <1>1, <1>2

\* Every step of the pool keeps the type invariant (p2c.go, all methods).
LEMMA TypeStep == TypeOK /\ [Next]_vars => TypeOK'
<1> SUFFICES ASSUME TypeOK, [Next]_vars PROVE TypeOK'
  OBVIOUS
<1> USE DEF TypeOK, Side, Obj, Url
<1>1. ASSUME NEW c \in Client, AddProbe(c) PROVE TypeOK'
  BY <1>1 DEF AddProbe, ClientState
<1>2. ASSUME NEW c \in Client, AddStore(c) PROVE TypeOK'
  <2>1. client[c].obj \in Obj
    BY <1>2 DEF AddStore, ClientState
  <2> QED
    BY <1>2, <2>1 DEF AddStore, ClientState, idleClient
<1>3. ASSUME NEW c \in Client, RemoveHealthy(c) PROVE TypeOK'
  <2>1. PICK u \in URL :
          /\ list' = [list EXCEPT !["healthy"] = Without(@, u)]
          /\ members' = members \ {u}
          /\ client' = [client EXCEPT ![c] = [pc |-> "removing", url |-> u]]
          /\ reader' = [d \in Reader |-> Noting(reader[d], {u}, TRUE)]
    BY <1>3 DEF RemoveHealthy
  <2>2. reader' \in [Reader -> ReaderState]
    BY <2>1, NotingType
  <2> QED
    BY ZenonT(60), <1>3, <2>1, <2>2 DEF RemoveHealthy, ClientState, Without
<1>4. ASSUME NEW c \in Client, RemoveSick(c) PROVE TypeOK'
  BY <1>4 DEF RemoveSick, ClientState, Without, idleClient
<1>5. ASSUME NEW d \in Reader, ReaderStep(d) PROVE TypeOK'
  <2>1. Urls(list["healthy"]) \subseteq URL
    BY DEF Urls
  <2>2. CASE HealthLoadHealthy(d)
    BY <2>1, <2>2 DEF HealthLoadHealthy, ReaderState
  <2>3. CASE HealthLoadSick(d)
    BY <2>3 DEF HealthLoadSick, ReaderState, StatusOf
  <2>4. CASE HealthReturn(d)
    BY <2>4 DEF HealthReturn, ReaderState, idleReader
  <2> QED
    BY <1>5, <2>2, <2>3, <2>4 DEF ReaderStep
<1>6. CASE Close \/ LoopExit \/ LoopTick \/ LoopEndRound
  BY <1>6 DEF Close, LoopExit, LoopTick, LoopEndRound
<1>7. CASE LoopLock \/ LoopSpawnSick
  <2>1. CASE LoopLock
    <3>1. reader' \in [Reader -> ReaderState]
      <4>1. ASSUME NEW d \in Reader PROVE Noting(reader[d], {}, FALSE) \in ReaderState
        BY NotingType
      <4> QED
        BY <2>1, <4>1 DEF LoopLock
    <3>2. /\ mu' = "loop" /\ loop' = "spawn" /\ chk' = Spawn("healthy")
          /\ UNCHANGED <<list, mark, weight, closed, seen, client, rq, up, members, crashed>>
      BY <2>1 DEF LoopLock
    <3> QED
      BY <3>1, <3>2 DEF Spawn
  <2>2. CASE LoopSpawnSick
    BY <2>2 DEF LoopSpawnSick, Spawn
  <2> QED
    BY <1>7, <2>1, <2>2
<1>8. ASSUME NEW s \in Side, NEW o \in Obj, CheckStep(s, o) PROVE TypeOK'
  <2> DEFINE Stages == {"idle", "probe", "remove", "removeStore", "add", "addStore"}
  <2>0. /\ Other(s) \in Side
        /\ seen[s][o] \in SUBSET Obj
        /\ \A p \in Stages : [chk EXCEPT ![s][o] = p] \in [Side -> [Obj -> Stages]]
        /\ \A S \in SUBSET Obj : /\ [seen EXCEPT ![s][o] = S] \in [Side -> [Obj -> SUBSET Obj]]
                                 /\ \A t \in Side : [list EXCEPT ![t] = S] \in [Side -> SUBSET Obj]
    BY DEF Other
  <2>1. CASE Probe(s, o)
    <3>1. mark' \in [Obj -> {"unknown", "healthy", "sick"}]
      BY <2>1, <2>0 DEF Probe
    <3>2. chk' \in [Side -> [Obj -> Stages]]
      BY ZenonT(60), <2>1, <2>0 DEF Probe
    <3> QED
      BY <2>1, <3>1, <3>2 DEF Probe
  <2>2. CASE RemoveLoad(s, o)
    BY <2>2 DEF RemoveLoad
  <2>3. CASE RemoveStore(s, o)
    BY <2>3, <2>0 DEF RemoveStore, Without
  <2>4. CASE AddLoad(s, o)
    <3>1. list[Other(s)] \in SUBSET Obj
      BY <2>0
    <3>2. chk' \in [Side -> [Obj -> Stages]] /\ seen' \in [Side -> [Obj -> SUBSET Obj]]
      <4>1. CASE Has(list[Other(s)], Url(o))
        BY <2>4, <4>1 DEF AddLoad
      <4>2. CASE ~Has(list[Other(s)], Url(o))
        <5>1. /\ chk' = [chk EXCEPT ![s][o] = "addStore"]
              /\ seen' = [seen EXCEPT ![s][o] = list[Other(s)]]
          BY <2>4, <4>2 DEF AddLoad
        <5> QED
          BY <5>1, <2>0, <3>1
      <4> QED
        BY <4>1, <4>2
    <3>3. crashed' \in BOOLEAN
      BY <2>4 DEF AddLoad
    <3>4. UNCHANGED <<list, mark, weight, mu, closed, loop, client, reader, rq, up, members>>
      BY <2>4 DEF AddLoad
    <3> QED
      BY <3>2, <3>3, <3>4
  <2>5. CASE AddToOther(s, o)
    <3>1. seen[s][o] \cup {o} \in SUBSET Obj
      BY <2>0
    <3>2. list' \in [Side -> SUBSET Obj]
      BY <2>5, <2>0, <3>1 DEF AddToOther
    <3>3. chk' \in [Side -> [Obj -> Stages]] /\ seen' \in [Side -> [Obj -> SUBSET Obj]]
      BY <2>5, <2>0 DEF AddToOther
    <3> QED
      BY <2>5, <3>2, <3>3 DEF AddToOther
  <2> QED
    BY <1>8, <2>1, <2>2, <2>3, <2>4, <2>5 DEF CheckStep
<1>9. ASSUME NEW r \in Request, RequestStep(r) PROVE TypeOK'
  <2> USE DEF poolVars
  <2>1. CASE RqLoad(r)
    BY <2>1 DEF RqLoad, RequestState
  <2>2. CASE RqPick(r)
    BY <2>2 DEF RqPick, RequestState
  <2>3. CASE RqPickPanic(r)
    BY <2>3 DEF RqPickPanic, RequestState, idleRequest
  <2>4. CASE RqWeighX(r)
    BY <2>4 DEF RqWeighX, RequestState
  <2>5. CASE RqCompare(r)
    BY <2>5 DEF RqCompare, RequestState, Lighter
  <2>6. CASE RqCall(r)
    BY <2>6 DEF RqCall, RequestState
  <2>7. CASE RqDone(r)
    BY <2>7 DEF RqDone, RequestState, idleRequest
  <2> QED
    BY <1>9, <2>1, <2>2, <2>3, <2>4, <2>5, <2>6, <2>7 DEF RequestStep
<1>10. ASSUME NEW u \in URL, Flip(u) PROVE TypeOK'
  BY <1>10 DEF Flip
<1>11. CASE UNCHANGED vars
  BY <1>11 DEF vars
<1> HIDE DEF TypeOK
<1> QED
  BY <1>1, <1>2, <1>3, <1>4, <1>5, <1>6, <1>7, <1>8, <1>9, <1>10, <1>11
  DEF Next, ClientStep, LoopStep

\* The initial state has the types of TypeOK (NewP2C).
LEMMA TypeInit == Init => TypeOK
<1> SUFFICES ASSUME Init PROVE TypeOK
  OBVIOUS
<1> USE DEF Init, Side
<1>1. client \in [Client -> ClientState]
  BY DEF ClientState, idleClient
<1>2. reader \in [Reader -> ReaderState]
  BY DEF ReaderState, idleReader
<1>3. rq \in [Request -> RequestState]
  BY DEF RequestState, idleRequest
<1>4. /\ list \in [Side -> SUBSET Obj]
      /\ chk \in [Side -> [Obj -> {"idle", "probe", "remove", "removeStore", "add", "addStore"}]]
      /\ seen \in [Side -> [Obj -> SUBSET Obj]]
  OBVIOUS
<1>5. /\ mark \in [Obj -> {"unknown", "healthy", "sick"}]
      /\ weight \in [Obj -> Int]
  BY SMT
<1>7. /\ up \in [URL -> BOOLEAN]
      /\ members \in SUBSET URL
      /\ crashed \in BOOLEAN
      /\ closed \in BOOLEAN
  BY Zenon
<1>6. mu \in {Lock, "loop"} \cup Client /\ loop \in {"select", "lock", "spawn", "wait", "exited"}
  OBVIOUS
<1> QED
  BY <1>1, <1>2, <1>3, <1>4, <1>5, <1>6, <1>7 DEF TypeOK

\* The pool's state keeps its types through every interleaving.
THEOREM TypeCorrect == Spec => []TypeOK
  BY TypeInit, TypeStep, PTL DEF Spec

-----------------------------------------------------------------------------
(* The inductive invariant behind NoPhantomBackend and OneObjectPerUrl.    *)

\* mu keeps Remove and a round of health checks apart, although the
\* goroutines of the round never take it themselves.
LockHeld ==
    /\ mu = "loop" <=> loop \in {"spawn", "wait"}
    /\ \A c \in Client : client[c].pc = "removing" => mu = c
    /\ \A s \in Side, o \in Obj : chk[s][o] # "idle" => mu = "loop"
    /\ loop = "spawn" => \A o \in Obj : chk["sick"][o] = "idle"

\* What a goroutine of a round works on is still in the pool; a slice it has
\* loaded holds members only, at different URLs, and lacks the URL of the
\* object it is about to add.
ChecksMembers ==
    \A s \in Side, o \in Obj :
        /\ chk[s][o] # "idle" => Url(o) \in members
        /\ chk[s][o] \notin {"removeStore", "addStore"} => seen[s][o] = {}
        /\ Urls(seen[s][o]) \subseteq members
        /\ \A p, q \in seen[s][o] : Url(p) = Url(q) => p = q
        /\ chk[s][o] = "addStore" => ~Has(seen[s][o], Url(o))

IInv == TypeOK /\ LockHeld /\ ChecksMembers /\ NoPhantomBackend /\ OneObjectPerUrl


\* The URLs of the slices that addToValue and removeFromValue build.
LEMMA UrlsOfSlices ==
    /\ \A S, u : Urls(Without(S, u)) = Urls(S) \ {u}
    /\ \A S, o : Urls(S \cup {o}) = Urls(S) \cup {Url(o)}
    /\ Urls({}) = {}
  BY Zenon DEF Urls, Without

\* A step that leaves the lists, the membership, the lock and the round alone
\* and starts or ends no removal keeps the invariant.
LEMMA Frame ==
    ASSUME LockHeld, ChecksMembers, NoPhantomBackend, OneObjectPerUrl,
           UNCHANGED <<list, members, mu, loop, chk, seen>>,
           \A c \in Client : \/ client'[c] = client[c]
                             \/ client[c].pc # "removing" /\ client'[c].pc # "removing"
    PROVE  LockHeld' /\ ChecksMembers' /\ NoPhantomBackend' /\ OneObjectPerUrl'
<1>1. LockHeld'
  BY DEF LockHeld
<1>2. ChecksMembers'
  BY DEF ChecksMembers, Urls, Has
<1>3. Leaving \subseteq Leaving'
  BY DEF Leaving
<1>4. NoPhantomBackend'
  BY <1>3 DEF NoPhantomBackend, Urls
<1>5. OneObjectPerUrl'
  BY DEF OneObjectPerUrl
<1> QED
  BY <1>1, <1>2, <1>4, <1>5

\* While mu is free or a round holds it no Remove is under way, and while it
\* is not the round's no goroutine of a round holds a slice.
LEMMA LockMeans ==
    ASSUME LockHeld, ChecksMembers
    PROVE  /\ mu \notin Client => Leaving = {}
           /\ mu # "loop" => \A s \in Side, o \in Obj : chk[s][o] = "idle" /\ seen[s][o] = {}
  BY DEF LockHeld, ChecksMembers, Leaving


\* The callers keep the invariant (p2c.go Add, Remove).
LEMMA ClientKeeps ==
    ASSUME IInv, NEW c \in Client, ClientStep(c)
    PROVE  LockHeld' /\ ChecksMembers' /\ NoPhantomBackend' /\ OneObjectPerUrl'
<1> USE DEF IInv
<1>0. client \in [Client -> ClientState] /\ list \in [Side -> SUBSET Obj]
  BY DEF TypeOK
<1>1. CASE AddProbe(c)
  <2>1. /\ UNCHANGED <<list, members, mu, loop, chk, seen>>
        /\ client[c].pc = "idle"
        /\ \E o \in Obj : client' = [client EXCEPT ![c] = [pc |-> "probed", obj |-> o]]
    BY <1>1 DEF AddProbe
  <2>2. \A d \in Client : \/ client'[d] = client[d]
                          \/ client[d].pc # "removing" /\ client'[d].pc # "removing"
    BY <2>1, <1>0
  <2> QED
    BY <2>1, <2>2, Frame
<1>2. CASE AddStore(c)
  <2>1. /\ mu = Lock /\ client[c].pc = "probed"
        /\ UNCHANGED <<mu, loop, chk, seen>>
        /\ client' = [client EXCEPT ![c] = [pc |-> "idle"]]
    BY <1>2 DEF AddStore, idleClient
  <2>2. \A d \in Client : \/ client'[d] = client[d]
                          \/ client[d].pc # "removing" /\ client'[d].pc # "removing"
    BY <2>1, <1>0
  <2>3. CASE Has(list["healthy"], Url(client[c].obj))
    BY <1>2, <2>1, <2>2, <2>3, Frame DEF AddStore
  <2>4. CASE ~Has(list["healthy"], Url(client[c].obj))
    <3> DEFINE o == client[c].obj
    <3>1. /\ list' = [list EXCEPT !["healthy"] = @ \cup {o}]
          /\ members' = members \cup {Url(o)}
      BY <1>2, <2>4 DEF AddStore
    <3>2. /\ list'["healthy"] = list["healthy"] \cup {o}
          /\ list'["sick"] = list["sick"]
      BY <3>1, <1>0 DEF Side
    <3>3. LockHeld'
      BY <2>1, <2>2 DEF LockHeld
    <3>4. ChecksMembers'
      BY <2>1, <3>1 DEF ChecksMembers, Urls, Has
    <3>5. Urls(list["sick"]) \subseteq members
      BY <2>1, LockMeans, HolderAssumption DEF NoPhantomBackend
    <3>6. NoPhantomBackend'
      <4>1. Urls(list'["healthy"]) = Urls(list["healthy"]) \cup {Url(o)}
        BY <3>2, UrlsOfSlices
      <4>2. Urls(list["healthy"])' \subseteq members'
        BY <4>1, <3>1 DEF NoPhantomBackend, Urls
      <4>3. Urls(list["sick"])' \subseteq members'
        BY <3>2, <3>5, <3>1 DEF Urls
      <4> QED
        BY <4>2, <4>3 DEF NoPhantomBackend
    <3>7. OneObjectPerUrl'
      <4>1. ASSUME NEW x \in list'["healthy"], NEW y \in list'["healthy"], Url(x) = Url(y)
            PROVE  x = y
        BY <4>1, <2>4, <3>2 DEF OneObjectPerUrl, Has, Urls, Side
      <4>2. ASSUME NEW x \in list'["sick"], NEW y \in list'["sick"], Url(x) = Url(y)
            PROVE  x = y
        BY <4>2, <3>2 DEF OneObjectPerUrl, Side
      <4> QED
        BY <4>1, <4>2 DEF OneObjectPerUrl, Side
    <3> QED
      BY <3>3, <3>4, <3>6, <3>7
  <2> QED
    BY <2>3, <2>4
<1>3. CASE RemoveHealthy(c)
  <2>1. PICK u \in URL :
          /\ list' = [list EXCEPT !["healthy"] = Without(@, u)]
          /\ members' = members \ {u}
          /\ client' = [client EXCEPT ![c] = [pc |-> "removing", url |-> u]]
    BY <1>3 DEF RemoveHealthy
  <2>2. mu = Lock /\ mu' = c /\ UNCHANGED <<loop, chk, seen>>
    BY <1>3 DEF RemoveHealthy
  <2>3. /\ list'["healthy"] = Without(list["healthy"], u)
        /\ list'["sick"] = list["sick"]
    BY <2>1, <1>0 DEF Side
  <2>4. \A d \in Client : client[d].pc # "removing"
    BY <2>2, HolderAssumption DEF LockHeld
  <2>5. \A s \in Side, o \in Obj : chk[s][o] = "idle" /\ seen[s][o] = {}
    BY <2>2, HolderAssumption, LockMeans
  <2>6. LockHeld'
    BY <2>1, <2>2, <2>4, <2>5, <1>0, HolderAssumption DEF LockHeld
  <2>7. ChecksMembers'
    BY <2>2, <2>5 DEF ChecksMembers, Urls, Has
  <2>8. NoPhantomBackend'
    <3>1. Urls(list["sick"]) \subseteq members
      BY <2>2, LockMeans, HolderAssumption DEF NoPhantomBackend
    <3>2. u \in Leaving'
      BY <2>1, <1>0 DEF Leaving
    <3>3. Urls(list'["healthy"]) = Urls(list["healthy"]) \ {u}
      BY <2>3, UrlsOfSlices
    <3>4. Urls(list["healthy"])' \subseteq members'
      BY <3>3, <2>1 DEF NoPhantomBackend, Urls
    <3>5. Urls(list["sick"])' \subseteq members' \cup Leaving'
      BY <2>3, <3>1, <3>2, <2>1 DEF Urls
    <3> QED
      BY <3>4, <3>5 DEF NoPhantomBackend
  <2>9. OneObjectPerUrl'
    BY <2>3 DEF OneObjectPerUrl, Without, Side
  <2> QED
    BY <2>6, <2>7, <2>8, <2>9
<1>4. CASE RemoveSick(c)
  <2> DEFINE u == client[c].url
  <2>1. /\ client[c].pc = "removing" /\ mu' = Lock
        /\ list' = [list EXCEPT !["sick"] = Without(@, u)]
        /\ client' = [client EXCEPT ![c] = [pc |-> "idle"]]
        /\ UNCHANGED <<members, loop, chk, seen>>
    BY <1>4 DEF RemoveSick, idleClient
  <2>2. mu = c
    BY <2>1 DEF LockHeld
  <2>3. /\ list'["sick"] = Without(list["sick"], u)
        /\ list'["healthy"] = list["healthy"]
    BY <2>1, <1>0 DEF Side
  <2>4. \A s \in Side, o \in Obj : chk[s][o] = "idle" /\ seen[s][o] = {}
    BY <2>2, HolderAssumption, LockMeans
  <2>5. \A d \in Client : client'[d].pc # "removing"
    BY <2>1, <2>2, <1>0 DEF LockHeld
  <2>6. LockHeld'
    BY <2>1, <2>2, <2>4, <2>5, HolderAssumption DEF LockHeld
  <2>7. ChecksMembers'
    BY <2>1, <2>4 DEF ChecksMembers, Urls, Has
  <2>8. NoPhantomBackend'
    <3>1. Leaving \subseteq {u}
      BY <2>2 DEF Leaving, LockHeld
    <3>2. Urls(list'["sick"]) = Urls(list["sick"]) \ {u}
      BY <2>3, UrlsOfSlices
    <3>3. Urls(list["sick"])' \subseteq members'
      BY <3>1, <3>2, <2>1 DEF NoPhantomBackend, Urls
    <3>4. Urls(list["healthy"])' \subseteq members'
      BY <2>3, <2>1 DEF NoPhantomBackend, Urls
    <3> QED
      BY <3>3, <3>4 DEF NoPhantomBackend
  <2>9. OneObjectPerUrl'
    BY <2>3 DEF OneObjectPerUrl, Without, Side
  <2> QED
    BY <2>6, <2>7, <2>8, <2>9
<1> QED
  BY <1>1, <1>2, <1>3, <1>4 DEF ClientStep


\* healthLoop keeps the invariant: a round starts with the members of the
\* lists and ends when its goroutines have (p2c.go healthLoop, healthChecks).
LEMMA LoopKeeps ==
    ASSUME IInv, LoopExit \/ LoopStep
    PROVE  LockHeld' /\ ChecksMembers' /\ NoPhantomBackend' /\ OneObjectPerUrl'
<1> USE DEF IInv
<1>0. chk \in [Side -> [Obj -> {"idle", "probe", "remove", "removeStore", "add", "addStore"}]]
  BY DEF TypeOK
<1>1. UNCHANGED <<list, members, seen, client>>
  BY DEF LoopStep, LoopExit, LoopTick, LoopLock, LoopSpawnSick, LoopEndRound
<1>2. NoPhantomBackend' /\ OneObjectPerUrl'
  BY <1>1 DEF NoPhantomBackend, OneObjectPerUrl, Leaving, Urls
<1>3. CASE LoopExit \/ LoopTick \/ LoopEndRound
  <2>1. LockHeld'
    BY <1>3, <1>1, HolderAssumption DEF LockHeld, LoopExit, LoopTick, LoopEndRound
  <2>2. ChecksMembers'
    BY <1>3, <1>1 DEF ChecksMembers, LoopExit, LoopTick, LoopEndRound, Urls, Has
  <2> QED
    BY <2>1, <2>2, <1>2
<1>4. ASSUME NEW t \in Side, chk' = Spawn(t), mu \notin Client, \A o \in Obj : chk[t][o] = "idle"
      PROVE  ChecksMembers'
  <2>1. \A s \in Side, o \in Obj :
           chk'[s][o] = IF s = t /\ o \in list[t] THEN "probe" ELSE chk[s][o]
    BY <1>4, <1>0 DEF Spawn
  <2>2. \A o \in list[t] : Url(o) \in members
    BY <1>4, LockMeans DEF NoPhantomBackend, Urls, Side
  <2>3. ASSUME NEW s \in Side, NEW o \in Obj, s = t, o \in list[t]
        PROVE  seen[s][o] = {} /\ chk'[s][o] = "probe" /\ Url(o) \in members
    BY <2>1, <2>2, <2>3, <1>4 DEF ChecksMembers
  <2>4. ASSUME NEW s \in Side, NEW o \in Obj, ~(s = t /\ o \in list[t])
        PROVE  chk'[s][o] = chk[s][o]
    BY <2>1, <2>4
  <2> QED
    BY <1>1, <2>3, <2>4 DEF ChecksMembers, Urls, Has
<1>5. CASE LoopLock
  <2>1. /\ mu = Lock /\ mu' = "loop" /\ loop' = "spawn" /\ chk' = Spawn("healthy")
    BY <1>5 DEF LoopLock
  <2>2. \A s \in Side, o \in Obj : chk[s][o] = "idle"
    BY <2>1, LockMeans, HolderAssumption
  <2>3. ChecksMembers'
    BY <2>1, <2>2, <1>4, HolderAssumption DEF Side
  <2>4. \A o \in Obj : chk'["sick"][o] = "idle"
    BY <2>1, <2>2, <1>0 DEF Spawn, Side
  <2>5. \A c \in Client : client[c].pc # "removing"
    BY <2>1, HolderAssumption DEF LockHeld
  <2>6. LockHeld'
    BY <2>1, <2>4, <2>5, <1>1 DEF LockHeld
  <2> QED
    BY <2>3, <2>6, <1>2
<1>6. CASE LoopSpawnSick
  <2>1. loop = "spawn" /\ loop' = "wait" /\ mu' = mu /\ chk' = Spawn("sick")
    BY <1>6 DEF LoopSpawnSick
  <2>2. mu = "loop" /\ \A o \in Obj : chk["sick"][o] = "idle"
    BY <2>1 DEF LockHeld
  <2>3. ChecksMembers'
    BY <2>1, <2>2, <1>4, HolderAssumption DEF Side
  <2>4. LockHeld'
    BY <2>1, <2>2, <1>1 DEF LockHeld
  <2> QED
    BY <2>3, <2>4, <1>2
<1> QED
  BY <1>3, <1>5, <1>6 DEF LoopStep

\* The goroutines of a round keep it, in every order of their Loads and
\* Stores (p2c.go healthChecks, healthyToSick, sickToHealthy).
LEMMA CheckKeeps ==
    ASSUME IInv, NEW s \in Side, NEW o \in Obj, CheckStep(s, o)
    PROVE  LockHeld' /\ ChecksMembers' /\ NoPhantomBackend' /\ OneObjectPerUrl'
<1> DEFINE t == Other(s)
<1> USE DEF IInv
<1>0. /\ chk \in [Side -> [Obj -> {"idle", "probe", "remove", "removeStore", "add", "addStore"}]]
      /\ seen \in [Side -> [Obj -> SUBSET Obj]]
      /\ list \in [Side -> SUBSET Obj]
      /\ t \in Side /\ t # s
  BY DEF TypeOK, Other, Side
<1>1. chk[s][o] # "idle" /\ UNCHANGED <<mu, loop, client, members>>
  BY DEF CheckStep, Probe, RemoveLoad, RemoveStore, AddLoad, AddToOther
<1>2. mu = "loop" /\ Leaving = {} /\ Leaving' = {} /\ Url(o) \in members
  BY <1>1, HolderAssumption, LockMeans DEF LockHeld, ChecksMembers, Leaving
<1>3. \A x \in Side : Urls(list[x]) \subseteq members
  BY <1>2 DEF NoPhantomBackend, Side
<1>4. ASSUME NEW pc, chk' = [chk EXCEPT ![s][o] = pc] PROVE LockHeld'
  <2>1. \A x \in Side, p \in Obj : ~(x = s /\ p = o) => chk'[x][p] = chk[x][p]
    BY <1>4, <1>0
  <2>2. loop = "spawn" => s # "sick"
    BY <1>1 DEF LockHeld
  <2> QED
    BY <2>1, <2>2, <1>1, <1>2, <1>0 DEF LockHeld, Side
<1>5. ASSUME NEW pc, NEW S \in SUBSET Obj,
             chk' = [chk EXCEPT ![s][o] = pc], seen' = [seen EXCEPT ![s][o] = S],
             pc \notin {"removeStore", "addStore"} => S = {},
             Urls(S) \subseteq members,
             \A p, q \in S : Url(p) = Url(q) => p = q,
             pc = "addStore" => ~Has(S, Url(o))
      PROVE  ChecksMembers'
  <2>1. \A x \in Side, p \in Obj : ~(x = s /\ p = o) => chk'[x][p] = chk[x][p] /\ seen'[x][p] = seen[x][p]
    BY <1>5, <1>0
  <2>2. chk'[s][o] = pc /\ seen'[s][o] = S
    BY <1>5, <1>0
  <2>3. ASSUME NEW x \in Side, NEW p \in Obj, x = s /\ p = o
        PROVE  /\ chk'[x][p] # "idle" => Url(p) \in members'
               /\ chk'[x][p] \notin {"removeStore", "addStore"} => seen'[x][p] = {}
               /\ Urls(seen'[x][p]) \subseteq members'
               /\ \A a, b \in seen'[x][p] : Url(a) = Url(b) => a = b
               /\ chk'[x][p] = "addStore" => ~Has(seen'[x][p], Url(p))
    BY <2>3, <2>2, <1>5, <1>2, <1>1
  <2> QED
    BY <2>1, <2>3, <1>1 DEF ChecksMembers, Urls, Has
<1>13. ASSUME NEW pc, pc \notin {"removeStore", "addStore"},
              chk' = [chk EXCEPT ![s][o] = pc], seen' = [seen EXCEPT ![s][o] = {}]
       PROVE  ChecksMembers'
  BY <1>13, <1>5, UrlsOfSlices
<1>6. ASSUME NEW x \in Side, NEW S \in SUBSET Obj, list' = [list EXCEPT ![x] = S],
             Urls(S) \subseteq members, \A p, q \in S : Url(p) = Url(q) => p = q
      PROVE  NoPhantomBackend' /\ OneObjectPerUrl'
  <2>1. \A y \in Side : list'[y] = IF y = x THEN S ELSE list[y]
    BY <1>6, <1>0
  <2>2. \A y \in Side : Urls(list[y])' \subseteq members'
    BY <2>1, <1>6, <1>3, <1>1 DEF Urls
  <2>3. NoPhantomBackend'
    BY <2>2 DEF NoPhantomBackend, Side
  <2>4. OneObjectPerUrl'
    BY <2>1, <1>6 DEF OneObjectPerUrl
  <2> QED
    BY <2>3, <2>4
<1>7. ASSUME UNCHANGED list PROVE NoPhantomBackend' /\ OneObjectPerUrl'
  BY <1>7, <1>1 DEF NoPhantomBackend, OneObjectPerUrl, Urls, Leaving
<1>8. CASE Probe(s, o)
  <2>1. PICK pc \in {"idle", "remove"} : chk' = [chk EXCEPT ![s][o] = pc]
    BY <1>8 DEF Probe
  <2>2. UNCHANGED <<list, seen>> /\ chk[s][o] = "probe"
    BY <1>8 DEF Probe
  <2>3. seen[s][o] = {}
    BY <2>2 DEF ChecksMembers
  <2>4. seen' = [seen EXCEPT ![s][o] = {}]
    BY <2>2, <2>3, <1>0
  <2>5. ChecksMembers'
    BY <2>1, <2>4, <1>13
  <2> QED
    BY <2>1, <2>2, <2>5, <1>4, <1>7
<1>9. CASE RemoveLoad(s, o)
  <2>1. PICK pc \in {"idle", "add", "removeStore"} :
           /\ chk' = [chk EXCEPT ![s][o] = pc]
           /\ seen' = [seen EXCEPT ![s][o] = IF pc = "removeStore" THEN list[s] ELSE {}]
    BY <1>9 DEF RemoveLoad
  <2>2. UNCHANGED list
    BY <1>9 DEF RemoveLoad
  <2>3. ChecksMembers'
    <3>1. CASE pc = "removeStore"
      BY <3>1, <2>1, <1>0, <1>3, <1>5 DEF OneObjectPerUrl
    <3>2. CASE pc # "removeStore"
      BY <3>2, <2>1, <1>13
    <3> QED
      BY <3>1, <3>2
  <2> QED
    BY <2>1, <2>2, <2>3, <1>4, <1>7
<1>10. CASE RemoveStore(s, o)
  <2> DEFINE S == Without(seen[s][o], Url(o))
  <2>1. /\ list' = [list EXCEPT ![s] = S]
        /\ chk' = [chk EXCEPT ![s][o] = "add"]
        /\ seen' = [seen EXCEPT ![s][o] = {}]
    BY <1>10 DEF RemoveStore
  <2>2. /\ S \in SUBSET Obj /\ Urls(S) \subseteq members
        /\ \A p, q \in S : Url(p) = Url(q) => p = q
    BY <1>0 DEF ChecksMembers, Without, Urls
  <2>3. ChecksMembers'
    <3>1. \E pc \in {"idle", "add"} : /\ chk' = [chk EXCEPT ![s][o] = pc]
                                      /\ seen' = [seen EXCEPT ![s][o] = {}]
      BY <2>1
    <3> QED
      BY <3>1, <1>13
  <2> QED
    BY <2>1, <2>2, <2>3, <1>4, <1>6
<1>11. CASE AddLoad(s, o)
  <2>1. CASE Has(list[t], Url(o))
    <3>1. UNCHANGED <<list, chk, seen>>
      BY <1>11, <2>1 DEF AddLoad
    <3> QED
      BY <3>1, <1>1, Frame
  <2>2. CASE ~Has(list[t], Url(o))
    <3>1. /\ chk' = [chk EXCEPT ![s][o] = "addStore"]
          /\ seen' = [seen EXCEPT ![s][o] = list[t]]
          /\ UNCHANGED list
      BY <1>11, <2>2 DEF AddLoad
    <3>2. \A p, q \in list[t] : Url(p) = Url(q) => p = q
      BY <1>0 DEF OneObjectPerUrl
    <3>3. ChecksMembers'
      BY <3>1, <3>2, <2>2, <1>0, <1>3, <1>5
    <3> QED
      BY <3>1, <3>3, <1>4, <1>7
  <2> QED
    BY <2>1, <2>2
<1>12. CASE AddToOther(s, o)
  <2> DEFINE S == seen[s][o] \cup {o}
  <2>1. /\ list' = [list EXCEPT ![t] = S]
        /\ chk' = [chk EXCEPT ![s][o] = "idle"]
        /\ seen' = [seen EXCEPT ![s][o] = {}]
        /\ chk[s][o] = "addStore"
    BY <1>12 DEF AddToOther
  <2>2. S \in SUBSET Obj
    BY <1>0
  <2>5. Urls(S) = Urls(seen[s][o]) \cup {Url(o)}
    BY UrlsOfSlices
  <2>3. Urls(S) \subseteq members /\ \A p, q \in S : Url(p) = Url(q) => p = q
    BY <2>1, <2>5, <1>2 DEF ChecksMembers, Has, Urls
  <2>4. ChecksMembers'
    <3>1. \E pc \in {"idle", "add"} : /\ chk' = [chk EXCEPT ![s][o] = pc]
                                      /\ seen' = [seen EXCEPT ![s][o] = {}]
      BY <2>1
    <3> QED
      BY <3>1, <1>13
  <2> QED
    BY <2>1, <2>2, <2>3, <2>4, <1>0, <1>4, <1>6
<1> QED
  BY <1>8, <1>9, <1>10, <1>11, <1>12 DEF CheckStep


\* Every step keeps the invariant.
LEMMA IInvStep == IInv /\ [Next]_vars => IInv'
<1> SUFFICES ASSUME IInv, [Next]_vars PROVE IInv'
  OBVIOUS
<1>1. TypeOK'
  BY TypeStep DEF IInv
<1>2. ASSUME NEW c \in Client, ClientStep(c)
      PROVE  LockHeld' /\ ChecksMembers' /\ NoPhantomBackend' /\ OneObjectPerUrl'
  BY <1>2, ClientKeeps
<1>3. CASE LoopExit \/ LoopStep
  BY <1>1, <1>3, LoopKeeps DEF IInv
<1>4. ASSUME NEW s \in Side, NEW o \in Obj, CheckStep(s, o)
      PROVE  LockHeld' /\ ChecksMembers' /\ NoPhantomBackend' /\ OneObjectPerUrl'
  BY <1>4, CheckKeeps
<1>5. ASSUME UNCHANGED <<list, members, mu, loop, chk, seen, client>>
      PROVE  LockHeld' /\ ChecksMembers' /\ NoPhantomBackend' /\ OneObjectPerUrl'
  BY <1>5, Frame DEF IInv
<1>6. ASSUME NEW d \in Reader, ReaderStep(d)
      PROVE  UNCHANGED <<list, members, mu, loop, chk, seen, client>>
  BY <1>6 DEF ReaderStep, HealthLoadHealthy, HealthLoadSick, HealthReturn
<1>7. ASSUME NEW r \in Request, RequestStep(r)
      PROVE  UNCHANGED <<list, members, mu, loop, chk, seen, client>>
  BY <1>7 DEF RequestStep, RqLoad, RqPick, RqPickPanic, RqWeighX, RqCompare, RqCall, RqDone, poolVars
<1>8. CASE Close \/ (\E u \in URL : Flip(u)) \/ UNCHANGED vars
  BY <1>1, <1>5, <1>8 DEF Close, Flip, vars, IInv
<1> QED
  BY <1>1, <1>2, <1>3, <1>4, <1>5, <1>6, <1>7, <1>8 DEF IInv, Next

\* A new pool satisfies the invariant (NewP2C).
LEMMA IInvInit == Init => IInv
<1> SUFFICES ASSUME Init PROVE IInv
  OBVIOUS
<1>1. TypeOK
  BY TypeInit
<1>2. /\ \A s \in Side, o \in Obj : chk[s][o] = "idle" /\ seen[s][o] = {}
      /\ \A s \in Side : list[s] = {}
      /\ \A c \in Client : client[c].pc = "idle"
      /\ mu = Lock /\ loop = "select"
  BY DEF Init, idleClient
<1>3. LockHeld
  BY <1>2, HolderAssumption DEF LockHeld
<1>4. ChecksMembers
  BY <1>2, UrlsOfSlices DEF ChecksMembers
<1>5. NoPhantomBackend /\ OneObjectPerUrl
  BY <1>2, UrlsOfSlices DEF NoPhantomBackend, OneObjectPerUrl, Side
<1> QED
  BY <1>1, <1>3, <1>4, <1>5 DEF IInv

-----------------------------------------------------------------------------
(* The safety theorems.                                                    *)

\* In no interleaving does a list hold a backend that callers removed or
\* never added.
THEOREM NoPhantom == Spec => []NoPhantomBackend
<1>1. IInv => NoPhantomBackend
  BY DEF IInv
<1> QED
  BY <1>1, IInvInit, IInvStep, PTL DEF Spec

\* In no interleaving does a list hold two objects of one URL.
THEOREM UniquePerList == Spec => []OneObjectPerUrl
<1>1. IInv => OneObjectPerUrl
  BY DEF IInv
<1> QED
  BY <1>1, IInvInit, IInvStep, PTL DEF Spec

\* Each step of the pool is a step of the registry its callers rely on: an
\* Add registers, a Remove deregisters, and all the rest moves registered
\* backends in and out of service.
THEOREM ImplementsRegistry == Spec => RegistrySpec
<1>1. Init => Registry!Init
  BY UrlsOfSlices DEF Init, Registry!Init, Side
<1>2. IInv /\ IInv' /\ [Next]_vars => [Registry!Next]_(Registry!vars)
  <2> SUFFICES ASSUME IInv, IInv', [Next]_vars
               PROVE  [Registry!Next]_(Registry!vars)
    OBVIOUS
  <2> DEFINE serving == Urls(list["healthy"])
  <2>0. /\ list \in [Side -> SUBSET Obj] /\ members \in SUBSET URL /\ client \in [Client -> ClientState]
        /\ serving \subseteq members /\ serving' \subseteq members'
    BY DEF IInv, TypeOK, NoPhantomBackend
  <2>1. ASSUME members' = members PROVE Registry!Rotate
    BY <2>0, <2>1 DEF Registry!Rotate
  <2>2. ASSUME NEW c \in Client, AddStore(c) PROVE [Registry!Next]_(Registry!vars)
    <3> DEFINE o == client[c].obj
    <3>1. CASE Has(list["healthy"], Url(o))
      BY <2>2, <3>1 DEF AddStore, Registry!vars
    <3>2. CASE ~Has(list["healthy"], Url(o))
      <4>1. list' = [list EXCEPT !["healthy"] = @ \cup {o}] /\ members' = members \cup {Url(o)}
        BY <2>2, <3>2 DEF AddStore
      <4>2. list'["healthy"] = list["healthy"] \cup {o}
        BY <4>1, <2>0 DEF Side
      <4>3. serving' = serving \cup {Url(o)}
        BY <4>2, UrlsOfSlices DEF Urls
      <4>4. Url(o) \in URL
        BY <2>2, <2>0 DEF AddStore, ClientState, Url, Obj
      <4>5. Registry!Register(Url(o))
        BY <4>1, <4>3 DEF Registry!Register
      <4> QED
        BY <4>4, <4>5 DEF Registry!Next
    <3> QED
      BY <3>1, <3>2
  <2>3. ASSUME NEW c \in Client, RemoveHealthy(c) PROVE Registry!Next
    <3>1. PICK u \in URL : list' = [list EXCEPT !["healthy"] = Without(@, u)] /\ members' = members \ {u}
      BY <2>3 DEF RemoveHealthy
    <3>2. list'["healthy"] = Without(list["healthy"], u)
      BY <3>1, <2>0 DEF Side
    <3>3. serving' = serving \ {u}
      BY <3>2, UrlsOfSlices DEF Urls
    <3>4. Registry!Deregister(u)
      BY <3>1, <3>3 DEF Registry!Deregister
    <3> QED
      BY <3>4 DEF Registry!Next
  <2>4. \/ members' = members
        \/ \E c \in Client : AddStore(c) \/ RemoveHealthy(c)
    <3>1. \A c \in Client : AddProbe(c) \/ RemoveSick(c) => members' = members
      BY DEF AddProbe, RemoveSick
    <3>2. \A d \in Reader : ReaderStep(d) => members' = members
      BY DEF ReaderStep, HealthLoadHealthy, HealthLoadSick, HealthReturn
    <3>3. Close \/ LoopExit \/ LoopStep \/ UNCHANGED vars => members' = members
      BY DEF Close, LoopExit, LoopStep, LoopTick, LoopLock, LoopSpawnSick, LoopEndRound, vars
    <3>4. \A s \in Side, o \in Obj : CheckStep(s, o) => members' = members
      BY DEF CheckStep, Probe, RemoveLoad, RemoveStore, AddLoad, AddToOther
    <3>5. \A r \in Request : RequestStep(r) => members' = members
      BY DEF RequestStep, RqLoad, RqPick, RqPickPanic, RqWeighX, RqCompare, RqCall, RqDone, poolVars
    <3>6. \A u \in URL : Flip(u) => members' = members
      BY DEF Flip
    <3> QED
      BY <3>1, <3>2, <3>3, <3>4, <3>5, <3>6 DEF Next, ClientStep
  <2> QED
    BY <2>1, <2>2, <2>3, <2>4 DEF Registry!Next
<1> QED
  BY <1>1, <1>2, IInvInit, IInvStep, PTL DEF Spec, RegistrySpec, Registry!Spec

-----------------------------------------------------------------------------
(* The weights.                                                            *)

\* A step that leaves the weights of objects in use and the proxied requests
\* alone keeps the count.
LEMMA SameCount ==
    ASSUME WeightCountsRequests,
           \A o \in Obj : weight'[o] = weight[o],
           \A o \in Obj : Serving(o)' = Serving(o)
    PROVE  WeightCountsRequests'
  BY DEF WeightCountsRequests

\* call() and done() move the weight with the number of requests being
\* proxied (p2c.go handler).
LEMMA WeightStep == TypeOK /\ WeightCountsRequests /\ [Next]_vars => WeightCountsRequests'
<1> SUFFICES ASSUME TypeOK, WeightCountsRequests, [Next]_vars
             PROVE  WeightCountsRequests'
  OBVIOUS
<1>0. /\ weight \in [Obj -> Int] /\ rq \in [Request -> RequestState]
      /\ \A o \in Obj : IsFiniteSet(Serving(o))
  BY RequestAssumption, FS_Subset DEF TypeOK, Serving
<1>1. ASSUME UNCHANGED <<weight, rq>> PROVE WeightCountsRequests'
  BY <1>1, SameCount DEF Serving
<1>2. ASSUME NEW c \in Client, AddProbe(c) PROVE WeightCountsRequests'
  <2>1. PICK o \in Obj : ~Referenced(o) /\ weight' = [weight EXCEPT ![o] = 0]
    BY <1>2 DEF AddProbe
  <2>2. Serving(o) = {}
    BY <2>1 DEF Referenced, Serving
  <2>3. weight[o] = 0
    BY <2>2, FS_EmptySet DEF WeightCountsRequests
  <2>4. \A p \in Obj : weight'[p] = weight[p]
    BY <2>1, <2>3, <1>0
  <2>5. rq' = rq
    BY <1>2 DEF AddProbe
  <2> QED
    BY <2>4, <2>5, SameCount DEF Serving
<1>3. ASSUME NEW r \in Request, RqCall(r) PROVE WeightCountsRequests'
  <2>1. PICK to \in Obj :
          /\ rq[r].pc = "chosen" /\ to = rq[r].to
          /\ weight' = [weight EXCEPT ![to] = weight[to] + 1]
          /\ rq' = [rq EXCEPT ![r] = [rq[r] EXCEPT !.pc = "serving"]]
    BY <1>3, <1>0 DEF RqCall, RequestState
  <2>2. r \notin Serving(to) /\ Serving(to)' = Serving(to) \cup {r}
    BY <2>1, <1>0 DEF Serving, RequestState
  <2>3. \A o \in Obj \ {to} : Serving(o)' = Serving(o)
    BY <2>1, <1>0 DEF Serving, RequestState
  <2>4. Cardinality(Serving(to)') = Cardinality(Serving(to)) + 1
    BY <2>2, <1>0, FS_AddElement
  <2> QED
    BY <2>1, <2>3, <2>4, <1>0 DEF WeightCountsRequests
<1>4. ASSUME NEW r \in Request, RqDone(r) PROVE WeightCountsRequests'
  <2>1. PICK to \in Obj :
          /\ rq[r].pc = "serving" /\ to = rq[r].to
          /\ weight' = [weight EXCEPT ![to] = weight[to] - 1]
          /\ rq' = [rq EXCEPT ![r] = [pc |-> "idle"]]
    BY <1>4, <1>0 DEF RqDone, RequestState, idleRequest
  <2>2. r \in Serving(to) /\ Serving(to)' = Serving(to) \ {r}
    BY <2>1, <1>0 DEF Serving
  <2>3. \A o \in Obj \ {to} : Serving(o)' = Serving(o)
    BY <2>1, <1>0 DEF Serving
  <2>4. Cardinality(Serving(to)') = Cardinality(Serving(to)) - 1
    BY <2>2, <1>0, FS_RemoveElement
  <2> QED
    BY <2>1, <2>3, <2>4, <1>0 DEF WeightCountsRequests
<1>5. ASSUME NEW r \in Request, NEW q, q.pc # "serving", rq[r].pc # "serving",
             rq' = [rq EXCEPT ![r] = q], weight' = weight
      PROVE  WeightCountsRequests'
  <2>1. \A o \in Obj : Serving(o)' = Serving(o)
    BY <1>5, <1>0 DEF Serving
  <2> QED
    BY <2>1, <1>5, SameCount
<1>6. ASSUME NEW r \in Request, RqLoad(r) \/ RqPick(r) \/ RqPickPanic(r) \/ RqWeighX(r) \/ RqCompare(r)
      PROVE  WeightCountsRequests'
  <2>1. CASE RqLoad(r)
    BY <2>1, <1>5 DEF RqLoad
  <2>2. CASE RqPick(r)
    BY <2>2, <1>5 DEF RqPick
  <2>3. CASE RqPickPanic(r)
    BY <2>3, <1>5 DEF RqPickPanic, idleRequest
  <2>4. CASE RqWeighX(r)
    BY <2>4, <1>5 DEF RqWeighX
  <2>5. CASE RqCompare(r)
    BY <2>5, <1>5 DEF RqCompare
  <2> QED
    BY <1>6, <2>1, <2>2, <2>3, <2>4, <2>5
<1>7. \A c \in Client : AddStore(c) \/ RemoveHealthy(c) \/ RemoveSick(c) => UNCHANGED <<weight, rq>>
  BY DEF AddStore, RemoveHealthy, RemoveSick
<1>8. \A d \in Reader : ReaderStep(d) => UNCHANGED <<weight, rq>>
  BY DEF ReaderStep, HealthLoadHealthy, HealthLoadSick, HealthReturn
<1>9. Close \/ LoopExit \/ LoopStep \/ UNCHANGED vars => UNCHANGED <<weight, rq>>
  BY DEF Close, LoopExit, LoopStep, LoopTick, LoopLock, LoopSpawnSick, LoopEndRound, vars
<1>10. \A s \in Side, o \in Obj : CheckStep(s, o) => UNCHANGED <<weight, rq>>
  BY DEF CheckStep, Probe, RemoveLoad, RemoveStore, AddLoad, AddToOther
<1>11. \A u \in URL : Flip(u) => UNCHANGED <<weight, rq>>
  BY DEF Flip
<1> QED
  BY <1>1, <1>2, <1>3, <1>4, <1>6, <1>7, <1>8, <1>9, <1>10, <1>11
  DEF Next, ClientStep, RequestStep

\* An object's weight is the number of requests it is proxying, for every
\* number of requests in flight, so done() never finds it below zero.
THEOREM WeightsCount == Spec => []WeightCountsRequests
<1>1. Init => WeightCountsRequests
  <2> SUFFICES ASSUME Init, NEW o \in Obj PROVE weight[o] = Cardinality(Serving(o))
    BY DEF WeightCountsRequests
  <2>1. weight[o] = 0 /\ Serving(o) = {}
    BY DEF Init, Serving, idleRequest
  <2> QED
    BY <2>1, FS_EmptySet
<1> QED
  BY <1>1, WeightStep, TypeInit, TypeStep, PTL DEF Spec


-----------------------------------------------------------------------------
(* What the pool would promise if the goroutines of a round switched       *)
(* backends one at a time and no URL was added while it is in the pool.    *)
(* The runs P2CLost and P2CRace show what happens without that.            *)

Serial == Parallel = 1 /\ AddKnown = FALSE

-----------------------------------------------------------------------------
(* The invariant.                                                          *)

Moving(s, o) == chk[s][o] \in {"remove", "removeStore", "add", "addStore"}

\* One goroutine of a round at most is switching lists.
OneMoves == \A s, t \in Side, o, p \in Obj : Moving(s, o) /\ Moving(t, p) => s = t /\ o = p

\* Where a backend under check is, and what its goroutine has loaded.
Where ==
    \A s \in Side, o \in Obj :
        /\ chk[s][o] \in {"probe", "remove", "removeStore"} => o \in list[s]
        /\ chk[s][o] \in {"add", "addStore"} => \A t \in Side : \A p \in list[t] : Url(p) # Url(o)
        /\ chk[s][o] = "removeStore" => seen[s][o] = list[s]
        /\ chk[s][o] = "addStore" => seen[s][o] = list[Other(s)]

\* The two lists have no URL in common.
Apart == \A o \in list["healthy"], p \in list["sick"] : Url(o) # Url(p)

\* A backend is marked as its list says, one that is moving as its new list.
Marked ==
    \A s \in Side, o \in Obj :
        /\ o \in list[s] /\ ~Moving(s, o) => mark[o] = s
        /\ Moving(s, o) => mark[o] = Other(s)

Listed(u) == \E s \in Side : \E o \in list[s] : Url(o) = u

\* A member is on a list, or between the two.
Kept ==
    \A u \in members :
        Listed(u) \/ \E s \in Side, o \in Obj : chk[s][o] \in {"add", "addStore"} /\ Url(o) = u

\* A backend that an Add has checked is new to the pool, and a URL that a
\* Remove is taking out has left the members.
Callers ==
    /\ \A c \in Client : client[c].pc = "probed" =>
          /\ Url(client[c].obj) \notin members
          /\ mark[client[c].obj] = "healthy"
          /\ \A s \in Side : client[c].obj \notin list[s] /\ chk[s][client[c].obj] = "idle"
    /\ \A c, d \in Client :
          client[c].pc = "probed" /\ client[d].pc = "probed" /\ Url(client[c].obj) = Url(client[d].obj) => c = d
    /\ \A c \in Client : client[c].pc = "removing" => client[c].url \notin members

\* The members of the whole time since the first load of a quiet Health are in
\* that load, or still on the sick list.
Asking(q) ==
    q.pc = "asking" /\ q.quiet =>
        /\ mu # "loop"
        /\ \A u \in q.kept : /\ u \in q.h \/ \E o \in list["sick"] : Url(o) = u
                             /\ \A c \in Client : client[c].pc = "removing" => client[c].url # u

Told(q) ==
    q.pc = "told" /\ q.quiet => /\ q.status = "EMPTY" => q.kept = {}
                                /\ q.status = "FULL"  => q.kept \subseteq q.h

Picture == \A d \in Reader : Asking(reader[d]) /\ Told(reader[d])

PoolInv == OneMoves /\ Where /\ Apart /\ Marked /\ Kept /\ Callers /\ NeverPanics

SInv == IInv /\ PoolInv /\ Picture

\* While no round is under way nobody is being checked.
LEMMA Quiet == ASSUME IInv, mu # "loop" PROVE \A s \in Side, o \in Obj : chk[s][o] = "idle"
  BY DEF IInv, LockHeld

LEMMA Sides == Side = {"healthy", "sick"} /\ \A s \in Side : Other(s) \in Side /\ Other(s) # s
  BY DEF Side, Other

LEMMA Pairs == ASSUME NEW o \in Obj PROVE Url(o) \in URL
  BY DEF Obj, Url

-----------------------------------------------------------------------------
(* The callers' steps.                                                     *)

LEMMA AddProbeKeeps == ASSUME Serial, SInv, NEW c \in Client, AddProbe(c) PROVE PoolInv' /\ Picture'
<1>1. PICK o \in Obj :
        /\ client[c].pc = "idle" /\ ~Referenced(o) /\ Url(o) \notin members
        /\ \A d \in Client : client[d].pc = "probed" => Url(client[d].obj) # Url(o)
        /\ mark' = [mark EXCEPT ![o] = "healthy"]
        /\ client' = [client EXCEPT ![c] = [pc |-> "probed", obj |-> o]]
        /\ UNCHANGED <<list, mu, chk, seen, reader, members, crashed>>
  BY DEF AddProbe, Serial
<1>2. \A s \in Side : o \notin list[s] /\ chk[s][o] = "idle"
  BY <1>1 DEF Referenced
<1>3. mark \in [Obj -> {"unknown", "healthy", "sick"}] /\ client \in [Client -> ClientState]
  BY DEF SInv, IInv, TypeOK
<1>4. OneMoves' /\ Where' /\ Apart' /\ Kept' /\ NeverPanics'
  BY <1>1 DEF SInv, PoolInv, OneMoves, Moving, Where, Apart, Kept, Listed, NeverPanics
<1>5. Marked'
  BY <1>1, <1>2, <1>3 DEF SInv, PoolInv, Marked, Moving
<1>6. Callers'
  <2>1. \A d \in Client : client'[d] = IF d = c THEN [pc |-> "probed", obj |-> o] ELSE client[d]
    BY <1>1, <1>3
  <2>2. \A p \in Obj : mark'[p] = IF p = o THEN "healthy" ELSE mark[p]
    BY <1>1, <1>3
  <2>3. \A d \in Client : client[d].pc = "probed" => client[d].obj \in Obj
    BY <1>3 DEF ClientState
  <2> QED
    BY <1>1, <1>2, <2>1, <2>2, <2>3 DEF SInv, PoolInv, Callers
<1>7. Picture'
  BY <1>1, <1>3 DEF SInv, Picture, Asking, Told
<1> QED
  BY <1>4, <1>5, <1>6, <1>7 DEF PoolInv

LEMMA AddStoreKeeps == ASSUME Serial, SInv, NEW c \in Client, AddStore(c) PROVE PoolInv' /\ Picture'
<1> DEFINE o == client[c].obj
<1>1. /\ client[c].pc = "probed" /\ mu = Lock /\ client' = [client EXCEPT ![c] = [pc |-> "idle"]]
      /\ UNCHANGED <<mark, mu, chk, seen, reader, crashed>>
  BY DEF AddStore, idleClient
<1>2. o \in Obj /\ client \in [Client -> ClientState] /\ list \in [Side -> SUBSET Obj]
  BY <1>1 DEF SInv, IInv, TypeOK, ClientState
<1>3. \A s \in Side, p \in Obj : chk[s][p] = "idle"
  BY <1>1, Quiet, HolderAssumption DEF SInv
<1>4. \A d \in Client : client[d].pc # "removing"
  BY <1>1, HolderAssumption DEF SInv, IInv, LockHeld
<1>5. Url(o) \notin members /\ mark[o] = "healthy"
  BY <1>1 DEF SInv, PoolInv, Callers
<1>6. \A s \in Side : \A p \in list[s] : Url(p) \in members
  BY <1>4, Sides DEF SInv, IInv, NoPhantomBackend, Leaving, Urls
<1>7. list' = [list EXCEPT !["healthy"] = @ \cup {o}] /\ members' = members \cup {Url(o)}
  BY <1>5, <1>6, Sides DEF AddStore, Has, Urls
<1>8. list'["healthy"] = list["healthy"] \cup {o} /\ list'["sick"] = list["sick"]
  BY <1>2, <1>7, Sides
<1>9. \A d \in Client : client'[d] = IF d = c THEN [pc |-> "idle"] ELSE client[d]
  BY <1>1, <1>2
<1>10. \A d \in Client : client[d].pc = "probed" /\ d # c => Url(client[d].obj) # Url(o)
  BY <1>1 DEF SInv, PoolInv, Callers
<1> HIDE DEF o
<1>11. OneMoves' /\ Where' /\ NeverPanics'
  BY <1>1, <1>3 DEF SInv, PoolInv, OneMoves, Where, Moving, NeverPanics
<1>12. Apart'
  BY <1>5, <1>6, <1>8, Sides DEF SInv, PoolInv, Apart
<1>13. Marked'
  BY <1>1, <1>3, <1>5, <1>8, Sides DEF SInv, PoolInv, Marked, Moving
<1>14. Kept'
  BY <1>3, <1>7, <1>8, Sides DEF SInv, PoolInv, Kept, Listed
<1>15. Callers'
  BY <1>1, <1>4, <1>7, <1>8, <1>9, <1>10, Sides DEF SInv, PoolInv, Callers
<1>16. Picture'
  BY <1>1, <1>4, <1>8, <1>9 DEF SInv, Picture, Asking, Told
<1> QED
  BY <1>11, <1>12, <1>13, <1>14, <1>15, <1>16 DEF PoolInv

LEMMA RemoveKeeps ==
    ASSUME Serial, SInv, NEW c \in Client, RemoveHealthy(c) \/ RemoveSick(c) PROVE PoolInv' /\ Picture'
<1>1. client \in [Client -> ClientState] /\ list \in [Side -> SUBSET Obj] /\ reader \in [Reader -> ReaderState]
  BY DEF SInv, IInv, TypeOK
<1>2. CASE RemoveHealthy(c)
  <2>1. PICK u \in URL :
          /\ client[c].pc = "idle" /\ mu = Lock /\ mu' = c
          /\ list' = [list EXCEPT !["healthy"] = Without(@, u)]
          /\ members' = members \ {u}
          /\ client' = [client EXCEPT ![c] = [pc |-> "removing", url |-> u]]
          /\ reader' = [d \in Reader |-> Noting(reader[d], {u}, TRUE)]
          /\ UNCHANGED <<mark, chk, seen, crashed>>
    BY <1>2 DEF RemoveHealthy
  <2>2. \A s \in Side, p \in Obj : chk[s][p] = "idle"
    BY <2>1, Quiet, HolderAssumption DEF SInv
  <2>3. \A d \in Client : client[d].pc # "removing"
    BY <2>1, HolderAssumption DEF SInv, IInv, LockHeld
  <2>4. list'["healthy"] = Without(list["healthy"], u) /\ list'["sick"] = list["sick"]
    BY <1>1, <2>1, Sides
  <2>5. \A d \in Client : client'[d] = IF d = c THEN [pc |-> "removing", url |-> u] ELSE client[d]
    BY <1>1, <2>1
  <2>6. OneMoves' /\ Where' /\ NeverPanics' /\ Apart' /\ Marked'
    BY <2>1, <2>2, <2>4, Sides DEF SInv, PoolInv, OneMoves, Where, Moving, NeverPanics, Apart, Marked, Without
  <2>7. Kept'
    BY <2>1, <2>2, <2>4, Sides DEF SInv, PoolInv, Kept, Listed, Without
  <2>8. Callers'
    BY <2>1, <2>3, <2>4, <2>5, Sides DEF SInv, PoolInv, Callers, Without
  <2>9. ASSUME NEW d \in Reader PROVE Asking(reader[d])' /\ Told(reader[d])'
    <3>1. reader[d] \in ReaderState /\ reader'[d] = Noting(reader[d], {u}, TRUE)
      BY <1>1, <2>1
    <3>2. CASE reader[d].pc = "asking"
      <4>1. reader[d] \in [pc : {"asking"}, h : SUBSET URL, kept : SUBSET URL, quiet : BOOLEAN]
        BY <3>1, <3>2 DEF ReaderState
      <4>2. /\ reader'[d].pc = "asking" /\ reader'[d].h = reader[d].h
            /\ reader'[d].kept = reader[d].kept \ {u} /\ reader'[d].quiet = reader[d].quiet
        BY <3>1, <3>2, <4>1 DEF Noting
      <4>3. Asking(reader[d])
        BY DEF SInv, Picture
      <4>4. \A w \in reader'[d].kept : w \in reader[d].kept /\ w # u
        BY <4>2
      <4>5. ASSUME reader'[d].quiet, NEW w \in reader'[d].kept
            PROVE  /\ w \in reader'[d].h \/ \E o \in list'["sick"] : Url(o) = w
                   /\ \A e \in Client : client'[e].pc = "removing" => client'[e].url # w
        BY <2>3, <2>4, <2>5, <3>2, <4>2, <4>3, <4>4, <4>5 DEF Asking
      <4>6. mu' # "loop"
        BY <2>1, HolderAssumption
      <4> QED
        BY <4>2, <4>5, <4>6 DEF Asking, Told
    <3>3. CASE reader[d].pc # "asking"
      BY <3>1, <3>3 DEF Noting, SInv, Picture, Asking, Told
    <3> QED
      BY <3>2, <3>3
  <2>10. Picture'
    BY <2>9 DEF Picture
  <2> QED
    BY <2>6, <2>7, <2>8, <2>10 DEF PoolInv
<1>3. CASE RemoveSick(c)
  <2> DEFINE u == client[c].url
  <2>1. /\ client[c].pc = "removing" /\ mu' = Lock
        /\ list' = [list EXCEPT !["sick"] = Without(@, u)]
        /\ client' = [client EXCEPT ![c] = [pc |-> "idle"]]
        /\ UNCHANGED <<mark, chk, seen, reader, members, crashed>>
    BY <1>3 DEF RemoveSick, idleClient
  <2>2. mu = c /\ u \notin members
    BY <2>1 DEF SInv, PoolInv, Callers, IInv, LockHeld
  <2>3. \A s \in Side, p \in Obj : chk[s][p] = "idle"
    BY <2>2, Quiet, HolderAssumption DEF SInv
  <2>4. list'["sick"] = Without(list["sick"], u) /\ list'["healthy"] = list["healthy"]
    BY <1>1, <2>1, Sides
  <2>5. \A d \in Client : client'[d] = IF d = c THEN [pc |-> "idle"] ELSE client[d]
    BY <1>1, <2>1
  <2>6. client[c].pc = "removing" /\ client[c].url = u
    BY <2>1
  <2> HIDE DEF u
  <2>7. OneMoves' /\ Where' /\ NeverPanics' /\ Apart' /\ Marked'
    BY <2>1, <2>3, <2>4, Sides DEF SInv, PoolInv, OneMoves, Where, Moving, NeverPanics, Apart, Marked, Without
  <2>8. Kept'
    BY <2>1, <2>2, <2>3, <2>4, Sides DEF SInv, PoolInv, Kept, Listed, Without
  <2>9. Callers'
    BY <2>1, <2>4, <2>5, Sides DEF SInv, PoolInv, Callers, Without
  <2>10. Picture'
    BY <2>1, <2>4, <2>5, <2>6, HolderAssumption DEF SInv, Picture, Asking, Told, Without
  <2> QED
    BY <2>7, <2>8, <2>9, <2>10 DEF PoolInv
<1> QED
  BY <1>2, <1>3

-----------------------------------------------------------------------------
(* The readers' steps.                                                     *)

LEMMA HealthKeeps == ASSUME Serial, SInv, NEW d \in Reader, ReaderStep(d) PROVE PoolInv' /\ Picture'
<1>1. UNCHANGED <<list, mark, mu, chk, seen, client, members, crashed>>
  BY DEF ReaderStep, HealthLoadHealthy, HealthLoadSick, HealthReturn
<1>2. PoolInv'
  BY <1>1 DEF SInv, PoolInv, OneMoves, Where, Moving, Apart, Marked, Kept, Listed, Callers, NeverPanics
<1>3. reader \in [Reader -> ReaderState]
  BY DEF SInv, IInv, TypeOK
<1>4. \E q : /\ reader' = [reader EXCEPT ![d] = q] /\ Asking(q) /\ Told(q)
  <2>1. CASE HealthLoadHealthy(d)
    <3> DEFINE q == [pc |-> "asking", h |-> Urls(list["healthy"]), kept |-> members, quiet |-> mu # "loop"]
    <3>1. ASSUME mu # "loop", NEW u \in members
          PROVE  /\ u \in Urls(list["healthy"]) \/ \E o \in list["sick"] : Url(o) = u
                 /\ \A c \in Client : client[c].pc = "removing" => client[c].url # u
      <4>1. Listed(u)
        BY <3>1, Quiet DEF SInv, PoolInv, Kept
      <4> QED
        BY <3>1, <4>1, Sides DEF Listed, Urls, SInv, PoolInv, Callers
    <3>2. Asking(q) /\ Told(q)
      BY <3>1 DEF Asking, Told
    <3>3. reader' = [reader EXCEPT ![d] = q]
      BY <2>1 DEF HealthLoadHealthy
    <3> HIDE DEF q
    <3> QED
      BY <3>2, <3>3
  <2>2. CASE HealthLoadSick(d)
    <3> DEFINE q == [pc |-> "told", status |-> StatusOf(reader[d].h, list["sick"]),
                     h |-> reader[d].h, kept |-> reader[d].kept, quiet |-> reader[d].quiet]
    <3>1. reader[d].pc = "asking" /\ reader' = [reader EXCEPT ![d] = q]
      BY <2>2 DEF HealthLoadSick
    <3>2. reader[d] \in [pc : {"asking"}, h : SUBSET URL, kept : SUBSET URL, quiet : BOOLEAN]
      BY <1>3, <3>1 DEF ReaderState
    <3>3. Asking(reader[d])
      BY DEF SInv, Picture
    <3>4. Asking(q) /\ Told(q)
      BY <3>1, <3>2, <3>3 DEF Asking, Told, StatusOf
    <3> HIDE DEF q
    <3> QED
      BY <3>1, <3>4
  <2>3. CASE HealthReturn(d)
    <3>1. reader' = [reader EXCEPT ![d] = [pc |-> "idle"]]
      BY <2>3 DEF HealthReturn, idleReader
    <3>2. Asking([pc |-> "idle"]) /\ Told([pc |-> "idle"])
      BY DEF Asking, Told
    <3> QED
      BY <3>1, <3>2
  <2> QED
    BY <2>1, <2>2, <2>3 DEF ReaderStep
<1>5. PICK q : reader' = [reader EXCEPT ![d] = q] /\ Asking(q) /\ Told(q)
  BY <1>4
<1>6. \A e \in Reader : reader'[e] = IF e = d THEN q ELSE reader[e]
  BY <1>3, <1>5
<1>7. Picture'
  BY <1>1, <1>5, <1>6 DEF SInv, Picture, Asking, Told
<1> QED
  BY <1>2, <1>7

-----------------------------------------------------------------------------
(* The steps of a round.                                                   *)

LEMMA LoopKeepsSerial == ASSUME Serial, SInv, LoopExit \/ LoopStep PROVE PoolInv' /\ Picture'
<1>1. UNCHANGED <<list, mark, seen, client, members, crashed>>
  BY DEF LoopStep, LoopExit, LoopTick, LoopLock, LoopSpawnSick, LoopEndRound
<1>2. chk \in [Side -> [Obj -> {"idle", "probe", "remove", "removeStore", "add", "addStore"}]]
  BY DEF SInv, IInv, TypeOK
<1>3. CASE LoopExit \/ LoopTick \/ LoopEndRound
  <2>1. UNCHANGED <<chk, reader>> /\ (mu' # "loop" \/ mu' = mu)
    BY <1>3, HolderAssumption DEF LoopExit, LoopTick, LoopEndRound
  <2> QED
    BY <1>1, <2>1 DEF SInv, PoolInv, OneMoves, Where, Moving, Apart, Marked, Kept, Listed, Callers,
       NeverPanics, Picture, Asking, Told
<1>4. ASSUME NEW t \in Side, chk' = Spawn(t), \A o \in Obj : chk[t][o] = "idle" PROVE PoolInv'
  <2>1. \A s \in Side, o \in Obj :
           chk'[s][o] = IF s = t /\ o \in list[t] THEN "probe" ELSE chk[s][o]
    BY <1>2, <1>4 DEF Spawn
  <2>2. /\ \A s \in Side, o \in Obj : Moving(s, o)' => Moving(s, o)
        /\ \A s \in Side, o \in Obj : Moving(s, o) => Moving(s, o)'
        /\ \A s \in Side, o \in Obj : chk'[s][o] \notin {"probe", "idle"} => chk'[s][o] = chk[s][o]
        /\ \A s \in Side, o \in Obj : chk[s][o] \in {"add", "addStore"} => chk'[s][o] = chk[s][o]
        /\ \A s \in Side, o \in Obj : chk'[s][o] = "probe" => o \in list[s]
    <3>1. \A s \in Side, o \in Obj : chk[s][o] = "probe" => o \in list[s]
      BY DEF SInv, PoolInv, Where
    <3> QED
      BY <1>4, <2>1, <3>1 DEF Moving
  <2>3. OneMoves' /\ Apart' /\ NeverPanics' /\ Marked'
    BY <1>1, <2>2 DEF SInv, PoolInv, OneMoves, Apart, NeverPanics, Marked
  <2>4. Where'
    BY <1>1, <2>2 DEF SInv, PoolInv, Where
  <2>5. Kept'
    BY <1>1, <2>2 DEF SInv, PoolInv, Kept, Listed
  <2>6. Callers'
    <3>1. \A c \in Client : client[c].pc = "probed" => client[c].obj \in Obj
      BY DEF SInv, IInv, TypeOK, ClientState
    <3> QED
      BY <1>1, <2>1, <3>1 DEF SInv, PoolInv, Callers
  <2> QED
    BY <2>3, <2>4, <2>5, <2>6 DEF PoolInv
<1>5. CASE LoopLock
  <2>1. PoolInv'
    <3>1. \A o \in Obj : chk["healthy"][o] = "idle"
      BY <1>5, Quiet, Sides, HolderAssumption DEF LoopLock, SInv
    <3> QED
      BY <1>4, <1>5, <3>1, Sides DEF LoopLock
  <2>2. ASSUME NEW d \in Reader PROVE Asking(reader[d])' /\ Told(reader[d])'
    <3>1. reader[d] \in ReaderState /\ reader'[d] = Noting(reader[d], {}, FALSE)
      BY <1>5 DEF LoopLock, SInv, IInv, TypeOK
    <3>2. CASE reader[d].pc = "asking"
      <4>1. reader[d] \in [pc : {"asking"}, h : SUBSET URL, kept : SUBSET URL, quiet : BOOLEAN]
        BY <3>1, <3>2 DEF ReaderState
      <4>2. reader'[d].pc = "asking" /\ reader'[d].quiet = FALSE
        BY <3>1, <3>2, <4>1 DEF Noting
      <4> QED
        BY <4>2 DEF Asking, Told
    <3>3. CASE reader[d].pc # "asking"
      BY <3>1, <3>3 DEF Noting, SInv, Picture, Asking, Told
    <3> QED
      BY <3>2, <3>3
  <2> QED
    BY <2>1, <2>2 DEF Picture
<1>6. CASE LoopSpawnSick
  <2>1. PoolInv'
    <3>1. \A o \in Obj : chk["sick"][o] = "idle"
      BY <1>6 DEF LoopSpawnSick, SInv, IInv, LockHeld
    <3> QED
      BY <1>4, <1>6, <3>1, Sides DEF LoopSpawnSick
  <2>2. UNCHANGED <<mu, reader>>
    BY <1>6 DEF LoopSpawnSick
  <2>3. Picture'
    BY <1>1, <2>2 DEF SInv, Picture, Asking, Told
  <2> QED
    BY <2>1, <2>3
<1> QED
  BY <1>3, <1>5, <1>6 DEF LoopStep

\* The goroutine that begins to switch lists is the only one.
LEMMA NobodyMoves ==
    ASSUME Serial, SInv, Cardinality(Switching) < Parallel PROVE \A s \in Side, o \in Obj : ~Moving(s, o)
<1> SUFFICES ASSUME NEW s \in Side, NEW o \in Obj, Moving(s, o) PROVE FALSE
  OBVIOUS
<1>1. chk \in [Side -> [Obj -> {"idle", "probe", "remove", "removeStore", "add", "addStore"}]]
  BY DEF SInv, IInv, TypeOK
<1>2. \A t \in Side, p \in Obj : chk[t][p] \notin {"idle", "probe"} => <<t, p>> = <<s, o>>
  BY <1>1 DEF SInv, PoolInv, OneMoves, Moving
<1>3. <<s, o>> \in Switching
  BY DEF Switching, Moving
<1>4. Switching \subseteq {<<s, o>>}
  <2> SUFFICES ASSUME NEW so \in Side \X Obj, chk[so[1]][so[2]] \notin {"idle", "probe"}
               PROVE  so = <<s, o>>
    BY DEF Switching
  <2>1. so[1] \in Side /\ so[2] \in Obj /\ so = <<so[1], so[2]>>
    OBVIOUS
  <2> QED
    BY <1>2, <2>1
<1>5. Switching = {<<s, o>>}
  BY <1>3, <1>4
<1>6. Cardinality(Switching) = 1
  BY <1>5, FS_Singleton
<1> QED
  BY <1>6 DEF Serial

\* The goroutine of one backend, from its probe to its last store.
LEMMA CheckKeepsSerial ==
    ASSUME Serial, SInv, NEW s \in Side, NEW o \in Obj, CheckStep(s, o) PROVE PoolInv' /\ Picture'
<1> DEFINE t == Other(s)
<1>1. t \in Side /\ t # s /\ Side = {s, t} /\ Other(t) = s
  BY DEF Side, Other
<1>2. /\ chk \in [Side -> [Obj -> {"idle", "probe", "remove", "removeStore", "add", "addStore"}]]
      /\ seen \in [Side -> [Obj -> SUBSET Obj]] /\ list \in [Side -> SUBSET Obj]
      /\ mark \in [Obj -> {"unknown", "healthy", "sick"}]
  BY DEF SInv, IInv, TypeOK
<1>3. UNCHANGED <<mu, client, reader, members>>
  BY DEF CheckStep, Probe, RemoveLoad, RemoveStore, AddLoad, AddToOther
<1>4. Picture'
  <2>1. mu = "loop"
    <3>1. chk[s][o] # "idle"
      BY DEF CheckStep, Probe, RemoveLoad, RemoveStore, AddLoad, AddToOther
    <3> QED
      BY <3>1 DEF SInv, IInv, LockHeld
  <2> QED
    BY <1>3, <2>1 DEF SInv, Picture, Asking, Told
<1>5. \A c \in Client : client[c].pc = "probed" => client[c].obj \in Obj
  BY DEF SInv, IInv, TypeOK, ClientState
<1>6. \A c \in Client : client[c].pc = "probed" /\ chk[s][o] # "idle" => client[c].obj # o
  BY DEF SInv, PoolInv, Callers
\* A step that leaves the lists alone.
<1> DEFINE Shift(next) ==
        /\ chk[s][o] # "idle" /\ chk' = [chk EXCEPT ![s][o] = next] /\ UNCHANGED <<list, crashed>>
        /\ \A p \in Obj : p # o => mark'[p] = mark[p]
        /\ next = "idle" => chk[s][o] = "probe" /\ mark' = mark
        /\ next \notin {"idle", "add", "addStore"} => o \in list[s]
        /\ next \in {"add", "addStore"} <=> chk[s][o] \in {"add", "addStore"}
        /\ next # "idle" => mark'[o] = t /\ (Moving(s, o) \/ \A r \in Side, p \in Obj : ~Moving(r, p))
        /\ \A r \in Side, p \in Obj : ~(r = s /\ p = o) => seen'[r][p] = seen[r][p]
        /\ next = "removeStore" => seen'[s][o] = list[s]
        /\ next = "addStore" => seen'[s][o] = list[t]
<1>7. ASSUME NEW next \in {"idle", "remove", "removeStore", "add", "addStore"}, Shift(next)
      PROVE  PoolInv'
  <2>1. \A r \in Side, p \in Obj : chk'[r][p] = IF r = s /\ p = o THEN next ELSE chk[r][p]
    BY <1>2, <1>7
  <2>2. Moving(s, o)' <=> next # "idle"
    BY <1>7, <2>1 DEF Moving
  <2>3. \A r \in Side, p \in Obj : ~(r = s /\ p = o) => (Moving(r, p)' <=> Moving(r, p))
    BY <2>1 DEF Moving
  <2>4. OneMoves'
    BY <1>7, <2>2, <2>3 DEF SInv, PoolInv, OneMoves
  <2>5. Where'
    <3>1. ASSUME NEW r \in Side, NEW p \in Obj, ~(r = s /\ p = o)
          PROVE  chk'[r][p] = chk[r][p] /\ seen'[r][p] = seen[r][p]
      BY <1>7, <2>1, <3>1
    <3>2. chk'[s][o] = next
      BY <2>1
    <3> QED
      BY <1>1, <1>7, <3>1, <3>2 DEF SInv, PoolInv, Where
  <2>6. Apart' /\ NeverPanics'
    BY <1>7 DEF SInv, PoolInv, Apart, NeverPanics
  <2>7. Marked'
    <3>1. ASSUME NEW r \in Side, NEW p \in Obj, p # o
          PROVE  /\ p \in list'[r] /\ ~Moving(r, p)' => mark'[p] = r
                 /\ Moving(r, p)' => mark'[p] = Other(r)
      <4>1. Moving(r, p)' <=> Moving(r, p)
        BY <2>3, <3>1
      <4> QED
        BY <1>7, <3>1, <4>1 DEF SInv, PoolInv, Marked
    <3>2. /\ o \in list'[s] /\ ~Moving(s, o)' => mark'[o] = s
          /\ Moving(s, o)' => mark'[o] = t
      BY <1>7, <2>2 DEF SInv, PoolInv, Marked, Moving
    <3>3. o \in list[s] \/ chk[s][o] \in {"add", "addStore"}
      BY <1>2, <1>7 DEF SInv, PoolInv, Where
    <3>4. o \notin list[t]
      BY <1>1, <3>3, Sides DEF SInv, PoolInv, Where, Apart
    <3>5. ~Moving(t, o)
      <4>1. CASE o \in list[s]
        BY <3>4, <1>1, <4>1 DEF Moving, SInv, PoolInv, Where
      <4>2. CASE chk[s][o] \in {"add", "addStore"}
        BY <1>1, <4>2 DEF Moving, SInv, PoolInv, OneMoves
      <4> QED
        BY <3>3, <4>1, <4>2
    <3>6. ~Moving(t, o)' /\ o \notin list'[t]
      BY <1>1, <1>7, <2>3, <3>4, <3>5
    <3> QED
      BY <1>1, <3>1, <3>2, <3>6 DEF Marked
  <2>8. Kept'
    BY <1>3, <1>7, <2>1 DEF SInv, PoolInv, Kept, Listed
  <2>9. Callers'
    <3>1. \A c \in Client : client[c].pc = "probed" => client[c].obj # o
      BY <1>6, <1>7
    <3> QED
      BY <1>3, <1>5, <1>7, <2>1, <3>1 DEF SInv, PoolInv, Callers
  <2> QED
    BY <2>4, <2>5, <2>6, <2>7, <2>8, <2>9 DEF PoolInv
<1>8. CASE Probe(s, o)
  <2>1. chk[s][o] = "probe" /\ o \in list[s] /\ UNCHANGED <<list, seen, crashed>>
    BY <1>8 DEF Probe, SInv, PoolInv, Where
  <2>2. CASE up[Url(o)] = (s = "healthy")
    <3>1. chk' = [chk EXCEPT ![s][o] = "idle"] /\ UNCHANGED mark
      BY <1>8, <2>2 DEF Probe
    <3>2. Shift("idle")
      BY <2>1, <3>1
    <3> HIDE DEF Shift
    <3> QED
      BY <1>4, <1>7, <3>2
  <2>3. CASE up[Url(o)] # (s = "healthy")
    <3>1. /\ chk' = [chk EXCEPT ![s][o] = "remove"] /\ mark' = [mark EXCEPT ![o] = t]
          /\ Cardinality(Switching) < Parallel
      BY <1>8, <2>3 DEF Probe
    <3>2. mark'[o] = t /\ \A p \in Obj : p # o => mark'[p] = mark[p]
      BY <1>2, <3>1
    <3>3. \A r \in Side, p \in Obj : ~Moving(r, p)
      BY <3>1, NobodyMoves
    <3>4. Shift("remove")
      BY <2>1, <3>1, <3>2, <3>3
    <3> HIDE DEF Shift
    <3> QED
      BY <1>4, <1>7, <3>4
  <2> QED
    BY <2>2, <2>3
<1>9. CASE RemoveLoad(s, o)
  <2>1. chk[s][o] = "remove" /\ Moving(s, o) /\ o \in list[s] /\ mark[o] = t
    BY <1>9 DEF RemoveLoad, Moving, SInv, PoolInv, Where, Marked
  <2>2. list[s] # {} /\ Has(list[s], Url(o))
    BY <2>1 DEF Has, Urls
  <2>3. /\ chk' = [chk EXCEPT ![s][o] = "removeStore"] /\ seen' = [seen EXCEPT ![s][o] = list[s]]
        /\ UNCHANGED <<list, mark, crashed>>
    BY <1>9, <2>2 DEF RemoveLoad
  <2>4. seen'[s][o] = list[s] /\ \A r \in Side, p \in Obj : ~(r = s /\ p = o) => seen'[r][p] = seen[r][p]
    BY <1>2, <2>3
  <2>5. Shift("removeStore")
    BY <1>2, <2>1, <2>3, <2>4
  <2> HIDE DEF Shift
  <2> QED
    BY <1>4, <1>7, <2>5
<1>10. CASE AddLoad(s, o)
  <2>1. chk[s][o] = "add" /\ Moving(s, o) /\ mark[o] = t /\ \A p \in list[t] : Url(p) # Url(o)
    BY <1>1, <1>10 DEF AddLoad, Moving, SInv, PoolInv, Where, Marked
  <2>2. ~Has(list[t], Url(o))
    BY <2>1 DEF Has, Urls
  <2>3. /\ chk' = [chk EXCEPT ![s][o] = "addStore"] /\ seen' = [seen EXCEPT ![s][o] = list[t]]
        /\ UNCHANGED <<list, mark, crashed>>
    BY <1>10, <2>2 DEF AddLoad
  <2>4. seen'[s][o] = list[t] /\ \A r \in Side, p \in Obj : ~(r = s /\ p = o) => seen'[r][p] = seen[r][p]
    BY <1>2, <2>3
  <2>5. Shift("addStore")
    BY <1>2, <2>1, <2>3, <2>4
  <2> HIDE DEF Shift
  <2> QED
    BY <1>4, <1>7, <2>5
<1>11. CASE RemoveStore(s, o)
  <2>1. chk[s][o] = "removeStore" /\ o \in list[s] /\ mark[o] = t /\ seen[s][o] = list[s]
    BY <1>11 DEF RemoveStore, Moving, SInv, PoolInv, Where, Marked
  <2>2. /\ list' = [list EXCEPT ![s] = Without(list[s], Url(o))] /\ UNCHANGED <<mark, crashed>>
        /\ chk' = [chk EXCEPT ![s][o] = "add"] /\ seen' = [seen EXCEPT ![s][o] = {}]
    BY <1>11, <2>1 DEF RemoveStore
  <2>3. \A p \in list[s] : Url(p) = Url(o) => p = o
    BY <2>1 DEF SInv, IInv, OneObjectPerUrl
  <2>4. list'[t] = list[t] /\ list'[s] = Without(list[s], Url(o))
    BY <1>1, <1>2, <2>2
  <2>5. list'[s] = list[s] \ {o}
    BY <2>1, <2>3, <2>4 DEF Without
  <2>6. \A r \in Side, p \in Obj : chk'[r][p] = IF r = s /\ p = o THEN "add" ELSE chk[r][p]
    BY <1>2, <2>2
  <2>7. \A r \in Side, p \in Obj : ~(r = s /\ p = o) => seen'[r][p] = seen[r][p] /\ ~Moving(r, p)
    BY <1>2, <2>1, <2>2 DEF SInv, PoolInv, OneMoves, Moving
  <2>8. \A r \in Side : \A p \in list'[r] : Url(p) # Url(o)
    <3>1. \A p \in list[t] : Url(p) # Url(o)
      BY <1>1, <2>1, Sides DEF SInv, PoolInv, Apart
    <3> QED
      BY <1>1, <2>4, <3>1 DEF Without
  <2>9. OneMoves' /\ NeverPanics'
    BY <2>2, <2>6, <2>7 DEF OneMoves, Moving, NeverPanics, SInv, PoolInv
  <2>10. Where'
    <3>1. ASSUME NEW r \in Side, NEW p \in Obj, ~(r = s /\ p = o)
          PROVE  chk'[r][p] \in {"idle", "probe"} /\ (chk'[r][p] = "probe" => p \in list'[r])
      <4>1. chk'[r][p] = chk[r][p] /\ ~Moving(r, p) /\ (chk[r][p] = "probe" => p \in list[r])
        BY <2>6, <2>7, <3>1 DEF SInv, PoolInv, Where
      <4> QED
        BY <1>1, <1>2, <2>4, <2>5, <3>1, <4>1 DEF Moving
    <3>2. chk'[s][o] = "add"
      BY <2>6
    <3> QED
      BY <2>8, <3>1, <3>2 DEF Where
  <2>11. Apart'
    BY <1>1, <2>4, <2>5 DEF SInv, PoolInv, Apart, Side
  <2>12. Marked'
    <3>1. ASSUME NEW r \in Side, NEW p \in Obj, ~(r = s /\ p = o)
          PROVE  ~Moving(r, p)' /\ (p \in list'[r] => mark'[p] = r)
      <4>1. ~Moving(r, p) /\ ~Moving(r, p)'
        BY <2>6, <2>7, <3>1 DEF Moving
      <4>2. p \in list'[r] => p \in list[r]
        BY <1>1, <2>4, <2>5
      <4> QED
        BY <2>2, <4>1, <4>2 DEF SInv, PoolInv, Marked
    <3>2. Moving(s, o)' /\ mark'[o] = t
      BY <2>1, <2>2, <2>6 DEF Moving
    <3> QED
      BY <3>1, <3>2 DEF Marked
  <2>13. Kept'
    <3>1. ASSUME NEW u \in members, u # Url(o) PROVE Listed(u)'
      <4>1. PICK r \in Side : \E p \in list[r] : Url(p) = u
        BY <2>1, <2>7, <3>1 DEF SInv, PoolInv, Kept, Listed, Moving
      <4> QED
        BY <1>1, <2>4, <2>5, <3>1, <4>1 DEF Listed
    <3>2. chk'[s][o] \in {"add", "addStore"}
      BY <2>6
    <3> QED
      BY <1>3, <3>1, <3>2 DEF Kept
  <2>14. Callers'
    <3>1. \A c \in Client : client[c].pc = "probed" => client[c].obj # o
      BY <1>6, <2>1
    <3>2. \A r \in Side : list'[r] \subseteq list[r]
      BY <1>1, <2>4, <2>5
    <3>3. \A c \in Client, r \in Side : client[c].pc = "probed" =>
             client[c].obj \notin list'[r] /\ chk'[r][client[c].obj] = "idle"
      BY <1>5, <2>6, <3>1, <3>2 DEF SInv, PoolInv, Callers
    <3>4. UNCHANGED mark
      BY <2>2
    <3> QED
      BY <1>3, <3>3, <3>4 DEF SInv, PoolInv, Callers
  <2> QED
    BY <1>4, <2>9, <2>10, <2>11, <2>12, <2>13, <2>14 DEF PoolInv
<1>12. CASE AddToOther(s, o)
  <2>1. /\ chk[s][o] = "addStore" /\ mark[o] = t /\ seen[s][o] = list[t]
        /\ \A r \in Side : \A p \in list[r] : Url(p) # Url(o)
    BY <1>12 DEF AddToOther, Moving, SInv, PoolInv, Where, Marked
  <2>2. /\ list' = [list EXCEPT ![t] = list[t] \cup {o}] /\ UNCHANGED <<mark, crashed>>
        /\ chk' = [chk EXCEPT ![s][o] = "idle"] /\ seen' = [seen EXCEPT ![s][o] = {}]
    BY <1>12, <2>1 DEF AddToOther
  <2>3. list'[t] = list[t] \cup {o} /\ list'[s] = list[s]
    BY <1>1, <1>2, <2>2
  <2>4. \A r \in Side, p \in Obj : chk'[r][p] = IF r = s /\ p = o THEN "idle" ELSE chk[r][p]
    BY <1>2, <2>2
  <2>5. \A r \in Side, p \in Obj : ~(r = s /\ p = o) => ~Moving(r, p)
    BY <2>1 DEF SInv, PoolInv, OneMoves, Moving
  <2>6. \A r \in Side, p \in Obj : ~Moving(r, p)' /\ chk'[r][p] \in {"idle", "probe"}
    BY <1>2, <2>4, <2>5 DEF Moving
  <2>7. OneMoves' /\ NeverPanics'
    BY <2>2, <2>6 DEF OneMoves, NeverPanics, SInv, PoolInv
  <2>8. Where'
    <3>1. ASSUME NEW r \in Side, NEW p \in Obj, chk'[r][p] = "probe" PROVE p \in list'[r]
      <4>1. p \in list[r]
        BY <2>4, <3>1 DEF SInv, PoolInv, Where
      <4> QED
        BY <1>1, <2>3, <4>1
    <3> QED
      BY <2>6, <3>1 DEF Where
  <2>9. Apart'
    BY <1>1, <2>1, <2>3, Sides DEF SInv, PoolInv, Apart
  <2>10. Marked'
    <3>1. ASSUME NEW r \in Side, NEW p \in Obj, p \in list'[r] PROVE mark'[p] = r
      <4>1. CASE p = o
        BY <1>1, <2>1, <2>2, <2>3, <3>1, <4>1
      <4>2. CASE p # o
        <5>1. p \in list[r] /\ ~Moving(r, p)
          BY <1>1, <2>3, <2>5, <3>1, <4>2
        <5> QED
          BY <2>2, <5>1 DEF SInv, PoolInv, Marked
      <4> QED
        BY <4>1, <4>2
    <3> QED
      BY <2>6, <3>1 DEF Marked
  <2>11. Kept'
    <3>1. ASSUME NEW u \in members PROVE Listed(u)'
      <4>1. Listed(u) \/ u = Url(o)
        BY <2>5 DEF SInv, PoolInv, Kept, Moving
      <4> QED
        BY <1>1, <2>3, <4>1 DEF Listed
    <3> QED
      BY <1>3, <3>1 DEF Kept
  <2>12. Callers'
    <3>1. \A c \in Client : client[c].pc = "probed" => client[c].obj # o
      BY <1>6, <2>1
    <3>2. \A c \in Client, r \in Side : client[c].pc = "probed" => client[c].obj \notin list'[r]
      BY <1>1, <1>5, <2>3, <3>1 DEF SInv, PoolInv, Callers
    <3>3. \A c \in Client, r \in Side : client[c].pc = "probed" => chk'[r][client[c].obj] = "idle"
      BY <1>5, <2>4 DEF SInv, PoolInv, Callers
    <3>4. UNCHANGED mark
      BY <2>2
    <3> QED
      BY <1>3, <3>2, <3>3, <3>4 DEF SInv, PoolInv, Callers
  <2> QED
    BY <1>4, <2>7, <2>8, <2>9, <2>10, <2>11, <2>12 DEF PoolInv
<1> QED
  BY <1>4, <1>8, <1>9, <1>10, <1>11, <1>12 DEF CheckStep

-----------------------------------------------------------------------------
(* The invariant holds.                                                    *)

LEMMA SInvStep == ASSUME Serial, SInv, [Next]_vars PROVE SInv'
<1>1. IInv'
  BY IInvStep DEF SInv
<1>2. ASSUME UNCHANGED <<list, mark, mu, chk, seen, client, reader, members, crashed>>
      PROVE  PoolInv' /\ Picture'
  BY <1>2 DEF SInv, PoolInv, OneMoves, Where, Moving, Apart, Marked, Kept, Listed, Callers,
     NeverPanics, Picture, Asking, Told
<1>3. ASSUME NEW r \in Request, RequestStep(r)
      PROVE  UNCHANGED <<list, mark, mu, chk, seen, client, reader, members, crashed>>
  BY <1>3 DEF RequestStep, RqLoad, RqPick, RqPickPanic, RqWeighX, RqCompare, RqCall, RqDone, poolVars
<1>4. PoolInv' /\ Picture'
  <2>1. CASE UNCHANGED vars
    BY <1>2, <2>1 DEF vars
  <2>2. CASE Next
    <3>1. ASSUME NEW c \in Client, ClientStep(c) PROVE PoolInv' /\ Picture'
      BY <3>1, AddProbeKeeps, AddStoreKeeps, RemoveKeeps DEF ClientStep
    <3>2. CASE Close \/ \E u \in URL : Flip(u)
      BY <1>2, <3>2 DEF Close, Flip
    <3> QED
      BY <1>2, <1>3, <2>2, <3>1, <3>2, HealthKeeps, LoopKeepsSerial, CheckKeepsSerial DEF Next
  <2> QED
    BY <2>1, <2>2
<1> QED
  BY <1>1, <1>4 DEF SInv

LEMMA SInvInvariant == ASSUME Serial PROVE Spec => []SInv
<1>1. Init => SInv
  <2> SUFFICES ASSUME Init PROVE SInv
    OBVIOUS
  <2>1. IInv
    BY IInvInit
  <2>2. /\ \A s \in Side, o \in Obj : chk[s][o] = "idle" /\ ~Moving(s, o)
        /\ \A s \in Side : list[s] = {}
        /\ \A c \in Client : client[c].pc = "idle"
        /\ \A d \in Reader : reader[d].pc = "idle"
        /\ members = {} /\ crashed = FALSE
    BY DEF Init, Moving, idleClient, idleReader
  <2>3. PoolInv
    BY <2>2, Sides DEF PoolInv, OneMoves, Where, Apart, Marked, Kept, Callers, NeverPanics
  <2>4. Picture
    BY <2>2 DEF Picture, Asking, Told
  <2> QED
    BY <2>1, <2>3, <2>4 DEF SInv
<1>2. Serial /\ SInv /\ [Next]_vars => SInv'
  BY SInvStep
<1> QED
  BY <1>1, <1>2, PTL DEF Spec

-----------------------------------------------------------------------------
(* The theorems.                                                           *)

\* No backend that was added and not removed is lost, whatever calls and
\* rounds interleave, when a round switches one backend at a time and no Add
\* is repeated (p2c.go healthyToSick, sickToHealthy).
THEOREM SerialLosesNobody == ASSUME Serial PROVE Spec => []NoBackendLost
<1>1. SInv => NoBackendLost
  <2> SUFFICES ASSUME SInv, mu = Lock, NEW u \in members
               PROVE  u \in Urls(list["healthy"]) \cup Urls(list["sick"])
    BY DEF NoBackendLost
  <2>1. \A s \in Side, o \in Obj : chk[s][o] = "idle"
    BY Quiet, HolderAssumption DEF SInv
  <2>2. Listed(u)
    BY <2>1 DEF SInv, PoolInv, Kept
  <2> QED
    BY <2>2, Sides DEF Listed, Urls
<1> QED
  BY <1>1, SInvInvariant, PTL

\* Then a backend is on one list, the one its last health check put it on.
THEOREM SerialSorts == ASSUME Serial PROVE Spec => []OneListEach
<1>1. SInv => OneListEach
  <2> SUFFICES ASSUME SInv, mu = Lock
               PROVE  /\ Urls(list["healthy"]) \cap Urls(list["sick"]) = {}
                      /\ \A s \in Side : \A o \in list[s] : mark[o] = s
    BY DEF OneListEach
  <2>1. \A s \in Side, o \in Obj : ~Moving(s, o)
    BY Quiet, HolderAssumption DEF SInv, Moving
  <2>2. \A s \in Side : list[s] \subseteq Obj
    BY DEF SInv, IInv, TypeOK
  <2>3. \A s \in Side : \A o \in list[s] : mark[o] = s
    BY <2>1, <2>2 DEF SInv, PoolInv, Marked
  <2>4. Urls(list["healthy"]) \cap Urls(list["sick"]) = {}
    BY DEF SInv, PoolInv, Apart, Urls
  <2> QED
    BY <2>3, <2>4
<1> QED
  BY <1>1, SInvInvariant, PTL

\* Then the panics of healthyToSick and sickToHealthy are out of reach.
THEOREM SerialNeverPanics == ASSUME Serial PROVE Spec => []NeverPanics
<1>1. SInv => NeverPanics
  BY DEF SInv, PoolInv
<1> QED
  BY <1>1, SInvInvariant, PTL

\* Then a Health call that no round overlaps reports one state of the pool,
\* although it loads the two lists with no lock while callers add and remove
\* (p2c.go Health).
THEOREM SerialHealth == ASSUME Serial PROVE Spec => []HealthIsOnePicture
<1>1. SInv => HealthIsOnePicture
  BY DEF SInv, Picture, Told, HealthIsOnePicture
<1> QED
  BY <1>1, SInvInvariant, PTL
=============================================================================
