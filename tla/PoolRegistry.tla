---------------------------- MODULE PoolRegistry ----------------------------
(***************************************************************************)
(* What a pool promises its callers (the Pool interface of                 *)
(* orchestration/lb/server/http/server.go): a set of registered backends,  *)
(* and the subset that receives traffic.  Health checks move registered    *)
(* backends in and out of service; they never bring an unregistered one    *)
(* into service, and removing a backend takes it out of service at once.   *)
(***************************************************************************)
CONSTANT URL

VARIABLES registered, inService

vars == <<registered, inService>>

Init == registered = {} /\ inService = {}

Register(u) ==
    /\ registered' = registered \cup {u}
    /\ inService' = inService \cup {u}

Deregister(u) ==
    /\ registered' = registered \ {u}
    /\ inService' = inService \ {u}

Rotate ==
    /\ inService' \in SUBSET registered
    /\ UNCHANGED registered

Next == Rotate \/ \E u \in URL : Register(u) \/ Deregister(u)

Spec == Init /\ [][Next]_vars
=============================================================================
