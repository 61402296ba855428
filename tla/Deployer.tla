------------------------------ MODULE Deployer ------------------------------
(***************************************************************************)
(* workloads: creates a namespace, deploys a server in it, follows the     *)
(* logs of its pods and deletes the namespace when main exits.  Every      *)
(* error of a call to the cluster is a panic: one of main unwinds through  *)
(* its defers, one of a log goroutine ends the process.                    *)
(***************************************************************************)
EXTENDS Naturals

CONSTANT Replicas    \* pods of the deployment

VARIABLES
    depAt,      \* where main is; "returned", "panicked" and "killed" end the process
    namespace,  \* "none", "own" as created here, "kept" by a deletion that failed,
                \* or "other" that was there before
    deferred,   \* the deferred deletion is registered
    panicking,
    ready,      \* pods that are ready
    follower,   \* the goroutine that follows each pod's log
    notified    \* the signal handler is installed

depVars == <<depAt, namespace, deferred, panicking, ready, follower, notified>>

Pod == 1 .. Replicas
Ended == depAt \in {"returned", "panicked", "killed"}

Init ==
    /\ depAt = "client" /\ namespace \in {"none", "other"}
    /\ deferred = FALSE /\ panicking = FALSE /\ ready = 0
    /\ follower = [p \in Pod |-> "none"] /\ notified = FALSE

\* A call fails: main unwinds, to the deletion if that is deferred.
Panics ==
    /\ panicking' = TRUE
    /\ depAt' = IF deferred THEN "delete" ELSE "panicked"

GetClientSet ==
    /\ depAt = "client"
    /\ \/ depAt' = "namespace" /\ UNCHANGED panicking
       \/ Panics
    /\ UNCHANGED <<namespace, deferred, ready, follower, notified>>

\* Mistake: the deletion is deferred before the namespace is created.
CreateNamespaceDeferred ==
    /\ depAt = "namespace" /\ deferred' = TRUE
    /\ \/ /\ namespace = "none" /\ namespace' = "own"
          /\ depAt' = "deployment" /\ UNCHANGED panicking
       \/ panicking' = TRUE /\ depAt' = "delete" /\ UNCHANGED namespace
    /\ UNCHANGED <<ready, follower, notified>>

\* The cluster refuses a namespace that exists; and when it creates one its
\* answer may be lost, before the deletion is deferred.
CreateNamespace ==
    /\ depAt = "namespace"
    /\ \/ /\ namespace = "none" /\ namespace' = "own"
          /\ depAt' = "deployment" /\ deferred' = TRUE
          /\ UNCHANGED panicking
       \/ namespace = "none" /\ namespace' = "own" /\ Panics /\ UNCHANGED deferred
       \/ Panics /\ UNCHANGED <<namespace, deferred>>
    /\ UNCHANGED <<ready, follower, notified>>

\* createNginxDeployment, the service and the ingress: one call each.
Calls == [deployment |-> "ready", service |-> "ingress", ingress |-> "list"]

Create ==
    /\ depAt \in DOMAIN Calls
    /\ \/ depAt' = Calls[depAt] /\ UNCHANGED panicking
       \/ Panics
    /\ UNCHANGED <<namespace, deferred, ready, follower, notified>>

\* The poll of waitForReadyReplicas.
Poll ==
    /\ depAt = "ready"
    /\ \/ ready = Replicas /\ depAt' = "service" /\ UNCHANGED panicking
       \/ Panics
    /\ UNCHANGED <<namespace, deferred, ready, follower, notified>>

\* The cluster starts and loses pods as it likes.
PodChanges ==
    /\ depAt = "ready"
    /\ ready' \in 0 .. Replicas
    /\ UNCHANGED <<depAt, namespace, deferred, panicking, follower, notified>>

\* listenToPodLogs starts one goroutine per pod of the list.
Listen ==
    /\ depAt = "list"
    /\ \/ /\ depAt' = "notify" /\ UNCHANGED panicking
          /\ follower' = [p \in Pod |-> IF p <= ready THEN "opens" ELSE "none"]
       \/ Panics /\ UNCHANGED follower
    /\ UNCHANGED <<namespace, deferred, ready, notified>>

\* A panic in a goroutine runs no defer of main.
Follow(p) ==
    /\ follower[p] = "opens"
    /\ \/ follower' = [follower EXCEPT ![p] = "copies"] /\ UNCHANGED depAt
       \/ follower' = [follower EXCEPT ![p] = "panicked"] /\ depAt' = "killed"
    /\ UNCHANGED <<namespace, deferred, panicking, ready, notified>>

\* waitForExitSignal.
Notify ==
    /\ depAt = "notify"
    /\ notified' = TRUE /\ depAt' = "wait"
    /\ UNCHANGED <<namespace, deferred, panicking, ready, follower>>

\* A signal before the handler is installed ends the process at once.  One that
\* comes after the wait is over is kept by the channel and not read.
Signal ==
    /\ depAt' = CASE ~notified -> "killed" [] depAt = "wait" -> "delete" [] OTHER -> depAt
    /\ UNCHANGED <<namespace, deferred, panicking, ready, follower, notified>>

\* deleteNamespace, deferred after cancel and so run before it.
DeleteNamespace ==
    /\ depAt = "delete"
    /\ \/ namespace' = "none" /\ depAt' = (IF panicking THEN "panicked" ELSE "returned") /\ UNCHANGED panicking
       \/ namespace' \in {"none", "kept"} /\ panicking' = TRUE /\ depAt' = "panicked"
    /\ UNCHANGED <<deferred, ready, follower, notified>>

Next ==
    /\ ~Ended
    /\ \/ GetClientSet \/ CreateNamespace \/ Create \/ Poll \/ PodChanges \/ Listen
       \/ Notify \/ Signal \/ DeleteNamespace
       \/ \E p \in Pod : Follow(p)

-----------------------------------------------------------------------------
(* Properties.                                                             *)

\* The type invariant.
TypeOK ==
    /\ depAt \in {"client", "namespace", "deployment", "ready", "service", "ingress", "list", "notify",
                  "wait", "delete", "returned", "panicked", "killed"}
    /\ namespace \in {"none", "own", "kept", "other"} /\ deferred \in BOOLEAN /\ panicking \in BOOLEAN
    /\ ready \in 0 .. Replicas /\ follower \in [Pod -> {"none", "opens", "copies", "panicked"}]
    /\ notified \in BOOLEAN

\* "create a namespace named "foo" and delete it when main exits": whatever
\* fails in main once createNamespace has returned, the deletion is tried, and
\* main returns only if it succeeded.  A namespace is left untried by a create
\* whose answer was lost, by a signal that came too early and by the panic of a
\* log goroutine, and by nothing else.
NamespaceGone ==
    /\ depAt = "returned" => namespace = "none"
    /\ depAt = "killed" => namespace # "own" \/ ~notified \/ \E p \in Pod : follower[p] = "panicked"
    /\ depAt = "panicked" /\ namespace = "own" => ~deferred

\* A namespace that somebody else made is never deleted.
OthersNamespaceKept == [][namespace = "other" => namespace' = "other"]_depVars
=============================================================================
