------------------------------ MODULE Actions ------------------------------
(***************************************************************************)
(* The actions on the endpoints of a rollout                               *)
(* (orchestration/actions/actions.go): a chain of state functions that     *)
(* takes the backend out of the load balancer, replaces the binary,        *)
(* restarts it and puts the backend back.  The endpoint and the load       *)
(* balancer are reached over the network: a step may fail before or after  *)
(* it has had its effect.  Nothing keeps two goroutines from running one   *)
(* Actions at once, and the retries of the workflow do.                    *)
(***************************************************************************)
EXTENDS Naturals

CONSTANTS
    Endpoint,
    Goroutine   \* those that call Run, one Run at a time

StateFn == {"findAppLocal", "rmBackend", "jobKill", "cp", "jobStart", "addBackend"}

VARIABLES
    of,           \* the endpoint whose Run a goroutine called last
    fn,           \* the StateFn this Run will call next; "idle" when it is not under way
    last,         \* what it returned
    alone,        \* history: no other Run of the endpoint was, or has been, under way since it began
    failedState,  \* Actions.failedState
    err,          \* Actions.err is set
    inPool,       \* the load balancer holds the backend
    proc,         \* the endpoint's process: "old", "new", "partial" or "down"
    bin           \* the binary at Actions.dst: "old", "new" or "partial"

runVars  == <<of, fn, last, alone>>
hostVars == <<inPool, proc, bin>>
vars     == <<of, fn, last, alone, failedState, err, inPool, proc, bin>>

\* The workflow's precondition: every backend is in the pool and healthy.
Init ==
    /\ of = [g \in Goroutine |-> CHOOSE e \in Endpoint : TRUE]
    /\ fn = [g \in Goroutine |-> "idle"]
    /\ last = [g \in Goroutine |-> "none"]
    /\ alone = [g \in Goroutine |-> FALSE]
    /\ failedState = [e \in Endpoint |-> "nil"]
    /\ err = [e \in Endpoint |-> FALSE]
    /\ inPool = [e \in Endpoint |-> TRUE]
    /\ proc = [e \in Endpoint |-> "old"]
    /\ bin = [e \in Endpoint |-> "old"]

-----------------------------------------------------------------------------
(* The loop of Run.                                                        *)

UnderWay(e) == {g \in Goroutine : of[g] = e /\ fn[g] # "idle"}

Goto(g, f) ==
    /\ fn' = [fn EXCEPT ![g] = f]
    /\ UNCHANGED <<of, last, alone, failedState, err>>

\* An error ends Run.  The assignment fn, err = fn(ctx) comes first, and
\* every StateFn returns nil with its error: that nil is kept as failedState.
FailIn(g) ==
    /\ fn' = [fn EXCEPT ![g] = "idle"]
    /\ last' = [last EXCEPT ![g] = "failed"]
    /\ failedState' = [failedState EXCEPT ![of[g]] = "nil"]
    /\ err' = [err EXCEPT ![of[g]] = TRUE]
    /\ UNCHANGED <<of, alone>>

\* The last StateFn returns nil, nil: Run returns, and leaves err as it is.
Succeed(g) ==
    /\ fn' = [fn EXCEPT ![g] = "idle"]
    /\ last' = [last EXCEPT ![g] = "ok"]
    /\ UNCHANGED <<of, alone, failedState, err>>

Run(g, e) ==
    /\ fn[g] = "idle"
    /\ of' = [of EXCEPT ![g] = e]
    /\ fn' = [fn EXCEPT ![g] = IF failedState[e] = "nil" THEN "findAppLocal" ELSE failedState[e]]
    /\ alone' = [h \in Goroutine |-> IF h = g THEN UnderWay(e) = {} ELSE alone[h] /\ of[h] # e]
    /\ UNCHANGED <<last, failedState, err, hostVars>>

\* os.Open of the new binary fails: the run ends before any state.
RunCannotOpen(g, e) ==
    /\ fn[g] = "idle"
    /\ of' = [of EXCEPT ![g] = e]
    /\ last' = [last EXCEPT ![g] = "failed"]
    /\ alone' = [alone EXCEPT ![g] = FALSE]
    /\ err' = [err EXCEPT ![e] = TRUE]
    /\ UNCHANGED <<fn, failedState, hostVars>>

\* The context (10 minutes) has expired between two states; failedState keeps its value.
Expire(g) ==
    /\ fn[g] # "idle"
    /\ fn' = [fn EXCEPT ![g] = "idle"]
    /\ err' = [err EXCEPT ![of[g]] = TRUE]
    /\ last' = [last EXCEPT ![g] = "failed"]
    /\ UNCHANGED <<of, alone, failedState, hostVars>>

-----------------------------------------------------------------------------
(* The states.  Each may fail, with or without its effect.                 *)

InPool(g, b) == inPool' = [inPool EXCEPT ![of[g]] = b]
Proc(g, j)   == proc' = [proc EXCEPT ![of[g]] = j]
Bin(g, b)    == bin' = [bin EXCEPT ![of[g]] = b]
Lives(g)     == proc[of[g]] # "down"

\* The application itself is asked where it is installed.
FindAppLocal(g) ==
    /\ fn[g] = "findAppLocal"
    /\ \/ Lives(g) /\ Goto(g, "rmBackend")
       \/ FailIn(g)
    /\ UNCHANGED hostVars

RmBackend(g) ==
    /\ fn[g] = "rmBackend"
    /\ \/ Goto(g, "jobKill") /\ InPool(g, FALSE)
       \/ FailIn(g) /\ \E b \in {inPool[of[g]], FALSE} : InPool(g, b)
    /\ UNCHANGED <<proc, bin>>

\* Mistake: waitForDeath does not wait.
JobKillUnwaited(g) ==
    /\ fn[g] = "jobKill"
    /\ \/ Lives(g) /\ Goto(g, "cp") /\ UNCHANGED proc
       \/ FailIn(g) /\ \E j \in {proc[of[g]], "down"} : Proc(g, j)
    /\ UNCHANGED <<inPool, bin>>

\* SIGTERM and 30 seconds, then SIGKILL and 10.  No process is an error, and
\* so is one that SIGKILL no longer finds.
JobKill(g) ==
    /\ fn[g] = "jobKill"
    /\ \/ Lives(g) /\ Goto(g, "cp") /\ Proc(g, "down")
       \/ FailIn(g) /\ \E j \in {proc[of[g]], "down"} : Proc(g, j)
    /\ UNCHANGED <<inPool, bin>>

\* Mistake: an error of the copy is ignored.
CpUnchecked(g) ==
    /\ fn[g] = "cp"
    /\ \/ Goto(g, "jobStart") /\ \E b \in {"new", "partial"} : Bin(g, b)
       \/ FailIn(g) /\ \E b \in {bin[of[g]], "partial"} : Bin(g, b)
    /\ UNCHANGED <<inPool, proc>>

\* O_TRUNC before the copy: a failed copy leaves part of the file.  Two Runs at
\* once read one Actions.srcf, and each copies part of it.
Cp(g) ==
    /\ fn[g] = "cp"
    /\ \/ Goto(g, "jobStart") /\ Bin(g, "new")
       \/ ~alone[g] /\ Goto(g, "jobStart") /\ Bin(g, "partial")
       \/ FailIn(g) /\ \E b \in {bin[of[g]], "partial"} : Bin(g, b)
    /\ UNCHANGED <<inPool, proc>>

\* jobStart calls reachable in the same state: start, then wait for /healthz.
\* It may find another Run's process serving, or start what another Run is
\* truncating.
JobStart(g) ==
    /\ fn[g] = "jobStart"
    /\ \/ Goto(g, "addBackend") /\ Proc(g, bin[of[g]])
       \/ ~alone[g] /\ Lives(g) /\ Goto(g, "addBackend") /\ UNCHANGED proc
       \/ ~alone[g] /\ Goto(g, "addBackend") /\ Proc(g, "partial")
       \/ FailIn(g) /\ \E j \in {proc[of[g]], bin[of[g]]} : Proc(g, j)
    /\ UNCHANGED <<inPool, bin>>

\* Mistake: an error of the load balancer is ignored.
AddBackendUnchecked(g) ==
    /\ fn[g] = "addBackend"
    /\ Succeed(g)
    /\ \E b \in {inPool[of[g]], Lives(g)} : InPool(g, b)
    /\ UNCHANGED <<proc, bin>>

\* The load balancer refuses a backend that fails its health check.
AddBackend(g) ==
    /\ fn[g] = "addBackend"
    /\ \/ Lives(g) /\ Succeed(g) /\ InPool(g, TRUE)
       \/ FailIn(g) /\ \E b \in {inPool[of[g]], Lives(g)} : InPool(g, b)
    /\ UNCHANGED <<proc, bin>>

\* The endpoint's process dies by itself.
Crash(e) ==
    /\ proc[e] # "down"
    /\ proc' = [proc EXCEPT ![e] = "down"]
    /\ UNCHANGED <<runVars, failedState, err, inPool, bin>>

Step(g) == FindAppLocal(g) \/ RmBackend(g) \/ JobKill(g) \/ Cp(g) \/ JobStart(g)
             \/ AddBackend(g) \/ Expire(g)

Next ==
    \/ \E g \in Goroutine : Step(g) \/ \E e \in Endpoint : Run(g, e) \/ RunCannotOpen(g, e)
    \/ \E e \in Endpoint : Crash(e)

Spec == Init /\ [][Next]_vars

-----------------------------------------------------------------------------
(* Properties.                                                             *)

\* The type invariant.
TypeOK ==
    /\ of \in [Goroutine -> Endpoint]
    /\ fn \in [Goroutine -> StateFn \cup {"idle"}]
    /\ last \in [Goroutine -> {"none", "ok", "failed"}]
    /\ alone \in [Goroutine -> BOOLEAN]
    /\ failedState \in [Endpoint -> StateFn \cup {"nil"}]
    /\ err \in [Endpoint -> BOOLEAN]
    /\ inPool \in [Endpoint -> BOOLEAN]
    /\ proc \in [Endpoint -> {"old", "new", "partial", "down"}]
    /\ bin \in [Endpoint -> {"old", "new", "partial"}]

\* A backend that is out of the load balancer is being upgraded, or its
\* failure is reported by Err: no run drops a backend silently, wherever it
\* fails, however often it is retried and however many run it at once
\* (actions.go Run, workflow.go Status).
OutOfPoolIsReported ==
    \A e \in Endpoint : ~inPool[e] => UnderWay(e) # {} \/ err[e]

\* The file of an endpoint that may be serving is never being overwritten: the
\* copy of a Run that no other overlaps starts only after the backend has left
\* the pool and the old process is dead (rmBackend, jobKill, cp).
ReplacedOutOfService ==
    \A g \in Goroutine :
        alone[g] /\ fn[g] \in {"cp", "jobStart"} => ~inPool[of[g]] /\ proc[of[g]] = "down"

\* A Run that returned nil, and that no other overlapped, left the new binary
\* on the endpoint and the backend in the pool, after any sequence of failed
\* runs.
SuccessMeansUpgraded ==
    \A g \in Goroutine :
        alone[g] /\ fn[g] = "idle" /\ last[g] = "ok" => inPool[of[g]] /\ bin[of[g]] = "new"
=============================================================================
