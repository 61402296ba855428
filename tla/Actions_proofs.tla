--------------------------- MODULE Actions_proofs ---------------------------
(***************************************************************************)
(* Proofs about the actions of a rollout, for any endpoints, any number of *)
(* goroutines that run them, also at once, and any number of runs.         *)
(***************************************************************************)
EXTENDS Actions, TLAPS

-----------------------------------------------------------------------------
(* What each state of the chain may rely on.                               *)

\* Every StateFn returns nil with its error, so that a Run never starts in the
\* middle of the chain (actions.go Run, failedState).
StartsOver == failedState = [e \in Endpoint |-> "nil"]

\* A Run that is alone on its endpoint, as long as it is.
Undisturbed ==
    \A g, h \in Goroutine : g # h /\ alone[g] /\ of[h] = of[g] => fn[h] = "idle"

\* What such a Run may rely on: from rmBackend to addBackend the backend is out
\* of the pool, from jobKill to jobStart the process is dead, after cp the binary
\* is the new one, and a success has left it so, with the backend in the pool.
Fine(g) ==
    alone[g] =>
        /\ fn[g] \in {"jobKill", "cp", "jobStart"} => ~inPool[of[g]]
        /\ fn[g] \in {"cp", "jobStart"} => proc[of[g]] = "down"
        /\ fn[g] \in {"jobStart", "addBackend"} => bin[of[g]] = "new"
        /\ fn[g] = "idle" /\ last[g] = "ok" => inPool[of[g]] /\ bin[of[g]] = "new"

\* Every Run's success, alone or not, leaves a backend that is in the pool or
\* reported, or in the hands of another Run.
Reported(e) == ~inPool[e] => err[e] \/ \E g \in Goroutine : of[g] = e /\ fn[g] # "idle"

IInv == TypeOK /\ StartsOver /\ Undisturbed /\ (\A g \in Goroutine : Fine(g))
        /\ (\A e \in Endpoint : Reported(e))

-----------------------------------------------------------------------------
(* The steps.                                                              *)

\* Run begins at the first state, with the backend, the process and the binary
\* as the run before has left them; whoever was alone on the endpoint is not
\* any more.
LEMMA RunKeeps ==
    ASSUME IInv, NEW g \in Goroutine, NEW e \in Endpoint, Run(g, e) \/ RunCannotOpen(g, e)
    PROVE  IInv'
<1>1. TypeOK /\ failedState[e] = "nil" /\ StartsOver /\ Undisturbed
  BY DEF IInv, StartsOver
<1>2. CASE Run(g, e)
  <2>1. /\ of' = [of EXCEPT ![g] = e] /\ fn' = [fn EXCEPT ![g] = "findAppLocal"] /\ fn[g] = "idle"
        /\ alone' = [h \in Goroutine |-> IF h = g THEN UnderWay(e) = {} ELSE alone[h] /\ of[h] # e]
        /\ UNCHANGED <<last, failedState, err, inPool, proc, bin>>
    BY <1>1, <1>2 DEF Run, hostVars
  <2>2. ASSUME NEW h \in Goroutine
        PROVE  /\ h = g => of'[h] = e /\ fn'[h] = "findAppLocal"
               /\ h # g => of'[h] = of[h] /\ fn'[h] = fn[h]
    BY <1>1, <2>1 DEF TypeOK
  <2>3. ASSUME NEW h \in Goroutine
        PROVE  /\ alone'[h] \in BOOLEAN
               /\ h # g /\ alone'[h] => alone[h] /\ of[h] # e
    BY <1>1, <2>1 DEF TypeOK
  <2>4. alone'[g] => UnderWay(e) = {}
    BY <2>1
  <2>5. TypeOK'
    <3>1. alone' \in [Goroutine -> BOOLEAN]
      BY <2>1, <2>3
    <3> QED
      BY <1>1, <2>1, <3>1 DEF TypeOK, StateFn
  <2>6. Undisturbed'
    <3> SUFFICES ASSUME NEW k \in Goroutine, NEW h \in Goroutine, k # h, alone'[k], of'[h] = of'[k]
                 PROVE  fn'[h] = "idle"
      BY DEF Undisturbed
    <3>1. CASE k = g
      BY <2>2, <2>4, <3>1 DEF UnderWay
    <3>2. CASE k # g
      BY <1>1, <2>2, <2>3, <3>2 DEF Undisturbed
    <3> QED
      BY <3>1, <3>2
  <2>7. ASSUME NEW h \in Goroutine PROVE Fine(h)'
    <3>1. h # g /\ alone'[h] => alone[h] /\ UNCHANGED <<of[h], fn[h], last[h], inPool, proc, bin>>
      BY <2>1, <2>2, <2>3
    <3>2. Fine(h)
      BY DEF IInv
    <3> QED
      BY <2>2, <3>1, <3>2 DEF Fine
  <2>8. ASSUME NEW d \in Endpoint PROVE Reported(d)'
    <3>1. Reported(d)
      BY DEF IInv
    <3> QED
      BY <2>1, <2>2, <3>1 DEF Reported
  <2> QED
    BY <1>1, <2>1, <2>5, <2>6, <2>7, <2>8 DEF IInv, StartsOver
<1>3. CASE RunCannotOpen(g, e)
  <2>1. /\ of' = [of EXCEPT ![g] = e] /\ alone' = [alone EXCEPT ![g] = FALSE] /\ fn[g] = "idle"
        /\ last' = [last EXCEPT ![g] = "failed"] /\ err' = [err EXCEPT ![e] = TRUE]
        /\ UNCHANGED <<fn, failedState, inPool, proc, bin>>
    BY <1>3 DEF RunCannotOpen, hostVars
  <2>2. TypeOK'
    BY <1>1, <2>1 DEF TypeOK
  <2>3. ASSUME NEW h \in Goroutine, h # g
        PROVE  of'[h] = of[h] /\ last'[h] = last[h] /\ alone'[h] = alone[h]
    <3>1. of'[h] = of[h] /\ last'[h] = last[h]
      BY <1>1, <2>1, <2>3 DEF TypeOK
    <3>2. alone'[h] = alone[h]
      BY <1>1, <2>1, <2>3, Zenon DEF TypeOK
    <3> QED
      BY <3>1, <3>2
  <2>4. ~alone'[g]
    BY <1>1, <2>1 DEF TypeOK
  <2>5. Undisturbed'
    BY <1>1, <2>1, <2>3, <2>4 DEF Undisturbed
  <2>6. ASSUME NEW h \in Goroutine PROVE Fine(h)'
    BY <2>1, <2>3, <2>4 DEF IInv, Fine
  <2>7. ASSUME NEW d \in Endpoint PROVE Reported(d)'
    <3>1. Reported(d) /\ (err[d] => err'[d])
      BY <1>1, <2>1 DEF IInv, TypeOK
    <3> QED
      BY <2>1, <2>3, <3>1 DEF Reported
  <2> QED
    BY <1>1, <2>1, <2>2, <2>5, <2>6, <2>7 DEF IInv, StartsOver
<1> QED
  BY <1>2, <1>3

\* The host of a Run: what a step of it may change.
Touches(g) ==
    /\ inPool' \in [Endpoint -> BOOLEAN]
    /\ proc' \in [Endpoint -> {"old", "new", "partial", "down"}]
    /\ bin' \in [Endpoint -> {"old", "new", "partial"}]
    /\ \A d \in Endpoint : d # of[g] => inPool'[d] = inPool[d] /\ proc'[d] = proc[d] /\ bin'[d] = bin[d]

\* A step of one Run is none of any Run that is alone.
LEMMA OthersFine ==
    ASSUME IInv, NEW g \in Goroutine, fn[g] # "idle", Touches(g), UNCHANGED <<of, alone>>,
           fn' \in [Goroutine -> StateFn \cup {"idle"}],
           \A h \in Goroutine : h # g => fn'[h] = fn[h] /\ last'[h] = last[h],
           NEW h \in Goroutine, h # g
    PROVE  Fine(h)'
<1>1. Fine(h) /\ of[h] \in Endpoint /\ (alone[h] => of[g] # of[h])
  BY DEF IInv, Undisturbed, TypeOK
<1> QED
  BY <1>1 DEF Fine, Touches

LEMMA OthersUndisturbed ==
    ASSUME IInv, NEW g \in Goroutine, fn[g] # "idle", UNCHANGED <<of, alone>>,
           \A h \in Goroutine : h # g => fn'[h] = fn[h]
    PROVE  Undisturbed'
BY DEF IInv, Undisturbed

\* What is left of a Run that fails in a state: an error that is never cleared,
\* and the host as the state left it.
LEMMA FailKeeps ==
    ASSUME IInv, NEW g \in Goroutine, fn[g] # "idle", FailIn(g) \/ Expire(g), Touches(g)
    PROVE  IInv'
<1>1. TypeOK /\ StartsOver /\ of[g] \in Endpoint
  BY DEF IInv, TypeOK
<1>2. /\ fn' = [fn EXCEPT ![g] = "idle"] /\ err' = [err EXCEPT ![of[g]] = TRUE]
      /\ last' = [last EXCEPT ![g] = "failed"] /\ UNCHANGED <<of, alone>> /\ StartsOver'
  BY <1>1 DEF FailIn, Expire, StartsOver
<1>3. TypeOK'
  BY <1>1, <1>2 DEF TypeOK, Touches, StartsOver
<1>4. \A h \in Goroutine : h # g => fn'[h] = fn[h] /\ last'[h] = last[h]
  BY <1>1, <1>2 DEF TypeOK
<1>5. ASSUME NEW h \in Goroutine PROVE Fine(h)'
  <2>1. CASE h # g
    BY <1>2, <1>3, <1>4, <2>1, OthersFine DEF TypeOK
  <2>2. CASE h = g
    BY <1>1, <1>2, <2>2 DEF Fine, TypeOK
  <2> QED
    BY <2>1, <2>2
<1>6. ASSUME NEW d \in Endpoint PROVE Reported(d)'
  <2>1. CASE d = of[g]
    BY <1>1, <1>2, <2>1 DEF Reported, TypeOK
  <2>2. CASE d # of[g]
    <3>1. Reported(d) /\ inPool'[d] = inPool[d] /\ err'[d] = err[d]
      BY <1>1, <1>2, <2>2 DEF IInv, Touches, TypeOK
    <3> QED
      BY <1>2, <1>4, <2>2, <3>1 DEF Reported
  <2> QED
    BY <2>1, <2>2
<1> QED
  BY <1>2, <1>3, <1>4, <1>5, <1>6, OthersUndisturbed DEF IInv

LEMMA GoesOn ==
    ASSUME IInv, NEW g \in Goroutine, Touches(g), Fine(g)',
           \/ \E f \in StateFn : fn[g] # "idle" /\ Goto(g, f)
           \/ fn[g] # "idle" /\ Succeed(g) /\ inPool'[of[g]]
    PROVE  IInv'
<1>1. TypeOK /\ StartsOver /\ of[g] \in Endpoint
  BY DEF IInv, TypeOK
<1>2. /\ UNCHANGED <<of, alone, failedState, err>>
      /\ fn' \in [Goroutine -> StateFn \cup {"idle"}]
      /\ last' \in [Goroutine -> {"none", "ok", "failed"}]
      /\ \A h \in Goroutine : h # g => fn'[h] = fn[h] /\ last'[h] = last[h]
      /\ fn'[g] # "idle" \/ inPool'[of[g]]
  <2>1. CASE \E f \in StateFn : Goto(g, f)
    <3>1. PICK f \in StateFn : Goto(g, f)
      BY <2>1
    <3>2. f # "idle"
      BY DEF StateFn
    <3> QED
      BY <1>1, <3>1, <3>2 DEF Goto, TypeOK
  <2>2. CASE Succeed(g) /\ inPool'[of[g]]
    BY <1>1, <2>2 DEF Succeed, TypeOK
  <2> QED
    BY <2>1, <2>2
<1>3. fn[g] # "idle"
  OBVIOUS
<1>4. TypeOK' /\ StartsOver'
  BY <1>1, <1>2 DEF TypeOK, StartsOver, Touches
<1>5. ASSUME NEW h \in Goroutine PROVE Fine(h)'
  BY <1>2, <1>3, OthersFine
<1>6. ASSUME NEW d \in Endpoint PROVE Reported(d)'
  <2>1. CASE d = of[g]
    BY <1>2, <2>1 DEF Reported
  <2>2. CASE d # of[g]
    <3>1. Reported(d) /\ inPool'[d] = inPool[d]
      BY <2>2 DEF IInv, Touches
    <3> QED
      BY <1>2, <2>2, <3>1 DEF Reported
  <2> QED
    BY <2>1, <2>2
<1> QED
  BY <1>2, <1>3, <1>4, <1>5, <1>6, OthersUndisturbed DEF IInv

\* What each state may touch.
LEMMA StatesTouch ==
    ASSUME TypeOK, NEW g \in Goroutine,
           \/ FindAppLocal(g) \/ RmBackend(g) \/ JobKill(g) \/ Cp(g) \/ JobStart(g) \/ AddBackend(g) \/ Expire(g)
    PROVE  Touches(g)
<1>1. of[g] \in Endpoint
  BY DEF TypeOK
<1>2. inPool' \in [Endpoint -> BOOLEAN] /\ \A d \in Endpoint : d # of[g] => inPool'[d] = inPool[d]
  <2>1. CASE UNCHANGED inPool
    BY <2>1 DEF TypeOK
  <2>2. CASE RmBackend(g) \/ AddBackend(g)
    <3>1. inPool[of[g]] \in BOOLEAN /\ Lives(g) \in BOOLEAN
      BY <1>1 DEF TypeOK, Lives
    <3>2. \E b \in BOOLEAN : InPool(g, b)
      BY <2>2, <3>1 DEF RmBackend, AddBackend
    <3>3. PICK b \in BOOLEAN : inPool' = [inPool EXCEPT ![of[g]] = b]
      BY <3>2 DEF InPool
    <3> QED
      BY <1>1, <3>3 DEF TypeOK
  <2> QED
    BY <2>1, <2>2 DEF FindAppLocal, JobKill, Cp, JobStart, Expire, hostVars
<1>3. /\ proc' \in [Endpoint -> {"old", "new", "partial", "down"}]
      /\ \A d \in Endpoint : d # of[g] => proc'[d] = proc[d]
  <2>1. CASE UNCHANGED proc
    BY <2>1 DEF TypeOK
  <2>2. CASE JobKill(g) \/ JobStart(g)
    <3>1. proc[of[g]] \in {"old", "new", "partial", "down"} /\ bin[of[g]] \in {"old", "new", "partial"}
      BY <1>1 DEF TypeOK
    <3>2. UNCHANGED proc \/ \E j \in {"old", "new", "partial", "down"} : Proc(g, j)
      BY <2>2, <3>1 DEF JobKill, JobStart
    <3> QED
      BY <1>1, <2>1, <3>2 DEF TypeOK, Proc
  <2> QED
    BY <2>1, <2>2 DEF FindAppLocal, RmBackend, Cp, AddBackend, Expire, hostVars
<1>4. /\ bin' \in [Endpoint -> {"old", "new", "partial"}]
      /\ \A d \in Endpoint : d # of[g] => bin'[d] = bin[d]
  <2>1. CASE UNCHANGED bin
    BY <2>1 DEF TypeOK
  <2>2. CASE Cp(g)
    <3>1. bin[of[g]] \in {"old", "new", "partial"}
      BY <1>1 DEF TypeOK
    <3>2. \E b \in {"old", "new", "partial"} : Bin(g, b)
      BY <2>2, <3>1 DEF Cp
    <3> QED
      BY <1>1, <3>2 DEF TypeOK, Bin
  <2> QED
    BY <2>1, <2>2 DEF FindAppLocal, RmBackend, JobKill, JobStart, AddBackend, Expire, hostVars
<1> QED
  BY <1>2, <1>3, <1>4 DEF Touches

\* A state of the chain that goes on to the next one, or to the end.
LEMMA ChainKeeps ==
    ASSUME IInv, NEW g \in Goroutine,
           \/ FindAppLocal(g) \/ RmBackend(g) \/ JobKill(g) \/ Cp(g) \/ JobStart(g) \/ AddBackend(g)
    PROVE  IInv'
<1>1. TypeOK /\ Fine(g) /\ Touches(g) /\ fn[g] # "idle" /\ of[g] \in Endpoint
  BY StatesTouch DEF IInv, TypeOK, FindAppLocal, RmBackend, JobKill, Cp, JobStart, AddBackend
<1>2. CASE FailIn(g)
  BY <1>1, <1>2, FailKeeps
<1>3. CASE ~FailIn(g)
  <2>1. \/ \E f \in StateFn : Goto(g, f)
        \/ Succeed(g) /\ inPool'[of[g]]
    <3>1. CASE AddBackend(g)
      BY <1>1, <1>3, <3>1 DEF AddBackend, InPool, TypeOK
    <3>2. CASE ~AddBackend(g)
      BY <1>3, <3>2 DEF FindAppLocal, RmBackend, JobKill, Cp, JobStart, StateFn
    <3> QED
      BY <3>1, <3>2
  <2>2. Fine(g)'
    <3>1. CASE FindAppLocal(g)
      BY <1>1, <1>3, <3>1 DEF TypeOK, Fine, FindAppLocal, Goto, hostVars
    <3>2. CASE RmBackend(g)
      BY <1>1, <1>3, <3>2 DEF TypeOK, Fine, RmBackend, Goto, InPool
    <3>3. CASE JobKill(g)
      BY <1>1, <1>3, <3>3 DEF TypeOK, Fine, JobKill, Goto, Proc
    <3>4. CASE Cp(g)
      BY <1>1, <1>3, <3>4 DEF TypeOK, Fine, Cp, Goto, Bin
    <3>5. CASE JobStart(g)
      BY <1>1, <1>3, <3>5 DEF TypeOK, Fine, JobStart, Goto, Proc
    <3>6. CASE AddBackend(g)
      BY <1>1, <1>3, <3>6 DEF TypeOK, Fine, AddBackend, Succeed, InPool
    <3> QED
      BY <3>1, <3>2, <3>3, <3>4, <3>5, <3>6
  <2> QED
    BY <1>1, <2>1, <2>2, GoesOn
<1> QED
  BY <1>2, <1>3

\* The deadline passes.
LEMMA ExpiryKeeps ==
    ASSUME IInv, NEW g \in Goroutine, Expire(g)
    PROVE  IInv'
BY StatesTouch, FailKeeps DEF IInv, Expire

\* The application dies by itself.
LEMMA CrashKeeps ==
    ASSUME IInv, NEW e \in Endpoint, Crash(e)
    PROVE  IInv'
<1>1. TypeOK /\ UNCHANGED <<of, fn, last, alone, failedState, err, inPool, bin>>
      /\ proc' = [proc EXCEPT ![e] = "down"]
  BY DEF IInv, Crash, runVars
<1>2. TypeOK' /\ StartsOver' /\ Undisturbed' /\ \A d \in Endpoint : Reported(d)'
  BY <1>1 DEF IInv, TypeOK, StartsOver, Undisturbed, Reported
<1>3. ASSUME NEW g \in Goroutine PROVE Fine(g)'
  <2>1. Fine(g) /\ (proc[of[g]] = "down" => proc'[of[g]] = "down")
    BY <1>1 DEF IInv, TypeOK
  <2> QED
    BY <1>1, <2>1 DEF Fine
<1> QED
  BY <1>2, <1>3 DEF IInv

\* Any number of runs, failures, deadlines and crashes keep the invariant.
LEMMA IInvInit == ASSUME Endpoint # {} PROVE Init => IInv
<1> SUFFICES ASSUME Init PROVE IInv
  OBVIOUS
<1>1. (CHOOSE e \in Endpoint : TRUE) \in Endpoint
  OBVIOUS
<1> QED
  BY <1>1 DEF Init, IInv, TypeOK, StateFn, StartsOver, Undisturbed, Fine, Reported

LEMMA IInvStep == IInv /\ [Next]_vars => IInv'
<1> SUFFICES ASSUME IInv, [Next]_vars PROVE IInv'
  OBVIOUS
<1>1. CASE UNCHANGED vars
  BY <1>1 DEF vars, IInv, TypeOK, StartsOver, Undisturbed, Fine, Reported
<1>2. CASE Next
  BY <1>2, RunKeeps, ChainKeeps, ExpiryKeeps, CrashKeeps DEF Next, Step
<1> QED
  BY <1>1, <1>2

LEMMA IInvInvariant == ASSUME Endpoint # {} PROVE Spec => []IInv
BY IInvInit, IInvStep, PTL DEF Spec

-----------------------------------------------------------------------------
(* The theorems.                                                           *)

\* The state of the endpoints keeps its types; a Run always starts with
\* findAppLocal.
THEOREM TypeCorrect == ASSUME Endpoint # {} PROVE Spec => [](TypeOK /\ StartsOver)
<1>1. IInv => TypeOK /\ StartsOver
  BY DEF IInv
<1> QED
  BY <1>1, IInvInvariant, PTL

\* No run drops a backend from the load balancer silently, however many runs
\* fail and wherever, and also when several run one endpoint at once (actions.go
\* Run, Err).
THEOREM DropsAreReported == ASSUME Endpoint # {} PROVE Spec => []OutOfPoolIsReported
<1>1. IInv => OutOfPoolIsReported
  BY DEF IInv, Reported, OutOfPoolIsReported, UnderWay
<1> QED
  BY <1>1, IInvInvariant, PTL

\* A Run that no other overlaps overwrites the binary only while its backend is
\* out of the pool and its process is dead (rmBackend, jobKill, cp).
THEOREM ReplacedWhileOut == ASSUME Endpoint # {} PROVE Spec => []ReplacedOutOfService
<1>1. IInv => ReplacedOutOfService
  BY DEF IInv, Fine, ReplacedOutOfService
<1> QED
  BY <1>1, IInvInvariant, PTL

\* A Run that returned nil, and that no other overlapped, left the new binary
\* and put the backend back.
THEOREM SuccessIsHonest == ASSUME Endpoint # {} PROVE Spec => []SuccessMeansUpgraded
<1>1. IInv => SuccessMeansUpgraded
  BY DEF IInv, Fine, SuccessMeansUpgraded
<1> QED
  BY <1>1, IInvInvariant, PTL
=============================================================================
