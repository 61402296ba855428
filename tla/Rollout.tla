------------------------------ MODULE Rollout ------------------------------
(***************************************************************************)
(* The workflow with the actions it runs: module Workflow, whose step that  *)
(* ends an endpoint's Run is replaced by the steps of module Actions and    *)
(* their effect on the endpoint and on the load balancer's pool.            *)
(***************************************************************************)
EXTENDS Workflow

VARIABLES of, fn, last, alone, failedState, err, inPool, proc, bin

\* A goroutine of the workflow has the number of the endpoint it upgrades, a
\* canary's is main; one of RetryFailed has the number of its place in the list.
A == INSTANCE Actions WITH Endpoint <- Action, Goroutine <- Action

actionVars == <<of, fn, last, alone, failedState, err, inPool, proc, bin>>
allVars == <<vars, actionVars>>

RInit == Init /\ A!Init

\* A goroutine of the workflow calls Run of an endpoint.
Calls(g, a) ==
    \/ i = a /\ g = a /\ (CanaryStart \/ CheckStart)
    \/ i < Cardinality(queue) /\ Nth(queue, i) = a /\ RetryStart(g)

RunStarts(g) == \E a \in Action : Calls(g, a) /\ A!Run(g, a)

\* Run returns at once when the binary to push cannot be opened.  The end is
\* the workflow's next step.
RunStartsAndFails(g) == \E a \in Action : Calls(g, a) /\ A!RunCannotOpen(g, a)

\* The goroutine takes the value that Run returned.
RunEnds(g) ==
    /\ fn[g] = "idle"
    /\ \/ i = g /\ CanaryEnd(last[g] = "ok")
       \/ JobEnd(g, last[g] = "ok")
       \/ RetryEnd(g, last[g] = "ok")
    /\ UNCHANGED actionVars

\* A retry's goroutine that reads i when the loop is over.
RetryOutOfRange(g) == i >= Cardinality(queue) /\ RetryStart(g)

RNext ==
    /\ ~Ended
    /\ \/ \E g \in Action :
            \/ RunStarts(g) \/ RunStartsAndFails(g) \/ RunEnds(g)
            \/ (A!Step(g) \/ A!Crash(g)) /\ UNCHANGED vars
            \/ (JobCount(g) \/ JobDone(g) \/ JobRelease(g) \/ RetryOutOfRange(g)) /\ UNCHANGED actionVars
       \/ /\ \/ \E ok \in BOOLEAN : Precondition(ok)
             \/ CanariesDone \/ TakeToken \/ CheckBreak \/ LoopDone \/ Waited
             \/ MainAfterRun \/ RetryBegin \/ MainDone \/ RetrySpawn \/ RetryAdvance \/ RetryWaited
          /\ UNCHANGED actionVars

RSpec == RInit /\ [][RNext]_allVars

-----------------------------------------------------------------------------
(* Properties.                                                             *)

OutOfPool == {a \in Action : ~inPool[a]}

\* A rollout, whatever fails in it and at whatever point, leaves at most
\* MaxFailures + Concurrency backends out of the load balancer, and at most
\* one while only canaries have been touched; the retries take out no more
\* (workflow.go Run, RetryFailed, actions.go).
CapacityKept ==
    /\ Cardinality(OutOfPool) <= MaxFailures + Concurrency
    /\ OutOfPool \subseteq Canaries => Cardinality(OutOfPool) <= 1

\* When the program exits, every backend that is out of the pool is one that
\* Status().Failures lists, however often it was retried.
NothingLeftBehind ==
    pc = "exit" => OutOfPool \subseteq Failed

\* What every Run of an endpoint keeps to (module Actions) until another Run of
\* it begins: retries that read one index late run one endpoint together.
ReplacedOutOfService == A!ReplacedOutOfService
SuccessMeansUpgraded == A!SuccessMeansUpgraded
=============================================================================
