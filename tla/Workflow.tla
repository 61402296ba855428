------------------------------ MODULE Workflow ------------------------------
(***************************************************************************)
(* The rollout workflow (orchestration/workflow/workflow.go) and the retry *)
(* loop of its main program (orchestration/orchestration.go): a check of   *)
(* the load balancer, canaries one at a time, the other endpoints with     *)
(* limited concurrency until too many have failed, then up to three        *)
(* retries of the failed ones.                                             *)
(*                                                                         *)
(* The actions of one endpoint are a single step here, that succeeds or    *)
(* fails; module Rollout replaces it by the steps of Actions.              *)
(***************************************************************************)
EXTENDS Integers, FiniteSets

CONSTANTS
    N,            \* len(w.actions), at least one: config.Validate
    CanaryNum,    \* Config.CanaryNum
    Concurrency,  \* Config.Concurrency, at least one: config.Validate
    MaxFailures,  \* Config.MaxFailures
    Retries       \* how often main calls RetryFailed: 3

ASSUME ConfigAssumption ==
    /\ N \in Nat \ {0}
    /\ CanaryNum \in Nat          \* a negative one would index w.actions out of range
    /\ Concurrency \in Nat \ {0}
    /\ MaxFailures \in Nat
    /\ Retries \in Nat

Action   == 0 .. (N - 1)                     \* indices of w.actions
Canaries == {a \in Action : a < CanaryNum}

EndState == {"ESUnknown", "ESSuccess", "ESPreconditionFailure", "ESCanaryFailure", "ESMaxFailures"}

VARIABLES
    pc,        \* where the main goroutine is
    i,         \* the loop variable of Run's two loops, then of RetryFailed's
    tokens,    \* entries in the channel "limit"
    failures,  \* Workflow.failures
    endState,  \* Workflow.endState
    act,       \* what has become of each Actions: its last Run, and Actions.err
    job,       \* the goroutine Run started for an action
    queue,     \* ws.Failures, the list RetryFailed walks
    retry,     \* the goroutine RetryFailed started for each place of that list
    round      \* calls of RetryFailed so far

workVars  == <<pc, i, tokens, failures, endState, job>>
retryVars == <<queue, retry, round>>
vars == <<pc, i, tokens, failures, endState, act, job, queue, retry, round>>

Init ==
    /\ pc = "precondition"
    /\ i = 0
    /\ tokens = 0
    /\ failures = 0
    /\ endState = "ESUnknown"
    /\ act = [a \in Action |-> [last |-> "none", err |-> "nil", runs |-> 0]]
    /\ job = [a \in Action |-> "none"]
    /\ queue = {}
    /\ retry = [k \in Action |-> [pc |-> "none"]]
    /\ round = 0

-----------------------------------------------------------------------------
(* Actions.Run, seen from outside: "runs" counts the Runs under way.  A     *)
(* failed Run sets Actions.err; nothing ever clears it.                    *)

Begins(a) == act' = [act EXCEPT ![a].runs = @ + 1]

Ends(a, ok) ==
    act' = [act EXCEPT ![a] = [last |-> IF ok THEN "ok" ELSE "failed",
                               err  |-> IF ok THEN @.err ELSE "set",
                               runs |-> @.runs - 1]]

-----------------------------------------------------------------------------
(* Run.                                                                    *)

Precondition(ok) ==
    /\ pc = "precondition"
    /\ IF ok
       THEN pc' = "canary" /\ UNCHANGED endState
       ELSE pc' = "returned" /\ endState' = "ESPreconditionFailure"
    /\ UNCHANGED <<i, tokens, failures, act, job, retryVars>>

CanaryStart ==
    /\ pc = "canary" /\ i < N /\ i < CanaryNum
    /\ Begins(i)
    /\ pc' = "canaryRun"
    /\ UNCHANGED <<i, tokens, failures, endState, job, retryVars>>

\* Mistake: a failed canary does not stop the workflow.
CanaryEndGoesOn(ok) ==
    /\ pc = "canaryRun"
    /\ Ends(i, ok)
    /\ pc' = "canary" /\ i' = i + 1
    /\ UNCHANGED <<tokens, failures, endState, job, retryVars>>

CanaryEnd(ok) ==
    /\ pc = "canaryRun"
    /\ Ends(i, ok)
    /\ IF ok
       THEN pc' = "canary" /\ i' = i + 1 /\ UNCHANGED endState
       ELSE pc' = "returned" /\ endState' = "ESCanaryFailure" /\ UNCHANGED i
    /\ UNCHANGED <<tokens, failures, job, retryVars>>

\* The second loop starts at CanaryNum, which may be past the end.
CanariesDone ==
    /\ pc = "canary" /\ ~(i < N /\ i < CanaryNum)
    /\ i' = CanaryNum
    /\ pc' = "loop"
    /\ UNCHANGED <<tokens, failures, endState, act, job, retryVars>>

\* limit <- struct{}{} blocks while the channel is full.
TakeToken ==
    /\ pc = "loop" /\ i < N
    /\ tokens < Concurrency
    /\ tokens' = tokens + 1
    /\ pc' = "check"
    /\ UNCHANGED <<i, failures, endState, act, job, retryVars>>

\* Mistake: one failure too many is let through.
TooManyFailuresLate == failures > MaxFailures + 1

TooManyFailures == failures > MaxFailures

\* break keeps the token just taken.
CheckBreak ==
    /\ pc = "check" /\ TooManyFailures
    /\ pc' = "wait"
    /\ UNCHANGED <<i, tokens, failures, endState, act, job, retryVars>>

CheckStart ==
    /\ pc = "check" /\ ~TooManyFailures
    /\ job' = [job EXCEPT ![i] = "run"]
    /\ Begins(i)
    /\ i' = i + 1
    /\ pc' = "loop"
    /\ UNCHANGED <<tokens, failures, endState, retryVars>>

LoopDone ==
    /\ pc = "loop" /\ i >= N
    /\ pc' = "wait"
    /\ UNCHANGED <<i, tokens, failures, endState, act, job, retryVars>>

\* Mistake: wg.Wait is forgotten.
WaitedForNobody ==
    /\ pc = "wait"
    /\ pc' = "returned"
    /\ endState' = IF TooManyFailures THEN "ESMaxFailures" ELSE "ESSuccess"
    /\ UNCHANGED <<i, tokens, failures, act, job, retryVars>>

\* wg.Wait: every goroutine has called wg.Done; some may still hold a token.
Waited ==
    /\ pc = "wait"
    /\ \A a \in Action : job[a] \in {"none", "release", "end"}
    /\ pc' = "returned"
    /\ endState' = IF TooManyFailures THEN "ESMaxFailures" ELSE "ESSuccess"
    /\ UNCHANGED <<i, tokens, failures, act, job, retryVars>>

JobEnd(a, ok) ==
    /\ job[a] = "run"
    /\ Ends(a, ok)
    /\ job' = [job EXCEPT ![a] = IF ok THEN "done" ELSE "count"]
    /\ UNCHANGED <<pc, i, tokens, failures, endState, retryVars>>

\* Mistake: a goroutine that counts a failure keeps its token.
JobCountLeaks(a) ==
    /\ job[a] = "count"
    /\ failures' = failures + 1
    /\ job' = [job EXCEPT ![a] = "end"]
    /\ UNCHANGED <<pc, i, tokens, endState, act, retryVars>>

JobCount(a) ==
    /\ job[a] = "count"
    /\ failures' = failures + 1
    /\ job' = [job EXCEPT ![a] = "done"]
    /\ UNCHANGED <<pc, i, tokens, endState, act, retryVars>>

\* The deferred calls run last in, first out: wg.Done, then <-limit.
JobDone(a) ==
    /\ job[a] = "done"
    /\ job' = [job EXCEPT ![a] = "release"]
    /\ UNCHANGED <<pc, i, tokens, failures, endState, act, retryVars>>

JobRelease(a) ==
    /\ job[a] = "release"
    /\ tokens' = tokens - 1
    /\ job' = [job EXCEPT ![a] = "end"]
    /\ UNCHANGED <<pc, i, failures, endState, act, retryVars>>

-----------------------------------------------------------------------------
(* main after Run, and RetryFailed.                                        *)

\* Mistake: every endpoint is listed.
FailedOrNot == Action

Failed == {a \in Action : act[a].err = "set"}      \* Status().Failures, in order of index

\* The k-th of a set of indices, counting from 0 as the slice does.
Nth(S, k) == CHOOSE a \in S : Cardinality({b \in S : b < a}) = k

\* An error or no failure ends the program; otherwise main retries.
MainAfterRun ==
    /\ pc = "returned"
    /\ pc' = IF endState = "ESSuccess" /\ Failed # {} THEN "main" ELSE "exit"
    /\ UNCHANGED <<i, tokens, failures, endState, act, job, retryVars>>

RetryBegin ==
    /\ pc = "main" /\ round < Retries /\ Failed # {}
    /\ round' = round + 1
    /\ queue' = Failed
    /\ i' = 0
    /\ pc' = "spawn"
    /\ UNCHANGED <<tokens, failures, endState, act, job, retry>>

MainDone ==
    /\ pc = "main" /\ ~(round < Retries /\ Failed # {})
    /\ pc' = "exit"
    /\ UNCHANGED <<i, tokens, failures, endState, act, job, retryVars>>

\* The goroutines are started with no limit, and all close over the one i.
RetrySpawn ==
    /\ pc = "spawn"
    /\ IF i < Cardinality(queue)
       THEN retry' = [retry EXCEPT ![i] = [pc |-> "read"]] /\ pc' = "advance"
       ELSE pc' = "retryWait" /\ UNCHANGED retry
    /\ UNCHANGED <<i, tokens, failures, endState, act, job, queue, round>>

RetryAdvance ==
    /\ pc = "advance"
    /\ i' = i + 1
    /\ pc' = "spawn"
    /\ UNCHANGED <<tokens, failures, endState, act, job, retryVars>>

\* ws.Failures[i], with the value i has by then (Go 1.21 loop variables); an
\* index past the end panics and ends the process.
RetryStart(k) ==
    /\ retry[k].pc = "read"
    /\ IF i < Cardinality(queue)
       THEN /\ Begins(Nth(queue, i))
            /\ retry' = [retry EXCEPT ![k] = [pc |-> "run", of |-> Nth(queue, i)]]
            /\ UNCHANGED pc
       ELSE pc' = "panic" /\ UNCHANGED <<act, retry>>
    /\ UNCHANGED <<i, tokens, failures, endState, job, queue, round>>

RetryEnd(k, ok) ==
    /\ retry[k].pc = "run"
    /\ Ends(retry[k].of, ok)
    /\ failures' = IF ok THEN failures - 1 ELSE failures
    /\ retry' = [retry EXCEPT ![k] = [pc |-> "end"]]
    /\ UNCHANGED <<pc, i, tokens, endState, job, queue, round>>

RetryWaited ==
    /\ pc = "retryWait"
    /\ \A k \in Action : retry[k].pc \in {"none", "end"}
    /\ retry' = [k \in Action |-> [pc |-> "none"]]
    /\ pc' = "main"
    /\ UNCHANGED <<i, tokens, failures, endState, act, job, queue, round>>

-----------------------------------------------------------------------------
MainStep ==
    \/ \E ok \in BOOLEAN : Precondition(ok) \/ CanaryEnd(ok)
    \/ CanaryStart \/ CanariesDone \/ TakeToken \/ CheckBreak \/ CheckStart \/ LoopDone \/ Waited
    \/ MainAfterRun \/ RetryBegin \/ MainDone \/ RetrySpawn \/ RetryAdvance \/ RetryWaited

JobStep(a) == (\E ok \in BOOLEAN : JobEnd(a, ok)) \/ JobCount(a) \/ JobDone(a) \/ JobRelease(a)

RetryStep(k) == RetryStart(k) \/ \E ok \in BOOLEAN : RetryEnd(k, ok)

\* os.Exit and a panic end every goroutine.
Ended == pc \in {"exit", "panic"}

Next ==
    /\ ~Ended
    /\ MainStep \/ \E a \in Action : JobStep(a) \/ RetryStep(a)

Spec == Init /\ [][Next]_vars

\* The scheduler runs every goroutine, and a Run ends: its context expires
\* after 10 minutes.
Fairness ==
    /\ WF_vars(~Ended /\ MainStep)
    /\ \A a \in Action : WF_vars(~Ended /\ JobStep(a)) /\ WF_vars(~Ended /\ RetryStep(a))

FairSpec == Spec /\ Fairness

-----------------------------------------------------------------------------
(* Properties.                                                             *)

\* The type invariant.
TypeOK ==
    /\ pc \in {"precondition", "canary", "canaryRun", "loop", "check", "wait", "returned",
               "main", "spawn", "advance", "retryWait", "exit", "panic"}
    /\ i \in Nat
    /\ tokens \in 0 .. Concurrency
    /\ failures \in Int
    /\ endState \in EndState
    /\ act \in [Action -> [last : {"none", "ok", "failed"}, err : {"nil", "set"}, runs : Int]]
    /\ job \in [Action -> {"none", "run", "count", "done", "release", "end"}]
    /\ queue \in SUBSET Action
    /\ retry \in [Action -> [pc : {"none", "read", "end"}] \cup [pc : {"run"}, of : Action]]
    /\ round \in Nat

Running == {a \in Action : job[a] \in {"run", "count"}}

\* A general rollout never has more than MaxFailures + Concurrency endpoints
\* that failed or are being upgraded: the check made with a token in hand
\* bounds what concurrency can add to MaxFailures (config.go: "You can have
\* more failures than MaxFailures due to concurrency settings").
FailureBound == failures + Cardinality(Running) <= MaxFailures + Concurrency

\* No endpoint past the canaries is touched unless every canary succeeded
\* (workflow.go Run: "Any problem stops the workflow").
CanariesFirst ==
    (\E a \in Action \ Canaries : act[a].runs > 0 \/ act[a].last # "none")
        => \A a \in Canaries : act[a].last = "ok"

\* When Run has returned, no Run of an endpoint is under way, and endState
\* says what happened: success means that every endpoint was upgraded or
\* counted as a failure, and no more than MaxFailures were.
EndStateHonest ==
    pc = "returned" =>
        /\ \A a \in Action : act[a].runs = 0
        /\ endState = "ESSuccess" =>
              /\ \A a \in Action : act[a].last # "none"
              /\ failures = Cardinality({a \in Action : act[a].last = "failed"})
              /\ failures <= MaxFailures
        /\ endState = "ESMaxFailures" =>
              Cardinality({a \in Action : act[a].last = "failed"}) > MaxFailures
        /\ endState \in {"ESPreconditionFailure", "ESCanaryFailure"} =>
              \A a \in Action \ Canaries : act[a].last = "none"

\* Run returns: no goroutine waits for a token that nobody gives back.
RunReturns == <>(pc \in {"returned", "exit"})

\* A retry leaves alone every endpoint that was upgraded and never failed, also
\* when its goroutines read their index late (workflow.go RetryFailed, Status).
UpgradedStaysUpgraded ==
    [][\A a \in Action : act[a].err = "nil" /\ act[a].last = "ok" => act'[a] = act[a]]_vars

\* "RetryFailed retries all failed actions", "Failures is a list of failed
\* actions" (workflow.go): an endpoint whose last Run succeeded, a retry among
\* them, is not run again.
OnlyFailedAreRetried ==
    [][\A a \in Action : act[a].last = "ok" /\ act[a].runs = 0 => act'[a].runs = 0]_vars

\* "Concurrency is the number of servers that can be upgraded at a time"
\* (config.go): so it is until Run returns, tokens being given back only after
\* the endpoint's Run has ended.  The retries start them all at once.
ConcurrencyKept ==
    round = 0 => Cardinality({a \in Action : act[a].runs > 0}) <= Concurrency

\* "RetryFailed retries all failed actions" (workflow.go): when it returns
\* each has been run once more, and it does not bring the program down.
RetriesAllFailed ==
    /\ pc # "panic"
    /\ \A k, l \in Action : k # l /\ retry[k].pc = "run" => retry[l] # retry[k]
=============================================================================
