--------------------------- MODULE Rollout_proofs ---------------------------
(***************************************************************************)
(* Proofs about the rollout workflow, for every number of endpoints and    *)
(* every configuration; and about a rollout: its composition with the      *)
(* actions implements both of its parts, so what is proved of the workflow *)
(* and of the actions holds of it; and how many backends it takes out of   *)
(* the load balancer, which needs both.                                    *)
(***************************************************************************)
EXTENDS Rollout, FiniteSetTheorems, TLAPS

AP == INSTANCE Actions_proofs WITH Endpoint <- Action, Goroutine <- Action

-----------------------------------------------------------------------------
(* The list that RetryFailed walks.                                        *)

\* Every place of the list of a set of endpoints holds one of them: Nth is
\* total on the indices RetryFailed guards with (workflow.go RetryFailed,
\* ws.Failures[i]).
LEMMA NthInSet ==
    ASSUME NEW S \in SUBSET Action, NEW k \in Nat, k < Cardinality(S)
    PROVE  Nth(S, k) \in S
<1> DEFINE below(a) == {b \in S : b < a}
           rank == [a \in S |-> Cardinality(below(a))]
           n == Cardinality(S)
<1>1. S \in SUBSET Int /\ IsFiniteSet(S) /\ n \in Nat
  <2>1. S \in SUBSET Int
    BY ConfigAssumption DEF Action
  <2>2. IsFiniteSet(Action)
    BY ConfigAssumption, FS_Interval DEF Action
  <2>3. IsFiniteSet(S)
    BY <2>2, FS_Subset
  <2> QED
    BY <2>1, <2>3, FS_CardinalityType
<1>2. \A a \in S : IsFiniteSet(below(a)) /\ Cardinality(below(a)) \in Nat
  BY <1>1, FS_Subset, FS_CardinalityType
<1>3. ASSUME NEW a \in S PROVE rank[a] \in 0 .. (n - 1)
  <2>1. below(a) \in SUBSET S /\ below(a) # S
    BY <1>1
  <2>2. Cardinality(below(a)) <= n /\ Cardinality(below(a)) # n
    BY <2>1, <1>1, FS_Subset
  <2> QED
    BY <2>2, <1>1, <1>2
<1>4. ASSUME NEW a \in S, NEW b \in S, a < b PROVE rank[a] # rank[b]
  <2>3. a \in below(b) /\ a \notin below(a)
    BY <1>1, <1>4
  <2>4. \A c \in S : c < a => c < b
    BY <1>1, <1>4
  <2>1. below(a) \in SUBSET below(b) /\ below(a) # below(b)
    BY <2>3, <2>4
  <2>2. Cardinality(below(a)) # Cardinality(below(b))
    BY <2>1, <1>2, FS_Subset
  <2> QED
    BY <2>2
<1>5. rank \in Injection(S, 0 .. (n - 1))
  <2>1. rank \in [S -> 0 .. (n - 1)]
    BY <1>3
  <2>2. \A a, b \in S : rank[a] = rank[b] => a = b
    BY <1>1, <1>4
  <2> HIDE DEF rank, n
  <2> QED
    BY <2>1, <2>2 DEF Injection, IsInjective
<1>6. IsFiniteSet(0 .. (n - 1)) /\ Cardinality(0 .. (n - 1)) = n
  <2> HIDE DEF n
  <2>1. 0 \in Int /\ n - 1 \in Int
    BY <1>1
  <2> QED
    BY <1>1, <2>1, FS_Interval
<1>7. rank \in Surjection(S, 0 .. (n - 1))
  <2> HIDE DEF rank
  <2> QED
    BY <1>5, <1>6, FS_Injection
<1>8. \E a \in S : rank[a] = k
  <2>1. k \in 0 .. (n - 1)
    BY <1>1
  <2> HIDE DEF rank
  <2> QED
    BY <2>1, <1>7 DEF Surjection
<1> QED
  BY <1>8 DEF Nth

-----------------------------------------------------------------------------
(* The bound on failures, and the types it needs.                          *)

\* The goroutines whose token is still in the channel.
Holding == {a \in Action : job[a] \in {"run", "count", "done", "release"}}

\* Every goroutine not yet finished has an entry in "limit", and so has the
\* main goroutine between taking one and its check of the failures.
TokensCover == tokens >= Cardinality(Holding) + (IF pc = "check" THEN 1 ELSE 0)

IInv == TypeOK /\ TokensCover /\ FailureBound

\* The sets of goroutines are finite, and those that may still fail hold a
\* token.
LEMMA JobSets ==
    /\ IsFiniteSet(Action) /\ IsFiniteSet(Holding) /\ IsFiniteSet(Running)
    /\ Cardinality(Holding) \in Nat /\ Cardinality(Running) \in Nat
    /\ Running \subseteq Holding /\ Cardinality(Running) <= Cardinality(Holding)
<1>1. IsFiniteSet(Action)
  BY ConfigAssumption, FS_Interval DEF Action
<1>2. Running \in SUBSET Holding /\ Holding \in SUBSET Action
  BY DEF Running, Holding
<1> QED
  BY <1>1, <1>2, FS_Subset, FS_CardinalityType

\* A subset of a finite set and one more element.
LEMMA OneMore ==
    ASSUME NEW S, IsFiniteSet(S), NEW x, NEW T \in SUBSET (S \cup {x})
    PROVE  Cardinality(T) \in Nat /\ Cardinality(T) <= Cardinality(S) + 1
<1>1. IsFiniteSet(S \cup {x}) /\ Cardinality(S) \in Nat
  BY FS_AddElement, FS_CardinalityType
<1>2. Cardinality(S \cup {x}) <= Cardinality(S) + 1
  BY <1>1, FS_AddElement
<1>3. IsFiniteSet(T) /\ Cardinality(T) <= Cardinality(S \cup {x})
  BY <1>1, FS_Subset
<1> QED
  BY <1>1, <1>2, <1>3, FS_CardinalityType

ActType == [Action -> [last : {"none", "ok", "failed"}, err : {"nil", "set"}, runs : Int]]

\* Beginning and ending a Run keeps the types of act (actions.go Run).
LEMMA ActTypes ==
    ASSUME act \in ActType, NEW a
    PROVE  /\ Begins(a) => act' \in ActType
           /\ \A ok \in BOOLEAN : Ends(a, ok) => act' \in ActType
<1>1. CASE a \in Action
  <2>1. Begins(a) => act' \in ActType
    BY <1>1 DEF Begins, ActType
  <2>2. ASSUME NEW ok \in BOOLEAN, Ends(a, ok) PROVE act' \in ActType
    <3>1. CASE ok
      BY <1>1, <2>2, <3>1 DEF Ends, ActType
    <3>2. CASE ~ok
      BY <1>1, <2>2, <3>2 DEF Ends, ActType
    <3> QED
      BY <3>1, <3>2
  <2> QED
    BY <2>1, <2>2
<1>2. CASE a \notin Action
  BY <1>2 DEF Begins, Ends, ActType
<1> QED
  BY <1>1, <1>2

\* The main goroutine keeps the invariant (workflow.go Run).
LEMMA RunKeeps ==
    ASSUME IInv,
           \/ \E ok \in BOOLEAN : Precondition(ok) \/ CanaryEnd(ok)
           \/ CanaryStart \/ CanariesDone \/ TakeToken \/ CheckBreak \/ CheckStart
           \/ LoopDone \/ Waited
    PROVE  IInv'
<1> USE ConfigAssumption DEF IInv
<1>1. CASE \/ \E ok \in BOOLEAN : Precondition(ok) \/ CanaryEnd(ok)
           \/ CanaryStart \/ CanariesDone \/ CheckBreak \/ LoopDone \/ Waited
  <2>1. /\ UNCHANGED <<tokens, failures, job, queue, retry, round>>
        /\ pc' # "check"
        /\ pc' \in {"canary", "returned", "canaryRun", "loop", "wait"}
    BY <1>1 DEF Precondition, CanaryEnd, CanaryStart, CanariesDone, CheckBreak, LoopDone, Waited, retryVars
  <2>2. TokensCover' /\ FailureBound'
    BY <2>1, JobSets DEF TokensCover, FailureBound, Holding, Running, TypeOK
  <2>3. i' \in Nat
    BY <1>1 DEF Precondition, CanaryEnd, CanaryStart, CanariesDone, CheckBreak, LoopDone, Waited, TypeOK
  <2>4. endState' \in EndState
    BY <1>1 DEF Precondition, CanaryEnd, CanaryStart, CanariesDone, CheckBreak, LoopDone, Waited, TypeOK, EndState
  <2>5. act' \in ActType
    <3>1. act \in ActType
      BY DEF TypeOK, ActType
    <3>2. \/ act' = act \/ Begins(i)
          \/ \E ok \in BOOLEAN : Ends(i, ok)
      BY <1>1 DEF Precondition, CanaryEnd, CanaryStart, CanariesDone, CheckBreak, LoopDone, Waited
    <3> QED
      BY <3>1, <3>2, ActTypes
  <2>6. TypeOK'
    BY <2>1, <2>3, <2>4, <2>5 DEF TypeOK, ActType
  <2> QED
    BY <2>2, <2>6
<1>2. CASE TakeToken
  <2>1. TypeOK'
    BY <1>2 DEF TakeToken, TypeOK, retryVars
  <2>2. TokensCover' /\ FailureBound'
    BY <1>2, JobSets DEF TakeToken, TypeOK, TokensCover, FailureBound, Holding, Running
  <2> QED
    BY <2>1, <2>2
<1>3. CASE CheckStart
  <2>8. act' \in ActType
    BY <1>3, ActTypes DEF CheckStart, TypeOK, ActType
  <2>1. TypeOK'
    <3>1. job' \in [Action -> {"none", "run", "count", "done", "release", "end"}]
      BY <1>3 DEF CheckStart, TypeOK
    <3>2. i' \in Nat /\ pc' = "loop" /\ UNCHANGED <<tokens, failures, endState, queue, retry, round>>
      BY <1>3 DEF CheckStart, TypeOK, retryVars
    <3> QED
      BY <3>1, <3>2, <2>8 DEF TypeOK, ActType
  <2>2. /\ Holding' \in SUBSET (Holding \cup {i})
        /\ Running' \in SUBSET (Running \cup {i})
    BY <1>3 DEF CheckStart, Holding, Running, TypeOK
  <2>3. /\ Cardinality(Holding') \in Nat /\ Cardinality(Running') \in Nat
        /\ Cardinality(Holding') <= Cardinality(Holding) + 1
        /\ Cardinality(Running') <= Cardinality(Running) + 1
    BY <2>2, JobSets, OneMore
  <2>4. /\ pc = "check" /\ pc' = "loop"
        /\ failures <= MaxFailures
        /\ UNCHANGED <<tokens, failures>>
    BY <1>3 DEF CheckStart, TooManyFailures, TypeOK
  <2>5. /\ tokens \in Int /\ failures \in Int /\ tokens <= Concurrency
        /\ tokens >= Cardinality(Holding) + 1
        /\ Cardinality(Running) <= Cardinality(Holding)
    BY <2>4, JobSets DEF TypeOK, TokensCover
  <2>6. TokensCover'
    BY <2>3, <2>4, <2>5, JobSets DEF TokensCover
  <2>7. FailureBound'
    BY <2>3, <2>4, <2>5, JobSets DEF FailureBound
  <2> QED
    BY <2>1, <2>6, <2>7
<1> QED
  BY <1>1, <1>2, <1>3

\* Each goroutine of a rollout keeps it: a failure is counted while the token
\* is held, and the token is given back last.
LEMMA JobKeeps ==
    ASSUME IInv, NEW a \in Action, JobStep(a)
    PROVE  IInv'
<1> USE ConfigAssumption DEF IInv
<1>0. /\ job \in [Action -> {"none", "run", "count", "done", "release", "end"}]
      /\ tokens \in Int /\ failures \in Int
  BY DEF TypeOK
<1>1. ASSUME NEW ok \in BOOLEAN, JobEnd(a, ok) PROVE IInv'
  <2>7. act' \in ActType
    BY <1>1, ActTypes DEF JobEnd, TypeOK, ActType
  <2>1. TypeOK'
    BY <1>1, <2>7 DEF JobEnd, TypeOK, ActType, retryVars
  <2>2. Holding' = Holding /\ Running' \in SUBSET Running
    BY <1>1, <1>0 DEF JobEnd, Holding, Running
  <2>3. Cardinality(Running') \in Nat /\ Cardinality(Running') <= Cardinality(Running)
    BY <2>2, JobSets, FS_Subset, FS_CardinalityType
  <2>4. UNCHANGED <<pc, tokens, failures>>
    BY <1>1 DEF JobEnd
  <2>5. TokensCover'
    BY <2>2, <2>4 DEF TokensCover
  <2>6. FailureBound'
    BY <2>3, <2>4, <1>0, JobSets DEF FailureBound
  <2> QED
    BY <2>1, <2>5, <2>6
<1>2. CASE JobCount(a)
  <2>1. TypeOK'
    BY <1>2 DEF JobCount, TypeOK, retryVars
  <2>2. Holding' = Holding /\ Running' = Running \ {a} /\ a \in Running
    BY <1>2, <1>0 DEF JobCount, Holding, Running
  <2>3. Cardinality(Running') = Cardinality(Running) - 1
    BY <2>2, JobSets, FS_RemoveElement
  <2>4. UNCHANGED <<pc, tokens>> /\ failures' = failures + 1
    BY <1>2 DEF JobCount
  <2>5. TokensCover'
    BY <2>2, <2>4 DEF TokensCover
  <2>6. FailureBound'
    BY <2>3, <2>4, <1>0, JobSets DEF FailureBound
  <2> QED
    BY <2>1, <2>5, <2>6
<1>3. CASE JobDone(a)
  <2>1. TypeOK'
    BY <1>3 DEF JobDone, TypeOK, retryVars
  <2>2. Holding' = Holding /\ Running' = Running
    BY <1>3, <1>0 DEF JobDone, Holding, Running
  <2> QED
    BY <1>3, <2>1, <2>2 DEF JobDone, TokensCover, FailureBound
<1>4. CASE JobRelease(a)
  <2>1. Holding' = Holding \ {a} /\ a \in Holding /\ Running' = Running
    BY <1>4, <1>0 DEF JobRelease, Holding, Running
  <2>2. Cardinality(Holding') = Cardinality(Holding) - 1 /\ Cardinality(Holding') \in Nat
    BY <2>1, JobSets, FS_RemoveElement, FS_CardinalityType
  <2>3. UNCHANGED <<pc, failures>> /\ tokens' = tokens - 1
    BY <1>4 DEF JobRelease
  <2>4. TokensCover'
    BY <2>2, <2>3, <1>0, JobSets DEF TokensCover
  <2>5. tokens' \in 0 .. Concurrency
    BY <2>2, <2>3, JobSets DEF TokensCover, TypeOK
  <2>6. TypeOK'
    BY <1>4, <2>5 DEF JobRelease, TypeOK, retryVars
  <2>7. FailureBound'
    BY <2>1, <2>3 DEF FailureBound
  <2> QED
    BY <2>4, <2>6, <2>7
<1> QED
  BY <1>1, <1>2, <1>3, <1>4 DEF JobStep

\* main and the retries keep it: a retry only ever lowers the count.
LEMMA RetryKeeps ==
    ASSUME IInv,
           \/ MainAfterRun \/ RetryBegin \/ MainDone \/ RetrySpawn \/ RetryAdvance \/ RetryWaited
           \/ \E k \in Action : RetryStep(k)
    PROVE  IInv'
<1> USE ConfigAssumption DEF IInv
<1>1. /\ UNCHANGED <<tokens, job, endState>>
      /\ failures' \in {failures, failures - 1}
      /\ pc' = pc \/ pc' \in {"main", "exit", "spawn", "advance", "retryWait", "panic"}
  BY DEF MainAfterRun, RetryBegin, MainDone, RetrySpawn, RetryAdvance, RetryWaited, RetryStep,
         RetryStart, RetryEnd, retryVars
<1>2. failures' \in Int /\ failures' <= failures /\ Holding' = Holding /\ Running' = Running
  BY <1>1 DEF TypeOK, Holding, Running
<1>3. TokensCover' /\ FailureBound'
  BY <1>1, <1>2, JobSets DEF TokensCover, FailureBound, TypeOK
<1>9. UNCHANGED act => act' \in ActType
  BY DEF TypeOK, ActType
<1>4. CASE MainAfterRun \/ RetryBegin \/ MainDone \/ RetryAdvance \/ RetryWaited
  <2>1. /\ UNCHANGED act /\ i' \in Nat /\ round' \in Nat
        /\ pc' \in {"main", "exit", "spawn"}
    BY <1>4 DEF MainAfterRun, RetryBegin, MainDone, RetryAdvance, RetryWaited, retryVars, TypeOK
  <2>2. queue' \in SUBSET Action
    BY <1>4 DEF MainAfterRun, RetryBegin, MainDone, RetryAdvance, RetryWaited, retryVars, TypeOK, Failed
  <2>3. retry' \in [Action -> [pc : {"none", "read", "end"}] \cup [pc : {"run"}, of : Action]]
    BY <1>4 DEF MainAfterRun, RetryBegin, MainDone, RetryAdvance, RetryWaited, retryVars, TypeOK
  <2> QED
    BY <2>1, <2>2, <2>3, <1>1, <1>2, <1>3, <1>9 DEF TypeOK, ActType
<1>5. CASE RetrySpawn
  <2>1. UNCHANGED <<i, act, queue, round>> /\ pc' \in {"advance", "retryWait"}
    BY <1>5 DEF RetrySpawn
  <2>2. retry' \in [Action -> [pc : {"none", "read", "end"}] \cup [pc : {"run"}, of : Action]]
    BY <1>5 DEF RetrySpawn, TypeOK
  <2> QED
    BY <2>1, <2>2, <1>1, <1>2, <1>3, <1>9 DEF TypeOK, ActType
<1>8. ASSUME NEW a, Begins(a) \/ \E ok \in BOOLEAN : Ends(a, ok) PROVE act' \in ActType
  BY <1>8, ActTypes DEF TypeOK, ActType
<1>6. ASSUME NEW k \in Action, RetryStart(k) PROVE TypeOK'
  <2>1. CASE i < Cardinality(queue)
    <3>1. Nth(queue, i) \in Action
      BY <2>1, NthInSet DEF TypeOK
    <3>2. act' \in ActType /\ UNCHANGED <<pc, i, queue, round>>
      BY <1>6, <2>1, <1>8 DEF RetryStart
    <3>3. retry' \in [Action -> [pc : {"none", "read", "end"}] \cup [pc : {"run"}, of : Action]]
      BY <1>6, <2>1, <3>1 DEF RetryStart, TypeOK
    <3> QED
      BY <3>2, <3>3, <1>1, <1>2 DEF TypeOK, ActType
  <2>2. CASE ~(i < Cardinality(queue))
    BY <1>6, <2>2 DEF RetryStart, TypeOK
  <2> QED
    BY <2>1, <2>2
<1>7. ASSUME NEW k \in Action, NEW ok \in BOOLEAN, RetryEnd(k, ok) PROVE TypeOK'
  <2>1. act' \in ActType /\ UNCHANGED <<pc, i, queue, round>>
    BY <1>7, <1>8 DEF RetryEnd
  <2>2. retry' \in [Action -> [pc : {"none", "read", "end"}] \cup [pc : {"run"}, of : Action]]
    BY <1>7 DEF RetryEnd, TypeOK
  <2> QED
    BY <2>1, <2>2, <1>1, <1>2 DEF TypeOK, ActType
<1> QED
  BY <1>3, <1>4, <1>5, <1>6, <1>7 DEF RetryStep

\* The workflow starts in the invariant, ...
LEMMA IInvInit == Init => IInv
<1> SUFFICES ASSUME Init PROVE IInv
  OBVIOUS
<1>1. Holding = {} /\ Running = {}
  BY DEF Init, Holding, Running
<1>2. TypeOK
  BY ConfigAssumption DEF Init, TypeOK, EndState
<1>3. TokensCover /\ FailureBound
  BY <1>1, FS_EmptySet, ConfigAssumption DEF Init, TokensCover, FailureBound
<1> QED
  BY <1>2, <1>3 DEF IInv

\* ... and every step keeps it.
LEMMA IInvStep == IInv /\ [Next]_vars => IInv'
<1> SUFFICES ASSUME IInv, [Next]_vars PROVE IInv'
  OBVIOUS
<1>1. CASE UNCHANGED vars
  BY <1>1 DEF vars, IInv, TypeOK, TokensCover, FailureBound, Holding, Running
<1>2. CASE Next
  BY <1>2, RunKeeps, JobKeeps, RetryKeeps DEF Next, MainStep
<1> QED
  BY <1>1, <1>2

LEMMA IInvInvariant == Spec => []IInv
BY IInvInit, IInvStep, PTL DEF Spec

-----------------------------------------------------------------------------
(* The course of a rollout: what each phase may rely on.                   *)

Act(l, e, r) == [last |-> l, err |-> e, runs |-> r]

Untouched(a) == job[a] = "none" /\ act[a] = Act("none", "nil", 0)
Passed(a)    == job[a] = "none" /\ act[a] = Act("ok", "nil", 0)

\* An endpoint of the second loop, along its goroutine.
Started(a) ==
    \/ job[a] = "run" /\ act[a] = Act("none", "nil", 1)
    \/ job[a] = "count" /\ act[a] = Act("failed", "set", 0)
    \/ job[a] \in {"done", "release", "end"} /\ act[a] \in {Act("ok", "nil", 0), Act("failed", "set", 0)}

\* The endpoint that the loop is at.
AtHand(a) ==
    CASE pc = "canaryRun" -> job[a] = "none" /\ act[a] = Act("none", "nil", 1)
      [] pc = "returned" /\ endState = "ESCanaryFailure" -> job[a] = "none" /\ act[a] = Act("failed", "set", 0)
      [] OTHER -> Untouched(a)

InRun == {"precondition", "canary", "canaryRun", "loop", "check", "wait", "returned"}
InRetry == {"main", "spawn", "advance", "retryWait"}

\* Run walks the endpoints in their order, the canaries first.
Walk ==
    pc \in InRun =>
        /\ round = 0 /\ \A k \in Action : retry[k] = [pc |-> "none"]
        /\ \A a \in Action : /\ a < i => IF a < CanaryNum THEN Passed(a) ELSE Started(a)
                             /\ a = i => AtHand(a)
                             /\ a > i => Untouched(a)

\* Where the loop variable can be, and what has been found by then.
Place ==
    /\ pc = "precondition" => i = 0
    /\ pc = "canary" => i <= CanaryNum
    /\ pc = "canaryRun" => i < CanaryNum /\ i < N
    /\ pc \in {"loop", "check", "wait"} => i >= CanaryNum
    /\ pc = "check" => i < N
    /\ pc = "wait" => i >= N \/ failures > MaxFailures
    /\ pc = "returned" =>
         \/ endState = "ESPreconditionFailure" /\ i = 0
         \/ endState = "ESCanaryFailure" /\ i < CanaryNum /\ i < N
         \/ /\ \A a \in Action : job[a] \in {"none", "release", "end"}
            /\ i >= CanaryNum
            /\ \/ endState = "ESSuccess" /\ i >= N /\ failures <= MaxFailures
               \/ endState = "ESMaxFailures" /\ failures > MaxFailures

\* The endpoints whose failure has been counted.
Counted == {a \in Action : act[a].last = "failed" /\ job[a] \in {"done", "release", "end"}}

CountIsRight == round = 0 => failures = Cardinality(Counted)

\* The goroutines of RetryFailed that are running an endpoint.
RunnersOf(a) == {k \in Action : retry[k] = [pc |-> "run", of |-> a]}

\* After Run, only endpoints that failed in it are touched again.
Retrying ==
    pc \in InRetry =>
        /\ \A a \in Action : /\ job[a] \in {"none", "release", "end"}
                             /\ act[a].last # "none"
                             /\ act[a].err = "nil" => act[a] = Act("ok", "nil", 0)
                             /\ act[a].runs = Cardinality(RunnersOf(a))
        /\ pc = "main" => \A k \in Action : retry[k] = [pc |-> "none"]
        /\ pc # "main" => queue \subseteq Failed
        /\ pc = "spawn" => \A k \in Action : k >= i => retry[k] = [pc |-> "none"]
        /\ pc = "advance" => \A k \in Action : k > i => retry[k] = [pc |-> "none"]
        /\ \A k \in Action : retry[k].pc = "run" => act[retry[k].of].err = "set"
        /\ Cardinality(Failed) <= MaxFailures

\* The program exits only when no Run of an endpoint is under way.
ExitsIdle == pc = "exit" => \A a \in Action : act[a].runs = 0

Rounds == pc \in {"spawn", "advance", "retryWait", "panic"} => round > 0

Course == Walk /\ Place /\ CountIsRight /\ Retrying /\ ExitsIdle /\ Rounds

\* The main goroutine, up to the return of Run (workflow.go Run).
LEMMA RunCourse ==
    ASSUME TypeOK, Course,
           \/ \E ok \in BOOLEAN : Precondition(ok) \/ CanaryEnd(ok)
           \/ CanaryStart \/ CanariesDone \/ TakeToken \/ CheckBreak \/ LoopDone \/ Waited
    PROVE  Course'
<1> USE ConfigAssumption
<1>1. /\ pc \in InRun /\ pc' \in InRun /\ pc' \notin InRetry /\ pc' # "exit"
      /\ UNCHANGED <<job, failures, retry, round, queue>>
  BY DEF Precondition, CanaryEnd, CanaryStart, CanariesDone, TakeToken, CheckBreak, LoopDone, Waited,
         InRun, InRetry, retryVars
<1>2. Place'
  BY DEF Precondition, CanaryEnd, CanaryStart, CanariesDone, TakeToken, CheckBreak, LoopDone, Waited,
         Course, Place, TypeOK, TooManyFailures
<1>3. ASSUME NEW a \in Action
      PROVE  /\ a < i' => IF a < CanaryNum THEN Passed(a)' ELSE Started(a)'
             /\ a = i' => AtHand(a)'
             /\ a > i' => Untouched(a)'
  <2>1. CASE \E ok \in BOOLEAN : Precondition(ok)
    BY <2>1 DEF Precondition, Course, Place, Walk, TypeOK, InRun, AtHand, Untouched, Passed, Started, Act, Action, retryVars
  <2>2. CASE CanaryStart
    <3>1. /\ pc = "canary" /\ pc' = "canaryRun" /\ i \in Action /\ UNCHANGED <<i, job>>
          /\ act' = [act EXCEPT ![i].runs = @ + 1]
      BY <2>2 DEF CanaryStart, Begins, TypeOK, Action
    <3>2. Untouched(i)
      BY <3>1 DEF Course, Walk, AtHand, InRun
    <3>3. CASE a = i
      BY <3>1, <3>2, <3>3 DEF AtHand, Untouched, Act, TypeOK, Action
    <3>4. CASE a # i
      BY <3>1, <3>4 DEF Course, Walk, InRun, Untouched, Passed, Started, Act, TypeOK, Action
    <3> QED
      BY <3>3, <3>4
  <2>3. ASSUME NEW ok \in BOOLEAN, CanaryEnd(ok)
        PROVE  /\ a < i' => IF a < CanaryNum THEN Passed(a)' ELSE Started(a)'
               /\ a = i' => AtHand(a)'
               /\ a > i' => Untouched(a)'
    BY <2>3 DEF CanaryEnd, Ends, Course, Place, Walk, TypeOK, InRun, AtHand, Untouched, Passed, Started, Act, Action
  <2>4. CASE CanariesDone
    BY <2>4 DEF CanariesDone, Course, Place, Walk, TypeOK, InRun, AtHand, Untouched, Passed, Started, Act, Action
  <2>5. CASE TakeToken \/ CheckBreak \/ LoopDone \/ Waited
    BY <2>5 DEF TakeToken, CheckBreak, LoopDone, Waited, Course, Place, Walk, TypeOK, InRun, AtHand, Untouched, Passed, Started, Act, Action
  <2> QED
    BY <2>1, <2>2, <2>3, <2>4, <2>5
<1>4. Walk'
  BY <1>1, <1>3 DEF Course, Walk
<1>5. Counted' = Counted
  BY <1>1 DEF Precondition, CanaryEnd, CanaryStart, CanariesDone, TakeToken, CheckBreak, LoopDone, Waited,
         Course, Place, Walk, TypeOK, TooManyFailures, InRun, AtHand, Untouched, Passed, Started, Act, Begins, Ends, Counted
<1> QED
  BY <1>1, <1>2, <1>4, <1>5 DEF Course, CountIsRight, Retrying, ExitsIdle, Rounds, InRun, InRetry

\* The main goroutine starts a goroutine for the endpoint at hand.
LEMMA StartCourse ==
    ASSUME TypeOK, Course, CheckStart
    PROVE  Course'
<1> USE ConfigAssumption
<1>1. /\ pc = "check" /\ pc' = "loop" /\ i \in Action /\ i' = i + 1 /\ i >= CanaryNum
      /\ UNCHANGED <<failures, retry, round>>
      /\ job' = [job EXCEPT ![i] = "run"] /\ act' = [act EXCEPT ![i].runs = @ + 1]
  BY DEF CheckStart, Course, Place, TypeOK, Action, retryVars, Begins
<1>2. Untouched(i)
  BY <1>1 DEF Course, Walk, AtHand, InRun
<1>3. Place' /\ ExitsIdle' /\ Rounds' /\ Retrying'
  BY <1>1 DEF Place, ExitsIdle, Rounds, Retrying, InRetry, TypeOK
<1>4. Walk'
  BY <1>1, <1>2 DEF Course, Place, Walk, TypeOK, InRun, AtHand, Untouched, Passed, Started, Act, Action
<1>5. Counted' = Counted
  BY <1>1, <1>2 DEF Counted, TypeOK, Untouched, Act
<1> QED
  BY <1>1, <1>3, <1>4, <1>5 DEF Course, CountIsRight

\* The failed endpoints form a finite set, and so do the goroutines of one.
LEMMA EndpointSets ==
    /\ IsFiniteSet(Action)
    /\ IsFiniteSet(Failed) /\ Cardinality(Failed) \in Nat
    /\ IsFiniteSet(Counted) /\ Cardinality(Counted) \in Nat
    /\ \A a : IsFiniteSet(RunnersOf(a)) /\ Cardinality(RunnersOf(a)) \in Nat
<1>1. IsFiniteSet(Action)
  BY ConfigAssumption, FS_Interval DEF Action
<1>2. /\ Failed \in SUBSET Action /\ Counted \in SUBSET Action
      /\ \A a : RunnersOf(a) \in SUBSET Action
  BY DEF Failed, Counted, RunnersOf
<1> QED
  BY <1>1, <1>2, FS_Subset, FS_CardinalityType

\* Run has not returned while a goroutine has not called wg.Done.
LEMMA JobPlace ==
    ASSUME TypeOK, Course, ~Ended, NEW a \in Action, job[a] \in {"run", "count", "done"}
    PROVE  pc \in InRun /\ pc # "returned" /\ round = 0 /\ Started(a) /\ a < i /\ a >= CanaryNum
<1> USE ConfigAssumption
<1>1. pc \in InRun /\ round = 0
  BY DEF Course, Retrying, Walk, InRun, InRetry, TypeOK, Ended
<1>2. Started(a) /\ a < i /\ a >= CanaryNum
  BY <1>1 DEF Course, Place, Walk, TypeOK, InRun, AtHand, Untouched, Passed, Started, Act, Action
<1>3. pc # "returned"
  <2>1. a \in Int /\ i \in Int /\ CanaryNum \in Nat
    BY DEF TypeOK, Action
  <2>2. job[a] \notin {"none", "release", "end"} /\ ~(i = 0) /\ ~(i < CanaryNum)
    BY <1>2, <2>1, ConfigAssumption DEF TypeOK, Action
  <2> QED
    BY <2>2 DEF Course, Place
<1> QED
  BY <1>1, <1>2, <1>3

\* A goroutine of a rollout, until it returns; the last step of one may come
\* during the retries (workflow.go Run).
LEMMA JobCourse ==
    ASSUME TypeOK, Course, ~Ended, NEW a \in Action, JobStep(a)
    PROVE  Course'
<1> USE ConfigAssumption
<1>1. UNCHANGED <<pc, i, endState, queue, retry, round>>
  BY DEF JobStep, JobEnd, JobCount, JobDone, JobRelease, retryVars
<1>2. CASE JobRelease(a)
  <2>1. job[a] = "release" /\ job' = [job EXCEPT ![a] = "end"] /\ UNCHANGED <<act, failures>>
    BY <1>2 DEF JobRelease
  <2>2. Place' /\ ExitsIdle' /\ Rounds'
    BY <1>1, <2>1 DEF Course, Place, ExitsIdle, Rounds, TypeOK
  <2>3. Walk'
    BY <1>1, <2>1 DEF Course, Place, Walk, TypeOK, InRun, AtHand, Untouched, Passed, Started, Act, Action
  <2>4. Counted' = Counted /\ Failed' = Failed
    BY <2>1 DEF Counted, Failed, TypeOK
  <2>5. Retrying'
    BY SMTT(30), <1>1, <2>1, <2>4 DEF Course, Retrying, RunnersOf, TypeOK
  <2> QED
    BY <1>1, <2>1, <2>2, <2>3, <2>4, <2>5 DEF Course, CountIsRight
<1>3. CASE JobDone(a) \/ JobCount(a) \/ \E ok \in BOOLEAN : JobEnd(a, ok)
  <2>1. job[a] \in {"run", "count", "done"}
    BY <1>3 DEF JobDone, JobCount, JobEnd
  <2>2. pc \in InRun /\ round = 0 /\ pc # "exit" /\ pc \notin InRetry
    BY <2>1, JobPlace DEF InRun, InRetry
  <2>3. Started(a) /\ a < i /\ a >= CanaryNum
    BY <2>1, JobPlace
  <2>4. pc # "returned"
    BY <2>1, JobPlace
  <2>5. ASSUME NEW b \in Action, b # a
        PROVE  job'[b] = job[b] /\ act'[b] = act[b]
    BY <1>3, <2>5 DEF JobDone, JobCount, JobEnd, Ends, TypeOK
  <2>6. Started(a)'
    <3>1. CASE JobDone(a)
      BY <3>1, <2>3 DEF JobDone, Started, Act, TypeOK
    <3>2. CASE JobCount(a)
      BY <3>2, <2>3 DEF JobCount, Started, Act, TypeOK
    <3>3. ASSUME NEW ok \in BOOLEAN, JobEnd(a, ok) PROVE Started(a)'
      BY <3>3, <2>3 DEF JobEnd, Ends, Started, Act, TypeOK
    <3> QED
      BY <1>3, <3>1, <3>2, <3>3
  <2>7. Walk'
    BY <1>1, <2>2, <2>3, <2>4, <2>5, <2>6 DEF Course, Walk, AtHand, Untouched, Passed, Started, TypeOK, Action
  <2>8. failures' >= failures /\ failures' \in Int
    BY <1>3 DEF JobDone, JobCount, JobEnd, TypeOK
  <2>9. Place'
    BY <1>1, <2>2, <2>4, <2>8 DEF Course, Place, TypeOK
  <2>10. failures' = Cardinality(Counted')
    <3>1. CASE JobCount(a)
      <4>1. Counted' = Counted \cup {a} /\ a \notin Counted /\ failures' = failures + 1
        BY <3>1, <2>3 DEF JobCount, Counted, Started, Act, TypeOK
      <4> QED
        BY <4>1, <2>2, EndpointSets, FS_AddElement DEF Course, CountIsRight
    <3>2. CASE JobDone(a) \/ \E ok \in BOOLEAN : JobEnd(a, ok)
      <4>1. Counted' = Counted /\ failures' = failures
        BY <3>2, <2>3, <2>5 DEF JobDone, JobEnd, Ends, Counted, Started, Act, TypeOK
      <4> QED
        BY <4>1, <2>2 DEF Course, CountIsRight
    <3> QED
      BY <1>3, <3>1, <3>2
  <2> QED
    BY <1>1, <2>2, <2>7, <2>9, <2>10 DEF Course, CountIsRight, Retrying, ExitsIdle, Rounds, InRun, InRetry
<1> QED
  BY <1>2, <1>3 DEF JobStep

\* When Run has returned, no Run of an endpoint is under way.
LEMMA ReturnedIdle ==
    ASSUME TypeOK, Course, pc = "returned"
    PROVE  \A a \in Action : act[a].runs = 0
<1> USE ConfigAssumption
<1> TAKE a \in Action
<1>1. AtHand(a) \/ Untouched(a) \/ Passed(a) \/ (Started(a) /\ a < i /\ a >= CanaryNum)
  BY DEF Course, Walk, InRun, TypeOK, Action
<1>2. CASE AtHand(a) \/ Untouched(a) \/ Passed(a)
  BY <1>2 DEF AtHand, Untouched, Passed, Act
<1>3. CASE Started(a) /\ a < i /\ a >= CanaryNum
  <2>1. a \in Nat /\ i \in Nat /\ CanaryNum \in Nat
    BY DEF TypeOK, Action
  <2>2. job[a] \in {"none", "release", "end"}
    BY <1>3, <2>1 DEF Course, Place
  <2> QED
    BY <1>3, <2>2 DEF Started, Act
<1> QED
  BY <1>1, <1>2, <1>3

\* main after Run: it retries only what a successful Run has left failed
\* (orchestration.go main).
LEMMA MainCourse ==
    ASSUME TypeOK, Course, MainAfterRun \/ MainDone \/ RetryBegin \/ RetryAdvance \/ RetryWaited
    PROVE  Course'
<1> USE ConfigAssumption
<1>1. UNCHANGED <<tokens, failures, endState, act, job>> /\ pc' \notin InRun
  BY DEF MainAfterRun, MainDone, RetryBegin, RetryAdvance, RetryWaited, retryVars, InRun
<1>2. Walk' /\ Place'
  BY <1>1 DEF Walk, Place, InRun
<1>3. Counted' = Counted /\ Failed' = Failed
  BY <1>1 DEF Counted, Failed
<1>4. CASE MainAfterRun
  <2>1. pc = "returned" /\ UNCHANGED <<queue, retry, round>> /\ round = 0
        /\ \A k \in Action : retry[k] = [pc |-> "none"]
    BY <1>4 DEF MainAfterRun, retryVars, Course, Walk, InRun
  <2>2. \A a \in Action : act[a].runs = 0
    BY <2>1, ReturnedIdle
  <2>3. CASE pc' = "exit"
    BY <1>1, <1>2, <1>3, <2>1, <2>2, <2>3 DEF Course, CountIsRight, Retrying, ExitsIdle, Rounds, InRetry
  <2>4. CASE pc' # "exit"
    <3>1. pc' = "main" /\ endState = "ESSuccess"
      BY <1>4, <2>4 DEF MainAfterRun
    <3>2. i >= N /\ failures <= MaxFailures /\ \A a \in Action : job[a] \in {"none", "release", "end"}
      BY <2>1, <3>1 DEF Course, Place
    <3>3. ASSUME NEW a \in Action
          PROVE  /\ act[a].last # "none"
                 /\ act[a].err = "nil" => act[a] = Act("ok", "nil", 0)
                 /\ act[a].err = "set" <=> act[a].last = "failed" /\ job[a] \in {"done", "release", "end"}
      BY <2>1, <3>2 DEF Course, Place, Walk, TypeOK, InRun, AtHand, Untouched, Passed, Started, Act, Action
    <3>4. Failed = Counted
      BY <3>3 DEF Failed, Counted
    <3>5. Cardinality(Failed) <= MaxFailures
      BY <2>1, <3>2, <3>4 DEF Course, CountIsRight
    <3>6. \A a \in Action : RunnersOf(a) = {}
      BY <2>1 DEF RunnersOf
    <3>7. \A a \in Action : RunnersOf(a)' = {} /\ Cardinality(RunnersOf(a)') = 0
      BY <2>1, <3>6, FS_EmptySet DEF RunnersOf
    <3>8. Retrying'
      BY <1>1, <1>3, <2>1, <2>2, <3>1, <3>2, <3>3, <3>5, <3>7 DEF Retrying
    <3> QED
      BY <1>1, <1>2, <1>3, <2>1, <3>1, <3>8 DEF Course, CountIsRight, ExitsIdle, Rounds
  <2> QED
    BY <2>3, <2>4
<1>5. CASE MainDone
  <2>1. pc = "main" /\ pc' = "exit" /\ UNCHANGED <<queue, retry, round>>
    BY <1>5 DEF MainDone, retryVars
  <2>2. \A a \in Action : RunnersOf(a) = {}
    BY <2>1 DEF Course, Retrying, InRetry, RunnersOf
  <2>3. \A a \in Action : act[a].runs = 0
    BY <2>1, <2>2, FS_EmptySet DEF Course, Retrying, InRetry
  <2> QED
    BY <1>1, <1>2, <1>3, <2>1, <2>3 DEF Course, CountIsRight, Retrying, ExitsIdle, Rounds, InRetry
<1>6. CASE RetryBegin \/ RetryAdvance \/ RetryWaited
  <2>1. pc \in InRetry /\ pc' \in InRetry /\ pc' # "exit"
    BY <1>6 DEF RetryBegin, RetryAdvance, RetryWaited, InRetry
  <2>2. CountIsRight' /\ ExitsIdle' /\ Rounds'
    BY <1>1, <1>3, <1>6, <2>1 DEF RetryBegin, RetryAdvance, RetryWaited, retryVars, Course, CountIsRight, ExitsIdle, Rounds, TypeOK
  <2>3. ASSUME NEW a \in Action PROVE RunnersOf(a)' = RunnersOf(a)
    BY <1>6 DEF RetryBegin, RetryAdvance, RetryWaited, retryVars, RunnersOf
  <2>4. Retrying'
    <3>1. CASE RetryBegin
      BY <1>1, <1>3, <2>1, <2>3, <3>1 DEF RetryBegin, Course, Retrying, TypeOK, Act
    <3>2. CASE RetryAdvance
      <4>1. /\ pc = "advance" /\ pc' = "spawn" /\ i' = i + 1 /\ i \in Nat
            /\ UNCHANGED <<act, job, queue, retry>>
        BY <1>1, <3>2 DEF RetryAdvance, retryVars, TypeOK
      <4>2. \A k \in Action : k >= i' => retry'[k] = [pc |-> "none"]
        BY <2>1, <4>1, ConfigAssumption DEF Course, Retrying, Action
      <4> QED
        BY <1>1, <1>3, <2>1, <2>3, <4>1, <4>2 DEF Course, Retrying
    <3>3. CASE RetryWaited
      BY <1>1, <1>3, <2>1, <2>3, <3>3 DEF RetryWaited, Course, Retrying, TypeOK, Act
    <3> QED
      BY <1>6, <3>1, <3>2, <3>3
  <2> QED
    BY <1>2, <2>2, <2>4 DEF Course
<1> QED
  BY <1>4, <1>5, <1>6

\* The goroutines of RetryFailed (workflow.go RetryFailed).
LEMMA RetryCourse ==
    ASSUME TypeOK, Course, ~Ended, RetrySpawn \/ \E k \in Action : RetryStep(k)
    PROVE  Course'
<1> USE ConfigAssumption
<1>1. UNCHANGED <<i, tokens, endState, job, queue, round>>
  BY DEF RetrySpawn, RetryStep, RetryStart, RetryEnd
<1>2. pc \in InRetry
  <2>1. pc = "spawn" \/ \E k \in Action : retry[k] # [pc |-> "none"]
    BY DEF RetrySpawn, RetryStep, RetryStart, RetryEnd
  <2> QED
    BY <2>1 DEF Course, Walk, InRun, InRetry, TypeOK, Ended
<1>3. round > 0 /\ pc # "main"
  <2>1. pc # "main"
    BY DEF RetrySpawn, RetryStep, RetryStart, RetryEnd, Course, Retrying, InRetry
  <2> QED
    BY <1>2, <2>1 DEF Course, Rounds, InRetry
<1>4. pc' \in {"spawn", "advance", "retryWait", "panic"}
  BY <1>2, <1>3 DEF RetrySpawn, RetryStep, RetryStart, RetryEnd, InRetry
<1>5. Walk' /\ Place' /\ ExitsIdle' /\ Rounds' /\ CountIsRight'
  BY <1>1, <1>3, <1>4 DEF Walk, Place, ExitsIdle, Rounds, CountIsRight, InRun, TypeOK
<1>6. CASE RetrySpawn
  <2>1. pc = "spawn" /\ UNCHANGED act
    BY <1>6 DEF RetrySpawn
  <2>2. \A k \in Action : k >= i => retry[k] = [pc |-> "none"]
    BY <2>1 DEF Course, Retrying, InRetry
  <2>3. \A k \in Action : retry'[k] = retry[k] \/ (k = i /\ retry'[k] = [pc |-> "read"])
    BY <1>6 DEF RetrySpawn, TypeOK
  <2>4. ASSUME NEW a \in Action PROVE RunnersOf(a)' = RunnersOf(a)
    BY <2>2, <2>3 DEF RunnersOf, TypeOK, Action
  <2>5. pc' = "advance" \/ pc' = "retryWait"
    BY <1>6 DEF RetrySpawn
  <2>6. Retrying'
    BY <1>1, <1>2, <1>3, <2>1, <2>2, <2>3, <2>4, <2>5 DEF Course, Retrying, TypeOK, Act, Action, Failed
  <2> QED
    BY <1>5, <2>6 DEF Course
<1>7. ASSUME NEW k \in Action, RetryStart(k) PROVE Course'
  <2>1. CASE ~(i < Cardinality(queue))
    <3>1. pc' = "panic"
      BY <1>7, <2>1 DEF RetryStart
    <3> QED
      BY <1>5, <3>1 DEF Course, Retrying, InRetry
  <2>2. CASE i < Cardinality(queue)
    <3>0. Nth(queue, i) \in queue /\ queue \subseteq Failed
      BY <1>2, <1>3, <2>2, NthInSet DEF TypeOK, Course, Retrying
    <3>1. PICK e \in Action : e = Nth(queue, i) /\ act[e].err = "set"
      BY <3>0 DEF Failed
    <3>2. /\ act' = [act EXCEPT ![e].runs = @ + 1] /\ UNCHANGED pc
          /\ retry' = [retry EXCEPT ![k] = [pc |-> "run", of |-> e]] /\ retry[k].pc = "read"
      BY <1>7, <2>2, <3>1 DEF RetryStart, Begins
    <3>3. ASSUME NEW a \in Action
          PROVE  /\ act'[a].last = act[a].last /\ act'[a].err = act[a].err
                 /\ a # e => act'[a] = act[a] /\ RunnersOf(a)' = RunnersOf(a)
                 /\ a = e => act'[a].runs = act[a].runs + 1
      BY <3>1, <3>2 DEF TypeOK, RunnersOf
    <3>4. RunnersOf(e)' = RunnersOf(e) \cup {k} /\ k \notin RunnersOf(e)
      <4>1. retry'[k] = [pc |-> "run", of |-> e] /\ \A j \in Action \ {k} : retry'[j] = retry[j]
        BY <3>2 DEF TypeOK
      <4>2. retry[k] # [pc |-> "run", of |-> e]
        BY <3>2
      <4> QED
        BY <4>1, <4>2 DEF RunnersOf
    <3>5. Cardinality(RunnersOf(e)') = Cardinality(RunnersOf(e)) + 1
      BY <3>4, EndpointSets, FS_AddElement
    <3>6. Failed' = Failed
      BY <3>3 DEF Failed
    <3>7. \A j \in Action : retry'[j].pc = "run" => act'[retry'[j].of].err = "set"
      BY <1>2, <3>1, <3>2, <3>3 DEF Course, Retrying, TypeOK
    <3>8. ASSUME NEW a \in Action
          PROVE  /\ act'[a].last # "none"
                 /\ act'[a].err = "nil" => act'[a] = Act("ok", "nil", 0)
                 /\ act'[a].runs = Cardinality(RunnersOf(a)')
      <4>1. /\ act[a].last # "none" /\ act[a].runs = Cardinality(RunnersOf(a))
            /\ act[a].err = "nil" => act[a] = Act("ok", "nil", 0)
        BY <1>2 DEF Course, Retrying
      <4>2. CASE a = e
        BY <3>1, <3>3, <3>5, <4>1, <4>2
      <4>3. CASE a # e
        BY <3>3, <4>1, <4>3
      <4> QED
        BY <4>2, <4>3
    <3>9. Retrying'
      BY <1>1, <1>2, <1>3, <3>2, <3>6, <3>7, <3>8 DEF Course, Retrying, TypeOK
    <3> QED
      BY <1>5, <3>9 DEF Course
  <2> QED
    BY <2>1, <2>2
<1>8. ASSUME NEW k \in Action, NEW ok \in BOOLEAN, RetryEnd(k, ok) PROVE Course'
  <2>1. PICK e \in Action : act[e].err = "set" /\ retry[k] = [pc |-> "run", of |-> e]
    BY <1>2, <1>8 DEF RetryEnd, Course, Retrying, TypeOK
  <2>2. /\ Ends(e, ok) /\ UNCHANGED pc
        /\ retry' = [retry EXCEPT ![k] = [pc |-> "end"]]
    BY <1>8, <2>1 DEF RetryEnd
  <2>3. ASSUME NEW a \in Action
        PROVE  /\ act'[a].err = act[a].err /\ (act[a].last # "none" => act'[a].last # "none")
               /\ a # e => act'[a] = act[a] /\ RunnersOf(a)' = RunnersOf(a)
               /\ a = e => act'[a].runs = act[a].runs - 1
    BY <2>1, <2>2 DEF Ends, TypeOK, RunnersOf
  <2>4. RunnersOf(e)' = RunnersOf(e) \ {k} /\ k \in RunnersOf(e)
    <3>1. retry'[k] = [pc |-> "end"] /\ \A j \in Action \ {k} : retry'[j] = retry[j]
      BY <2>2 DEF TypeOK
    <3>2. retry'[k] # [pc |-> "run", of |-> e]
      BY <3>1
    <3> QED
      BY <2>1, <3>1, <3>2 DEF RunnersOf
  <2>5. Cardinality(RunnersOf(e)') = Cardinality(RunnersOf(e)) - 1
    BY ZenonT(60), <2>4, EndpointSets, FS_RemoveElement
  <2>6. Failed' = Failed
    BY <2>3 DEF Failed
  <2>7. \A j \in Action : retry'[j].pc = "run" => act'[retry'[j].of].err = "set"
    BY <1>2, <2>1, <2>2, <2>3 DEF Course, Retrying, TypeOK
  <2>8. ASSUME NEW a \in Action
        PROVE  /\ act'[a].last # "none"
               /\ act'[a].err = "nil" => act'[a] = Act("ok", "nil", 0)
               /\ act'[a].runs = Cardinality(RunnersOf(a)')
    <3>1. /\ act[a].last # "none" /\ act[a].runs = Cardinality(RunnersOf(a))
          /\ act[a].err = "nil" => act[a] = Act("ok", "nil", 0)
      BY <1>2 DEF Course, Retrying
    <3>2. CASE a = e
      BY <2>1, <2>3, <2>5, <3>1, <3>2
    <3>3. CASE a # e
      BY <2>3, <3>1, <3>3
    <3> QED
      BY <3>2, <3>3
  <2>9. Retrying'
    BY <1>1, <1>2, <1>3, <2>1, <2>2, <2>6, <2>7, <2>8 DEF Course, Retrying, TypeOK
  <2> QED
    BY <1>5, <2>9 DEF Course
<1> QED
  BY <1>6, <1>7, <1>8 DEF RetryStep

\* Every step of the workflow keeps the course.
LEMMA CourseStep == IInv /\ Course /\ [Next]_vars => Course'
<1> SUFFICES ASSUME IInv, Course, [Next]_vars PROVE Course'
  OBVIOUS
<1>1. TypeOK
  BY DEF IInv
<1>2. CASE UNCHANGED vars
  <2>1. UNCHANGED <<pc, i, failures, endState, act, job, queue, retry, round>>
    BY <1>2 DEF vars
  <2>2. Walk' /\ Place'
    BY <2>1 DEF Course, Walk, Place, AtHand, Untouched, Passed, Started
  <2>3. Counted' = Counted /\ Failed' = Failed /\ \A a : RunnersOf(a)' = RunnersOf(a)
    BY <2>1 DEF Counted, Failed, RunnersOf
  <2> QED
    BY <2>1, <2>2, <2>3 DEF Course, CountIsRight, Retrying, ExitsIdle, Rounds
<1>3. CASE Next
  BY <1>1, <1>3, RunCourse, StartCourse, JobCourse, MainCourse, RetryCourse DEF Next, MainStep
<1> QED
  BY <1>2, <1>3

LEMMA CourseInit == Init => Course
<1> SUFFICES ASSUME Init PROVE Course
  OBVIOUS
<1>1. Counted = {} /\ Cardinality(Counted) = 0
  BY FS_EmptySet DEF Init, Counted
<1> QED
  BY <1>1, ConfigAssumption DEF Init, Course, Walk, Place, CountIsRight, Retrying, ExitsIdle, Rounds, AtHand, Untouched,
     Act, InRun, InRetry, Action

LEMMA CourseInvariant == Spec => [](IInv /\ Course)
BY IInvInit, IInvStep, CourseInit, CourseStep, PTL DEF Spec

\* RetryFailed runs only endpoints that have failed (workflow.go RetryFailed).
LEMMA RetryRests ==
    ASSUME TypeOK, Course, ~Ended, NEW k \in Action, RetryStep(k), NEW a \in Action, act[a].err = "nil"
    PROVE  act'[a] = act[a]
<1>1. pc \in InRetry /\ pc # "main"
  BY DEF RetryStep, RetryStart, RetryEnd, Course, Walk, Retrying, InRun, InRetry, TypeOK, Next, Ended
<1>2. ASSUME RetryStart(k) PROVE act'[a] = act[a]
  <2>1. CASE i < Cardinality(queue)
    <3>1. Nth(queue, i) \in queue /\ queue \subseteq Failed
      BY <1>1, <2>1, NthInSet DEF TypeOK, Course, Retrying
    <3>2. PICK e \in Action : e = Nth(queue, i) /\ act[e].err = "set"
      BY <3>1 DEF Failed
    <3> QED
      BY <1>2, <2>1, <3>2 DEF RetryStart, Begins, TypeOK
  <2>2. CASE ~(i < Cardinality(queue))
    BY <1>2, <2>2 DEF RetryStart
  <2> QED
    BY <2>1, <2>2
<1>3. ASSUME NEW ok \in BOOLEAN, RetryEnd(k, ok) PROVE act'[a] = act[a]
  <2>1. act[retry[k].of].err = "set"
    BY <1>1, <1>3 DEF RetryEnd, Course, Retrying
  <2> QED
    BY <1>3, <2>1 DEF RetryEnd, Ends, TypeOK
<1> QED
  BY <1>2, <1>3 DEF RetryStep

\* An endpoint that was upgraded and has never failed is not run by any step.
LEMMA UpgradedRests ==
    ASSUME TypeOK, Course, [Next]_vars, NEW a \in Action, act[a].err = "nil", act[a].last = "ok"
    PROVE  act'[a] = act[a]
<1>1. CASE UNCHANGED vars
  BY <1>1 DEF vars
<1>2. CASE Next
  <2>1. CASE CanaryStart \/ CheckStart \/ \E ok \in BOOLEAN : CanaryEnd(ok)
    <3>1. i \in Action /\ pc \in {"canary", "check", "canaryRun"}
      BY <2>1, ConfigAssumption DEF CanaryStart, CheckStart, CanaryEnd, Course, Place, TypeOK, Action
    <3>2. act[i].last = "none"
      BY <3>1 DEF Course, Walk, AtHand, Untouched, Act, InRun
    <3>3. a # i => act'[a] = act[a]
      BY <2>1 DEF CanaryStart, CheckStart, CanaryEnd, Begins, Ends, TypeOK
    <3> QED
      BY <3>2, <3>3
  <2>2. ASSUME NEW b \in Action, JobStep(b) PROVE act'[a] = act[a]
    <3>1. act' = act \/ \E ok \in BOOLEAN : JobEnd(b, ok)
      BY <2>2 DEF JobStep, JobCount, JobDone, JobRelease
    <3>2. ASSUME NEW ok \in BOOLEAN, JobEnd(b, ok) PROVE a # b /\ act'[a] = act[a]
      <4>1. act[b].last = "none"
        BY <1>2, <3>2, JobPlace DEF JobEnd, Started, Act, Next
      <4> QED
        BY <3>2, <4>1 DEF JobEnd, Ends, TypeOK
    <3> QED
      BY <3>1, <3>2
  <2>3. ASSUME NEW k \in Action, RetryStep(k) PROVE act'[a] = act[a]
    BY <1>2, <2>3, RetryRests DEF Next
  <2>4. CASE \/ \E ok \in BOOLEAN : Precondition(ok)
             \/ CanariesDone \/ TakeToken \/ CheckBreak \/ LoopDone \/ Waited
             \/ MainAfterRun \/ RetryBegin \/ MainDone \/ RetrySpawn \/ RetryAdvance \/ RetryWaited
    BY <2>4 DEF Precondition, CanariesDone, TakeToken, CheckBreak, LoopDone, Waited,
       MainAfterRun, RetryBegin, MainDone, RetrySpawn, RetryAdvance, RetryWaited
  <2> QED
    BY <1>2, <2>1, <2>2, <2>3, <2>4 DEF Next, MainStep
<1> QED
  BY <1>1, <1>2

\* The endpoints that are being run have a goroutine that holds a token, or
\* are the one canary.
LEMMA FewRun == IInv /\ Course => ConcurrencyKept
<1> SUFFICES ASSUME IInv, Course, round = 0
             PROVE  Cardinality({a \in Action : act[a].runs > 0}) <= Concurrency
  BY DEF ConcurrencyKept
<1> USE ConfigAssumption
<1> DEFINE R == {a \in Action : act[a].runs > 0}
<1>1. TypeOK /\ tokens \in 0 .. Concurrency /\ Cardinality(Holding) <= tokens
  BY JobSets DEF IInv, TypeOK, TokensCover
<1>2. CASE pc = "canaryRun"
  <2>1. \A a \in Action : a # i => act[a].runs = 0
    BY SMTT(30), <1>1, <1>2 DEF Course, Place, Walk, TypeOK, InRun, AtHand, Untouched, Passed, Started, Act, Action
  <2>2. R \in SUBSET ({} \cup {i})
    BY <2>1
  <2>3. Cardinality(R) \in Nat /\ Cardinality(R) <= Cardinality({}) + 1 /\ Cardinality({}) = 0
    BY <2>2, OneMore, FS_EmptySet
  <2> HIDE DEF R
  <2>4. Cardinality(R) <= Concurrency
    BY <2>3
  <2> QED
    BY <2>4 DEF R
<1>3. CASE pc \in InRun \ {"canaryRun"}
  <2>1. \A a \in Action : act[a].runs > 0 => job[a] = "run"
    BY <1>1, <1>3 DEF Course, Place, Walk, TypeOK, InRun, AtHand, Untouched, Passed, Started, Act, Action
  <2>2. R \in SUBSET Holding
    BY <2>1 DEF Holding
  <2>3. Cardinality(R) <= Cardinality(Holding) /\ Cardinality(R) \in Nat
    BY <2>2, JobSets, FS_Subset, FS_CardinalityType
  <2> QED
    BY <1>1, <2>3, JobSets
<1>4. CASE pc \in {"main", "exit"}
  <2>1. \A a \in Action : act[a].runs = 0
    <3>1. CASE pc = "main"
      <4>1. \A a \in Action : RunnersOf(a) = {}
        BY <3>1 DEF Course, Retrying, InRetry, RunnersOf
      <4> QED
        BY <3>1, <4>1, FS_EmptySet DEF Course, Retrying, InRetry
    <3>2. CASE pc = "exit"
      BY <3>2 DEF Course, ExitsIdle
    <3> QED
      BY <1>4, <3>1, <3>2
  <2>2. R = {}
    BY <2>1
  <2> QED
    BY <2>2, FS_EmptySet
<1>5. pc \in InRun \/ pc \in {"main", "exit"}
  BY <1>1 DEF Course, Rounds, InRun, TypeOK
<1> QED
  BY <1>2, <1>3, <1>4, <1>5

\* What Run returns with (workflow.go Run, the deferred wg.Done and wg.Wait).
LEMMA HonestEnd == TypeOK /\ Course => EndStateHonest
<1> SUFFICES ASSUME TypeOK, Course, pc = "returned"
             PROVE  /\ \A a \in Action : act[a].runs = 0
                    /\ endState = "ESSuccess" =>
                          /\ \A a \in Action : act[a].last # "none"
                          /\ failures = Cardinality({a \in Action : act[a].last = "failed"})
                          /\ failures <= MaxFailures
                    /\ endState = "ESMaxFailures" =>
                          Cardinality({a \in Action : act[a].last = "failed"}) > MaxFailures
                    /\ endState \in {"ESPreconditionFailure", "ESCanaryFailure"} =>
                          \A a \in Action \ Canaries : act[a].last = "none"
  BY DEF EndStateHonest
<1> USE ConfigAssumption
<1>1. \A a \in Action : act[a].runs = 0
  BY ReturnedIdle
<1>2. CASE endState \in {"ESSuccess", "ESMaxFailures"}
  <2>1. /\ i >= CanaryNum /\ \A a \in Action : job[a] \in {"none", "release", "end"}
        /\ endState = "ESSuccess" => i >= N /\ failures <= MaxFailures
        /\ endState = "ESMaxFailures" => failures > MaxFailures
    BY <1>2 DEF Course, Place
  <2>2. \A a \in Action : act[a].last = "failed" => job[a] \in {"release", "end"}
    BY <1>2, <2>1 DEF Course, Place, Walk, TypeOK, InRun, AtHand, Untouched, Passed, Started, Act, Action
  <2>3. {a \in Action : act[a].last = "failed"} = Counted
    BY <2>2 DEF Counted
  <2>4. failures = Cardinality(Counted)
    BY DEF Course, Walk, InRun, CountIsRight
  <2>5. endState = "ESSuccess" => \A a \in Action : act[a].last # "none"
    BY <1>2, <2>1 DEF Course, Place, Walk, TypeOK, InRun, AtHand, Untouched, Passed, Started, Act, Action
  <2> QED
    BY <1>1, <1>2, <2>1, <2>3, <2>4, <2>5
<1>3. CASE endState \in {"ESPreconditionFailure", "ESCanaryFailure"}
  <2>1. i <= CanaryNum /\ i \in Nat /\ (i = CanaryNum => endState = "ESPreconditionFailure")
    BY <1>3 DEF Course, Place, TypeOK
  <2>2. ASSUME NEW a \in Action \ Canaries PROVE act[a].last = "none"
    BY <1>3, <2>1, <2>2 DEF Course, Place, Walk, TypeOK, InRun, AtHand, Untouched, Passed, Started, Act, Action, Canaries
  <2> QED
    BY <1>1, <1>3, <2>2
<1>4. endState \in {"ESPreconditionFailure", "ESCanaryFailure", "ESSuccess", "ESMaxFailures"}
  BY DEF Course, Place
<1> QED
  BY <1>2, <1>3, <1>4

-----------------------------------------------------------------------------
(* The theorems.                                                           *)

\* The workflow's state keeps its types: the channel is never drained below
\* empty, and no retry runs an endpoint that is not one.
THEOREM TypeCorrect == Spec => []TypeOK
<1>1. IInv => TypeOK
  BY DEF IInv
<1> QED
  BY <1>1, IInvInvariant, PTL

\* Endpoints that failed or are being upgraded never exceed MaxFailures +
\* Concurrency, whatever the number of endpoints and the limits are.
THEOREM FailuresBounded == Spec => []FailureBound
<1>1. IInv => FailureBound
  BY DEF IInv
<1> QED
  BY <1>1, IInvInvariant, PTL

\* An endpoint that was upgraded and never failed is not taken out of service
\* again, however many retries there are and however late their goroutines start
\* (workflow.go RetryFailed).
THEOREM UpgradedStays == Spec => UpgradedStaysUpgraded
<1>1. IInv /\ Course /\ [Next]_vars
        => [\A a \in Action : act[a].err = "nil" /\ act[a].last = "ok" => act'[a] = act[a]]_vars
  BY UpgradedRests DEF IInv
<1> QED
  BY <1>1, CourseInvariant, PTL DEF Spec, UpgradedStaysUpgraded

\* No more than Concurrency endpoints are upgraded at a time until Run returns.
THEOREM ConcurrencyRespected == Spec => []ConcurrencyKept
BY CourseInvariant, FewRun, PTL

\* The end state that Run returns with, and its count of the failures, are true.
THEOREM EndsHonestly == Spec => []EndStateHonest
<1>1. IInv /\ Course => EndStateHonest
  BY HonestEnd DEF IInv
<1> QED
  BY <1>1, CourseInvariant, PTL

-----------------------------------------------------------------------------
(* The workflow in the composition.                                        *)

\* The steps of the composition that begin or end a Run are steps of the
\* workflow; the steps of an endpoint's Run are none (workflow.go Run,
\* RetryFailed).
LEMMA WorkflowStep == TypeOK /\ [RNext]_allVars => [Next]_vars
<1> SUFFICES ASSUME TypeOK, [RNext]_allVars PROVE [Next]_vars
  OBVIOUS
<1>1. CASE UNCHANGED allVars
  BY <1>1 DEF allVars
<1>2. CASE RNext
  <2>1. ~Ended
    BY <1>2 DEF RNext
  <2>2. ASSUME NEW g \in Action, NEW a \in Action, Calls(g, a) PROVE Next
    BY <2>1, <2>2 DEF Calls, Next, MainStep, RetryStep
  <2>3. ASSUME NEW g \in Action, RunEnds(g) PROVE Next
    <3>1. (last[g] = "ok") \in BOOLEAN
      OBVIOUS
    <3> HIDE <3>1
    <3>2. PICK ok \in BOOLEAN : CanaryEnd(ok) \/ JobEnd(g, ok) \/ RetryEnd(g, ok)
      BY <2>3, <3>1 DEF RunEnds
    <3> QED
      BY <2>1, <3>2 DEF Next, MainStep, JobStep, RetryStep
  <2>4. ASSUME NEW g \in Action, JobCount(g) \/ JobDone(g) \/ JobRelease(g) \/ RetryOutOfRange(g) PROVE Next
    BY <2>1, <2>4 DEF Next, JobStep, RetryStep, RetryOutOfRange
  <2>5. ASSUME \/ \E ok \in BOOLEAN : Precondition(ok)
               \/ CanariesDone \/ TakeToken \/ CheckBreak \/ LoopDone \/ Waited
               \/ MainAfterRun \/ RetryBegin \/ MainDone \/ RetrySpawn \/ RetryAdvance \/ RetryWaited
        PROVE  Next
    BY <2>1, <2>5 DEF Next, MainStep
  <2> QED
    BY <1>2, <2>2, <2>3, <2>4, <2>5 DEF RNext, RunStarts, RunStartsAndFails
<1> QED
  BY <1>1, <1>2

LEMMA WorkflowInvariant == RSpec => []IInv
<1>1. RInit => IInv
  BY IInvInit DEF RInit
<1>2. IInv /\ [RNext]_allVars => IInv'
  BY WorkflowStep, IInvStep DEF IInv
<1> QED
  BY <1>1, <1>2, PTL DEF RSpec

\* The composition implements the workflow: an endpoint's Run that takes many
\* steps and can fail in each is one that succeeds or fails.
THEOREM ImplementsWorkflow == RSpec => Spec
<1>1. RInit => Init
  BY DEF RInit
<1>2. IInv => TypeOK
  BY DEF IInv
<1> QED
  BY <1>1, <1>2, WorkflowStep, WorkflowInvariant, PTL DEF RSpec, Spec

-----------------------------------------------------------------------------
(* The actions in the composition.                                         *)

\* Every step of the composition runs an endpoint's actions one step further,
\* or leaves them alone.
LEMMA ActionsStep == [RNext]_allVars => [A!Next]_(A!vars)
<1> SUFFICES ASSUME [RNext]_allVars PROVE [A!Next]_(A!vars)
  OBVIOUS
<1>1. UNCHANGED actionVars => UNCHANGED A!vars
  BY DEF actionVars, A!vars
<1>2. CASE UNCHANGED allVars
  BY <1>1, <1>2 DEF allVars
<1>3. CASE RNext
  <2>1. CASE UNCHANGED actionVars
    BY <1>1, <2>1
  <2>2. CASE \E g \in Action : RunStarts(g) \/ RunStartsAndFails(g) \/ A!Step(g) \/ A!Crash(g)
    BY <2>2 DEF A!Next, RunStarts, RunStartsAndFails
  <2> QED
    BY <1>3, <2>1, <2>2 DEF RNext, RunEnds
<1> QED
  BY <1>2, <1>3

\* The composition implements the actions: the workflow and its retries call Run
\* and wait for it, and reach an endpoint in no other way.
THEOREM ImplementsActions == RSpec => A!Spec
<1>1. RInit => A!Init
  BY DEF RInit
<1> QED
  BY <1>1, ActionsStep, PTL DEF RSpec, A!Spec

-----------------------------------------------------------------------------
(* What follows from the parts.                                            *)

LEMMA ActionsExist == Action # {}
<1>1. 0 \in Action
  BY ConfigAssumption DEF Action
<1> QED
  BY <1>1

\* AP, which has the theorems about the actions, has the same specification
\* as A.
LEMMA SameNext == A!Next <=> AP!Next
<1>1. ASSUME NEW g \in Action PROVE A!Step(g) <=> AP!Step(g)
  BY DEF A!Step, A!FindAppLocal, A!RmBackend, A!JobKill, A!Cp, A!JobStart, A!AddBackend, A!Expire, A!FailIn, A!Goto,
         A!Succeed, A!InPool, A!Proc, A!Bin, A!Lives, A!hostVars,
         AP!Step, AP!FindAppLocal, AP!RmBackend, AP!JobKill, AP!Cp, AP!JobStart, AP!AddBackend, AP!Expire, AP!FailIn,
         AP!Goto, AP!Succeed, AP!InPool, AP!Proc, AP!Bin, AP!Lives, AP!hostVars
<1>2. ASSUME NEW g \in Action, NEW e \in Action
      PROVE  (A!Run(g, e) <=> AP!Run(g, e)) /\ (A!RunCannotOpen(g, e) <=> AP!RunCannotOpen(g, e))
  BY DEF A!Run, A!RunCannotOpen, A!UnderWay, A!hostVars, AP!Run, AP!RunCannotOpen, AP!UnderWay, AP!hostVars
<1>3. ASSUME NEW e \in Action PROVE A!Crash(e) <=> AP!Crash(e)
  BY DEF A!Crash, A!runVars, AP!Crash, AP!runVars
<1> QED
  BY <1>1, <1>2, <1>3 DEF A!Next, AP!Next

LEMMA SameSpec == A!Spec => AP!Spec
<1>1. A!Init => AP!Init
  BY DEF A!Init, AP!Init
<1>2. [A!Next]_(A!vars) => [AP!Next]_(AP!vars)
  BY SameNext DEF A!vars, AP!vars
<1> QED
  BY <1>1, <1>2, PTL DEF A!Spec, AP!Spec

\* In a rollout and its retries, a Run that no other overlaps overwrites no binary
\* under a process that may be serving (workflow.go, actions.go).
THEOREM RolloutReplacesOutOfService == RSpec => []ReplacedOutOfService
<1>1. AP!ReplacedOutOfService => ReplacedOutOfService
  BY DEF ReplacedOutOfService, A!ReplacedOutOfService, AP!ReplacedOutOfService
<1>2. AP!Spec => []AP!ReplacedOutOfService
  BY ActionsExist, AP!ReplacedWhileOut, PTL
<1> QED
  BY <1>1, <1>2, SameSpec, ImplementsActions, PTL

\* An endpoint that a Run in a rollout reports as upgraded has the new binary
\* and is back in the pool, after any retries and until another Run of it begins
\* (workflow.go RetryFailed).
THEOREM RolloutSuccessIsHonest == RSpec => []SuccessMeansUpgraded
<1>1. AP!SuccessMeansUpgraded => SuccessMeansUpgraded
  BY DEF SuccessMeansUpgraded, A!SuccessMeansUpgraded, AP!SuccessMeansUpgraded
<1>2. AP!Spec => []AP!SuccessMeansUpgraded
  BY ActionsExist, AP!SuccessIsHonest, PTL
<1> QED
  BY <1>1, <1>2, SameSpec, ImplementsActions, PTL

-----------------------------------------------------------------------------
(* How many endpoints are touched.                                         *)

\* The endpoints that are being run, or have failed.
Touched == {a \in Action : act[a].runs > 0 \/ act[a].err = "set"}

FewTouched ==
    /\ Cardinality(Touched) <= MaxFailures + Concurrency
    /\ \A a, b \in Touched \cap Canaries : a = b

LEMMA TouchedSet == IsFiniteSet(Touched) /\ Cardinality(Touched) \in Nat
<1>1. IsFiniteSet(Action) /\ Touched \in SUBSET Action
  BY ConfigAssumption, FS_Interval DEF Action, Touched
<1> QED
  BY <1>1, FS_Subset, FS_CardinalityType

\* Until Run returns: the canary at hand, or the failures counted and the
\* goroutines that are running or about to count one (workflow.go Run).
LEMMA FewInRun == IInv /\ Course /\ pc \in InRun => FewTouched
<1> SUFFICES ASSUME IInv, Course, pc \in InRun PROVE FewTouched
  OBVIOUS
<1> USE ConfigAssumption
<1>1. TypeOK /\ FailureBound
  BY DEF IInv
<1>2. CASE \E x : Touched \subseteq {x}
  <2>1. PICK x : Touched \in SUBSET ({} \cup {x})
    BY <1>2
  <2>2. IsFiniteSet({}) /\ Cardinality({}) = 0
    BY FS_EmptySet
  <2>3. Cardinality(Touched) <= Cardinality({}) + 1
    BY <2>1, <2>2, OneMore
  <2>4. Cardinality(Touched) <= MaxFailures + Concurrency
    BY <2>2, <2>3, TouchedSet
  <2> QED
    BY <2>1, <2>4 DEF FewTouched
<1>3. CASE pc = "canaryRun" \/ (pc = "returned" /\ endState = "ESCanaryFailure")
  <2>1. \A a \in Action : a # i => act[a].runs = 0 /\ act[a].err = "nil"
    BY SMTT(30), <1>1, <1>3 DEF Course, Place, Walk, TypeOK, InRun, AtHand, Untouched, Passed, Started, Act, Action
  <2>2. Touched \subseteq {i}
    BY <2>1 DEF Touched
  <2> QED
    BY <1>2, <2>2
<1>4. CASE ~(pc = "canaryRun" \/ (pc = "returned" /\ endState = "ESCanaryFailure"))
  <2>1. ASSUME NEW a \in Action
        PROVE  /\ a < CanaryNum => act[a].runs = 0 /\ act[a].err = "nil"
               /\ act[a].runs > 0 => job[a] = "run"
               /\ act[a].err = "set" => job[a] = "count" \/ a \in Counted
    BY <1>1, <1>4 DEF Course, Place, Walk, TypeOK, InRun, AtHand, Untouched, Passed, Started, Act, Action, Counted
  <2>2. Touched \in SUBSET (Counted \cup Running) /\ Touched \cap Canaries = {}
    BY <2>1 DEF Touched, Running, Canaries
  <2>3. failures = Cardinality(Counted)
    BY DEF Course, Walk, CountIsRight
  <2>4. /\ IsFiniteSet(Counted \cup Running) /\ Cardinality(Counted \cup Running) \in Nat
        /\ Cardinality(Counted \cup Running) <= Cardinality(Counted) + Cardinality(Running)
    <3>1. /\ IsFiniteSet(Counted \cup Running)
          /\ Cardinality(Counted \cup Running)
               = Cardinality(Counted) + Cardinality(Running) - Cardinality(Counted \cap Running)
      BY JobSets, EndpointSets, FS_Union
    <3>2. Cardinality(Counted \cap Running) \in Nat
      BY EndpointSets, FS_Intersection, FS_CardinalityType
    <3>3. Cardinality(Counted \cup Running) \in Nat
      BY <3>1, FS_CardinalityType
    <3> QED
      BY <3>1, <3>2, <3>3, JobSets, EndpointSets
  <2>5. Cardinality(Touched) <= Cardinality(Counted \cup Running)
    BY <2>2, <2>4, FS_Subset
  <2>6. Cardinality(Touched) <= MaxFailures + Concurrency
    BY <1>1, <2>3, <2>4, <2>5, TouchedSet, JobSets, EndpointSets DEF FailureBound
  <2> QED
    BY <2>2, <2>6 DEF FewTouched
<1> QED
  BY <1>3, <1>4

\* After Run no endpoint is touched that was not touched before.
LEMMA TouchedShrinks ==
    ASSUME TypeOK, Course, [Next]_vars, pc' \notin InRun
    PROVE  Touched' \subseteq Touched
<1>1. CASE UNCHANGED act
  BY <1>1 DEF Touched
<1>2. CASE Next /\ ~UNCHANGED act
  <2>1. \E k \in Action : RetryStep(k)
    <3>1. ASSUME NEW a \in Action, JobStep(a) PROVE FALSE
      <4>1. PICK ok \in BOOLEAN : JobEnd(a, ok)
        BY <1>2, <3>1 DEF JobStep, JobCount, JobDone, JobRelease
      <4> QED
        BY <1>2, <4>1, JobPlace DEF JobEnd, Next
    <3>2. ASSUME MainStep PROVE FALSE
      BY <1>2, <3>2 DEF MainStep, Precondition, CanaryEnd, CanaryStart, CanariesDone, TakeToken, CheckBreak,
         CheckStart, LoopDone, Waited, MainAfterRun, RetryBegin, MainDone, RetrySpawn, RetryAdvance, RetryWaited, InRun
    <3> QED
      BY <1>2, <3>1, <3>2 DEF Next
  <2>2. ASSUME NEW a \in Action, act[a].err = "nil" PROVE act'[a] = act[a]
    BY <1>2, <2>1, <2>2, RetryRests DEF Next
  <2>3. \A a \in Action : act[a].err \in {"nil", "set"}
    BY DEF TypeOK
  <2> QED
    BY <2>2, <2>3 DEF Touched
<1> QED
  BY <1>1, <1>2 DEF vars

\* The endpoints that are touched at once are few in every state.
LEMMA FewTouchedStep == IInv /\ Course /\ FewTouched /\ [Next]_vars => FewTouched'
<1> SUFFICES ASSUME IInv, Course, FewTouched, [Next]_vars PROVE FewTouched'
  OBVIOUS
<1>1. IInv' /\ Course'
  BY IInvStep, CourseStep
<1>2. CASE pc' \in InRun
  <2>1. (IInv /\ Course /\ pc \in InRun => FewTouched)'
    BY FewInRun, PTL
  <2> QED
    BY <1>1, <1>2, <2>1 DEF InRun
<1>3. CASE pc' \notin InRun
  <2>1. Touched' \in SUBSET Touched
    BY <1>3, TouchedShrinks DEF IInv
  <2>2. Cardinality(Touched') <= Cardinality(Touched) /\ Cardinality(Touched') \in Nat
    BY <2>1, TouchedSet, FS_Subset, FS_CardinalityType
  <2>3. Canaries' = Canaries
    BY DEF Canaries
  <2> QED
    BY <2>1, <2>2, <2>3, TouchedSet, ConfigAssumption DEF FewTouched
<1> QED
  BY <1>2, <1>3

-----------------------------------------------------------------------------
(* What is out of the pool.                                                *)

\* A goroutine of Run that runs its endpoint.
Upgrades(g) == job[g] = "run" \/ (pc = "canaryRun" /\ i = g)

\* The Runs that are under way are those the workflow waits for; before the
\* retries each is alone on the endpoint of its goroutine's number.
Paired(g) ==
    /\ fn[g] # "idle" => Upgrades(g) \/ retry[g].pc = "run"
    /\ Upgrades(g) => of[g] = g /\ (alone[g] \/ (fn[g] = "idle" /\ last[g] # "ok"))
    /\ retry[g].pc = "run" => of[g] = retry[g].of

\* The workflow knows of every backend that is out of the pool.
Known == \A a \in Action : ~inPool[a] => a \in Touched

RInv == IInv /\ Course /\ FewTouched /\ Known /\ (\A g \in Action : Paired(g)) /\ AP!IInv

\* Until Run returns, no retry runs anything; during the retries nobody else does.
LEMMA Phases ==
    ASSUME TypeOK, Course, ~Ended
    PROVE  \/ pc \in InRun /\ \A k \in Action : retry[k].pc = "none"
           \/ pc \in InRetry /\ \A g \in Action : ~Upgrades(g)
<1>1. pc \in InRun \/ pc \in InRetry
  BY DEF TypeOK, Ended, InRun, InRetry
<1>2. CASE pc \in InRun
  BY <1>2 DEF Course, Walk
<1>3. CASE pc \in InRetry
  BY <1>3 DEF Course, Retrying, Upgrades, InRetry
<1> QED
  BY <1>1, <1>2, <1>3

\* An endpoint that is being run is one that the workflow knows of.
LEMMA RunnersTouched ==
    ASSUME TypeOK, Course, ~Ended, NEW g \in Action, Paired(g), Upgrades(g) \/ retry[g].pc = "run"
    PROVE  of[g] \in Touched /\ of[g] \in Action
<1>1. CASE Upgrades(g)
  <2>1. of[g] = g
    BY <1>1 DEF Paired
  <2>2. CASE job[g] = "run"
    BY <2>1, <2>2, JobPlace DEF Started, Act, Touched
  <2>3. CASE pc = "canaryRun" /\ i = g
    BY <2>1, <2>3 DEF Course, Walk, AtHand, InRun, Act, Touched
  <2> QED
    BY <1>1, <2>2, <2>3 DEF Upgrades
<1>2. CASE retry[g].pc = "run"
  <2>1. pc \in InRetry
    BY <1>2, Phases
  <2>2. of[g] = retry[g].of /\ retry[g].of \in Action
    BY <1>2 DEF Paired, TypeOK
  <2>3. act[retry[g].of].err = "set"
    BY <1>2, <2>1 DEF Course, Retrying
  <2> QED
    BY <2>2, <2>3 DEF Touched
<1> QED
  BY <1>1, <1>2

\* The beginning of a Run (workflow.go Run, RetryFailed): the endpoint is known
\* from now on, and before the retries the Run is alone.
LEMMA CallKeeps ==
    ASSUME RInv, ~Ended, NEW g \in Action, NEW a \in Action, Calls(g, a), A!Run(g, a) \/ A!RunCannotOpen(g, a)
    PROVE  Known' /\ \A h \in Action : Paired(h)'
<1>1. TypeOK /\ Course /\ AP!IInv /\ AP!TypeOK /\ Known /\ \A h \in Action : Paired(h)
  BY DEF RInv, IInv, AP!IInv
<1>2. /\ UNCHANGED <<inPool>> /\ fn[g] = "idle" /\ of'[g] = a
      /\ \A h \in Action : h # g => of'[h] = of[h] /\ fn'[h] = fn[h] /\ last'[h] = last[h]
  BY <1>1 DEF A!Run, A!RunCannotOpen, A!hostVars, AP!TypeOK
<1>3. \A h \in Action : h # g /\ of[h] # a /\ alone[h] => alone'[h]
  <2>1. CASE A!Run(g, a)
    BY <2>1 DEF A!Run
  <2>2. CASE A!RunCannotOpen(g, a)
    BY <1>1, <2>2, Zenon DEF A!RunCannotOpen, AP!TypeOK
  <2> QED
    BY <2>1, <2>2
<1>4. CASE i = a /\ g = a /\ (CanaryStart \/ CheckStart)
  <2>1. /\ pc \in {"canary", "check"} /\ i = g /\ UNCHANGED retry /\ pc \in InRun
        /\ act' = [act EXCEPT ![g].runs = @ + 1]
        /\ \/ pc' = "canaryRun" /\ UNCHANGED <<i, job>>
           \/ pc' = "loop" /\ job' = [job EXCEPT ![g] = "run"]
    BY <1>4 DEF CanaryStart, CheckStart, Begins, retryVars, InRun
  <2>2. act[g].runs = 0
    BY <1>1, <2>1 DEF Course, Walk, AtHand, Untouched, Act, TypeOK
  <2>3. Touched \subseteq Touched' /\ g \in Touched'
    BY <1>1, <2>1, <2>2 DEF TypeOK, Touched
  <2>4. Upgrades(g)' /\ \A h \in Action : h # g => (Upgrades(h)' <=> Upgrades(h))
    BY <1>1, <2>1 DEF TypeOK, Upgrades
  <2>5. \A h \in Action : retry[h].pc = "none"
    BY <1>1, <2>1, Phases DEF InRun, InRetry
  <2>6. A!UnderWay(g) = {}
    BY <1>1, <1>2, <2>5 DEF Paired, A!UnderWay
  <2>7. alone'[g] \/ (fn'[g] = "idle" /\ last'[g] # "ok")
    <3>1. CASE A!Run(g, a)
      BY <1>4, <2>6, <3>1 DEF A!Run
    <3>2. CASE A!RunCannotOpen(g, a)
      BY <1>1, <3>2 DEF A!RunCannotOpen, AP!TypeOK
    <3> QED
      BY <3>1, <3>2
  <2>8. Paired(g)'
    BY <1>2, <1>4, <2>1, <2>4, <2>5, <2>7 DEF Paired
  <2>9. ASSUME NEW h \in Action, h # g PROVE Paired(h)'
    BY <1>1, <1>2, <1>3, <1>4, <2>1, <2>4, <2>5, <2>9 DEF Paired
  <2> QED
    BY <1>1, <1>2, <2>3, <2>8, <2>9 DEF Known
<1>5. CASE i < Cardinality(queue) /\ Nth(queue, i) = a /\ RetryStart(g)
  <2>1. /\ retry[g].pc = "read" /\ act' = [act EXCEPT ![a].runs = @ + 1] /\ UNCHANGED <<pc, i, job>>
        /\ retry' = [retry EXCEPT ![g] = [pc |-> "run", of |-> a]]
    BY <1>5 DEF RetryStart, Begins
  <2>2. pc \in InRetry /\ pc # "main" /\ \A h \in Action : ~Upgrades(h)
    BY <1>1, <2>1, Phases DEF Course, Retrying
  <2>3. a \in queue /\ act[a].err = "set"
    <3>1. Nth(queue, i) \in queue /\ queue \subseteq Failed
      BY <1>1, <1>5, <2>2, NthInSet DEF TypeOK, Course, Retrying
    <3> QED
      BY <1>5, <3>1 DEF Failed
  <2>4. Touched \subseteq Touched'
    <3>1. \A b \in Action : act'[b].err = act[b].err /\ (b # a => act'[b] = act[b])
      BY <1>1, <2>1 DEF TypeOK
    <3> QED
      BY <2>3, <3>1 DEF Touched
  <2>5. ASSUME NEW h \in Action PROVE Paired(h)' 
    <3>1. ~Upgrades(h)'
      BY <2>1, <2>2 DEF Upgrades
    <3>2. h # g => retry'[h] = retry[h]
      BY <1>1, <2>1 DEF TypeOK
    <3>3. retry'[g] = [pc |-> "run", of |-> a]
      BY <1>1, <2>1 DEF TypeOK
    <3> QED
      BY <1>1, <1>2, <2>2, <3>1, <3>2, <3>3 DEF Paired
  <2> QED
    BY <1>1, <1>2, <2>4, <2>5 DEF Known
<1> QED
  BY <1>4, <1>5 DEF Calls

\* The end of a Run (workflow.go Run, RetryFailed): one that failed is known by
\* its error, and one that succeeded without ever having failed was alone, so
\* that its backend is in the pool.
LEMMA EndKeeps ==
    ASSUME RInv, ~Ended, NEW g \in Action, RunEnds(g)
    PROVE  Known' /\ \A h \in Action : Paired(h)'
<1>1. TypeOK /\ Course /\ AP!IInv /\ AP!TypeOK /\ Known /\ \A h \in Action : Paired(h)
  BY DEF RInv, IInv, AP!IInv
<1>2. fn[g] = "idle" /\ UNCHANGED <<of, fn, last, alone, failedState, err, inPool, proc, bin>>
  BY DEF RunEnds, actionVars
<1>3. CASE (i = g /\ CanaryEnd(last[g] = "ok")) \/ JobEnd(g, last[g] = "ok")
  <2>1. Upgrades(g) /\ of[g] = g /\ Ends(g, last[g] = "ok") /\ UNCHANGED retry
    BY <1>1, <1>3 DEF Upgrades, CanaryEnd, JobEnd, Paired, retryVars
  <2>2. \A b \in Action : b # g => act'[b] = act[b]
    BY <1>1, <2>1 DEF Ends, TypeOK
  <2>3. last[g] # "ok" => act'[g].err = "set"
    BY <1>1, <2>1 DEF Ends, TypeOK
  <2>4. last[g] = "ok" => inPool[g]
    <3>1. last[g] = "ok" => alone[g]
      BY <1>1, <2>1 DEF Paired
    <3>2. AP!Fine(g)
      BY <1>1 DEF AP!IInv
    <3> QED
      BY <1>2, <2>1, <3>1, <3>2 DEF AP!Fine
  <2>5. Known'
    BY <1>1, <1>2, <2>2, <2>3, <2>4 DEF Known, Touched
  <2>6. ASSUME NEW h \in Action PROVE Upgrades(h)' => Upgrades(h)
    BY <1>1, <1>3 DEF Upgrades, CanaryEnd, JobEnd, TypeOK
  <2>7. ASSUME NEW h \in Action, h # g PROVE Upgrades(h) => Upgrades(h)'
    BY <1>1, <1>3, <2>7 DEF Upgrades, CanaryEnd, JobEnd, TypeOK
  <2>8. ASSUME NEW h \in Action PROVE Paired(h)'
    BY <1>1, <1>2, <2>1, <2>6, <2>7 DEF Paired
  <2> QED
    BY <2>5, <2>8
<1>4. CASE RetryEnd(g, last[g] = "ok")
  <2>1. /\ retry[g].pc = "run" /\ Ends(retry[g].of, last[g] = "ok") /\ UNCHANGED <<pc, i, job>>
        /\ retry' = [retry EXCEPT ![g] = [pc |-> "end"]] /\ retry[g].of \in Action
    BY <1>1, <1>4 DEF RetryEnd, TypeOK
  <2>2. pc \in InRetry /\ act[retry[g].of].err = "set"
    BY <1>1, <2>1, Phases DEF Course, Retrying
  <2>3. Touched \subseteq Touched'
    <3>1. \A b \in Action : b # retry[g].of => act'[b] = act[b]
      BY <1>1, <2>1 DEF Ends, TypeOK
    <3>2. act'[retry[g].of].err = "set"
      BY <1>1, <2>1, <2>2 DEF Ends, TypeOK
    <3> QED
      BY <3>1, <3>2 DEF Touched
  <2>4. ASSUME NEW h \in Action PROVE Paired(h)'
    <3>1. Upgrades(h)' <=> Upgrades(h)
      BY <2>1 DEF Upgrades
    <3>2. h # g => retry'[h] = retry[h]
      BY <1>1, <2>1 DEF TypeOK
    <3>3. retry'[g].pc = "end"
      BY <1>1, <2>1 DEF TypeOK
    <3> QED
      BY <1>1, <1>2, <3>1, <3>2, <3>3 DEF Paired
  <2> QED
    BY <1>1, <1>2, <2>3, <2>4 DEF Known
<1> QED
  BY <1>3, <1>4 DEF RunEnds

\* The steps of a Run, and the death of an application (actions.go).
LEMMA HostKeeps ==
    ASSUME RInv, ~Ended, NEW g \in Action, A!Step(g) \/ A!Crash(g), UNCHANGED vars
    PROVE  Known' /\ \A h \in Action : Paired(h)'
<1>1. TypeOK /\ Course /\ AP!IInv /\ AP!TypeOK /\ Known /\ \A h \in Action : Paired(h)
  BY DEF RInv, IInv, AP!IInv
<1>2. UNCHANGED <<pc, i, act, job, retry>>
  BY DEF vars, retryVars
<1>3. CASE A!Crash(g)
  BY <1>1, <1>2, <1>3 DEF A!Crash, A!runVars, Known, Touched, Paired, Upgrades
<1>4. CASE A!Step(g)
  <2>1. fn[g] # "idle" /\ UNCHANGED <<of, alone>>
    BY <1>4 DEF A!Step, A!FindAppLocal, A!RmBackend, A!JobKill, A!Cp, A!JobStart, A!AddBackend, A!Expire,
       A!FailIn, A!Goto, A!Succeed
  <2>2. \A h \in Action : h # g => fn'[h] = fn[h] /\ last'[h] = last[h]
    BY <1>1, <1>4 DEF A!Step, A!FindAppLocal, A!RmBackend, A!JobKill, A!Cp, A!JobStart, A!AddBackend, A!Expire,
       A!FailIn, A!Goto, A!Succeed, AP!TypeOK
  <2>3. of[g] \in Touched /\ of[g] \in Action
    BY <1>1, <2>1, RunnersTouched DEF Paired
  <2>4. \A b \in Action : b # of[g] => inPool'[b] = inPool[b]
    BY <1>1, <1>4, <2>3 DEF A!Step, A!FindAppLocal, A!RmBackend, A!JobKill, A!Cp, A!JobStart, A!AddBackend, A!Expire,
       A!InPool, A!hostVars, AP!TypeOK
  <2>5. Known'
    BY <1>1, <1>2, <2>3, <2>4 DEF Known, Touched
  <2>6. ASSUME NEW h \in Action PROVE Paired(h)'
    BY <1>1, <1>2, <2>1, <2>2 DEF Paired, Upgrades
  <2> QED
    BY <2>5, <2>6
<1> QED
  BY <1>3, <1>4

\* Every step of a rollout keeps the workflow informed (actions.go Run, Err).
LEMMA KnownStep == RInv /\ [RNext]_allVars => Known' /\ \A g \in Action : Paired(g)'
<1> SUFFICES ASSUME RInv, [RNext]_allVars PROVE Known' /\ \A g \in Action : Paired(g)'
  OBVIOUS
<1>1. TypeOK /\ Course /\ Known /\ \A g \in Action : Paired(g)
  BY DEF RInv, IInv
<1>2. CASE UNCHANGED allVars
  BY <1>1, <1>2 DEF allVars, vars, retryVars, actionVars, Known, Touched, Paired, Upgrades
<1>3. ASSUME ~Ended, UNCHANGED actionVars,
             \/ \E a \in Action : JobCount(a) \/ JobDone(a) \/ JobRelease(a) \/ RetryOutOfRange(a)
             \/ \E ok \in BOOLEAN : Precondition(ok)
             \/ CanariesDone \/ TakeToken \/ CheckBreak \/ LoopDone \/ Waited
             \/ MainAfterRun \/ RetryBegin \/ MainDone \/ RetrySpawn \/ RetryAdvance \/ RetryWaited
      PROVE  Known' /\ \A g \in Action : Paired(g)'
  <2>0. \A a \in Action : RetryOutOfRange(a) => pc # "canaryRun" /\ pc' = "panic" /\ UNCHANGED <<i, act, job, retry>>
    <3>1. IsFiniteSet(queue) /\ Cardinality(queue) \in Nat
      BY <1>1, EndpointSets, FS_Subset, FS_CardinalityType DEF TypeOK
    <3>2. \A a \in Action : RetryOutOfRange(a) => retry[a].pc = "read" /\ ~(i < Cardinality(queue))
      BY <1>1, <3>1 DEF RetryOutOfRange, RetryStart, TypeOK
    <3> QED
      BY <1>1, <1>3, <3>2, Phases DEF RetryOutOfRange, RetryStart, InRetry
  <2>1. UNCHANGED act
    BY <1>3, <2>0 DEF JobCount, JobDone, JobRelease, Precondition, CanariesDone, TakeToken,
       CheckBreak, LoopDone, Waited, MainAfterRun, RetryBegin, MainDone, RetrySpawn, RetryAdvance, RetryWaited
  <2>2. ASSUME NEW g \in Action PROVE Upgrades(g)' <=> Upgrades(g)
    <3>1. job'[g] = "run" <=> job[g] = "run"
      BY <1>1, <1>3, <2>0 DEF TypeOK, JobCount, JobDone, JobRelease, Precondition, CanariesDone,
         TakeToken, CheckBreak, LoopDone, Waited, MainAfterRun, RetryBegin, MainDone, RetrySpawn, RetryAdvance, RetryWaited
    <3>2. UNCHANGED <<pc, i>> \/ (pc # "canaryRun" /\ pc' # "canaryRun")
      BY <1>3, <2>0 DEF JobCount, JobDone, JobRelease, Precondition, CanariesDone,
         TakeToken, CheckBreak, LoopDone, Waited, MainAfterRun, RetryBegin, MainDone, RetrySpawn, RetryAdvance, RetryWaited
    <3> QED
      BY <3>1, <3>2 DEF Upgrades
  <2>3. ASSUME NEW g \in Action PROVE retry'[g].pc = "run" <=> retry[g].pc = "run"
    <3>1. CASE RetrySpawn
      <4>1. pc = "spawn" /\ \A k \in Action : k >= i => retry[k] = [pc |-> "none"]
        BY <1>1, <3>1 DEF RetrySpawn, Course, Retrying, InRetry
      <4>2. UNCHANGED retry \/ retry' = [retry EXCEPT ![i] = [pc |-> "read"]]
        BY <3>1 DEF RetrySpawn
      <4>3. g = i => retry[g].pc = "none"
        BY <1>1, <4>1 DEF TypeOK, Action
      <4> QED
        BY <1>1, <4>2, <4>3 DEF TypeOK
    <3>2. CASE RetryWaited
      BY <3>2 DEF RetryWaited
    <3>3. CASE ~RetrySpawn /\ ~RetryWaited
      <4>1. UNCHANGED retry
        BY <1>3, <2>0, <3>3 DEF JobCount, JobDone, JobRelease, Precondition, CanariesDone, TakeToken,
           CheckBreak, LoopDone, Waited, MainAfterRun, RetryBegin, MainDone, RetryAdvance, retryVars
      <4> QED
        BY <4>1
    <3> QED
      BY <3>1, <3>2, <3>3
  <2>4. ASSUME NEW g \in Action, retry[g].pc = "run", retry'[g].pc = "run" PROVE retry'[g].of = retry[g].of
    <3>1. CASE RetrySpawn
      BY <1>1, <2>3, <2>4, <3>1 DEF RetrySpawn, TypeOK
    <3>2. CASE ~RetrySpawn
      BY <1>3, <2>0, <2>4, <3>2 DEF JobCount, JobDone, JobRelease, Precondition, CanariesDone,
         TakeToken, CheckBreak, LoopDone, Waited, MainAfterRun, RetryBegin, MainDone, RetryAdvance, RetryWaited, retryVars
    <3> QED
      BY <3>1, <3>2
  <2>5. UNCHANGED <<of, fn, last, alone, inPool>>
    BY <1>3 DEF actionVars
  <2> QED
    BY <1>1, <2>1, <2>2, <2>3, <2>4, <2>5 DEF Known, Touched, Paired
<1> QED
  BY <1>2, <1>3, CallKeeps, EndKeeps, HostKeeps DEF RNext, RunStarts, RunStartsAndFails

LEMMA RInvInvariant == RSpec => []RInv
<1>1. RInit => RInv
  <2> SUFFICES ASSUME RInit PROVE RInv
    OBVIOUS
  <2>1. IInv /\ Course /\ pc \in InRun
    BY IInvInit, CourseInit DEF RInit, Init, InRun
  <2>2. AP!IInv
    <3>1. AP!Init
      BY DEF RInit, A!Init, AP!Init
    <3> QED
      BY <3>1, ActionsExist, AP!IInvInit
  <2>3. Known
    BY DEF RInit, A!Init, Known
  <2>4. \A g \in Action : Paired(g)
    BY DEF RInit, Init, A!Init, Paired, Upgrades
  <2> QED
    BY <2>1, <2>2, <2>3, <2>4, FewInRun DEF RInv
<1>2. RInv /\ [RNext]_allVars => RInv'
  <2> SUFFICES ASSUME RInv, [RNext]_allVars PROVE RInv'
    OBVIOUS
  <2>1. [Next]_vars
    BY WorkflowStep DEF RInv, IInv
  <2>2. [AP!Next]_(AP!vars)
    BY ActionsStep, SameNext DEF A!vars, AP!vars
  <2>3. AP!IInv'
    BY <2>2, AP!IInvStep DEF RInv
  <2> QED
    BY <2>1, <2>3, IInvStep, CourseStep, FewTouchedStep, KnownStep DEF RInv
<1> QED
  BY <1>1, <1>2, PTL DEF RSpec

\* A rollout leaves at most MaxFailures + Concurrency backends out of the load
\* balancer, whatever fails in it and however large the fleet is, and at most
\* one while only canaries have been touched (workflow.go, actions.go).
THEOREM CapacityIsKept == RSpec => []CapacityKept
<1>1. RInv => CapacityKept
  <2> SUFFICES ASSUME RInv PROVE CapacityKept
    OBVIOUS
  <2>1. OutOfPool \in SUBSET Touched
    BY DEF RInv, Known, OutOfPool
  <2>2. /\ Cardinality(OutOfPool) <= Cardinality(Touched) /\ Cardinality(OutOfPool) \in Nat
    BY <2>1, TouchedSet, FS_Subset, FS_CardinalityType
  <2>3. Cardinality(OutOfPool) <= MaxFailures + Concurrency
    BY <2>2, TouchedSet, ConfigAssumption DEF RInv, FewTouched
  <2>4. ASSUME OutOfPool \subseteq Canaries PROVE Cardinality(OutOfPool) <= 1
    <3>1. \A a, b \in OutOfPool : a = b
      BY <2>1, <2>4 DEF RInv, FewTouched
    <3>2. PICK x : OutOfPool \in SUBSET ({} \cup {x})
      BY <3>1
    <3>3. IsFiniteSet({}) /\ Cardinality({}) = 0
      BY FS_EmptySet
    <3>4. Cardinality(OutOfPool) <= Cardinality({}) + 1
      BY <3>2, <3>3, OneMore
    <3> QED
      BY <2>2, <3>3, <3>4
  <2> QED
    BY <2>3, <2>4 DEF CapacityKept
<1> QED
  BY <1>1, RInvInvariant, PTL

\* When the program exits, every backend that it has left out of the pool is
\* listed by Status().Failures.
THEOREM NothingIsLeftBehind == RSpec => []NothingLeftBehind
<1>1. RInv => NothingLeftBehind
  BY DEF RInv, Known, Course, ExitsIdle, Touched, NothingLeftBehind, OutOfPool, Failed
<1> QED
  BY <1>1, RInvInvariant, PTL
=============================================================================
