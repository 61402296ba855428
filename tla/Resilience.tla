----------------------------- MODULE Resilience -----------------------------
(***************************************************************************)
(* The two clients of design_for_chaos that fetch a URL for ever: one       *)
(* retries a request with an exponential backoff, the other puts a circuit  *)
(* breaker (sony/gobreaker) before it.                                      *)
(***************************************************************************)
EXTENDS Naturals

CONSTANTS
    Wrapper,        \* {"backoff", "breaker"}
    SlowRounds,     \* rounds that fit in the breaker's Interval at their slowest (1.5 s each)
    FastRounds      \* and at their fastest (0.5 s each)

VARIABLES
    wrapper,        \* which client runs
    backend,        \* what the server does with a request: "ok", "fails" or "settled" (ok for good)
    fetch,          \* where the client is: "ask", "wait", "sent", "done", "failed"
    delay,          \* the backoff's current interval in seconds, 0 before the first retry
    breaker,        \* "closed", "open", "halfOpen"
    failures,       \* the breaker's ConsecutiveFailures
    age,            \* rounds since the breaker's counts were cleared
    inRow           \* failed requests that reached the server since one succeeded or the breaker opened

resilienceVars == <<wrapper, backend, fetch, delay, breaker, failures, age, inRow>>

MaxInterval == 10
Threshold == 5

Init ==
    /\ wrapper \in Wrapper /\ backend \in {"ok", "fails"}
    /\ fetch = "ask" /\ delay = 0
    /\ breaker = "closed" /\ failures = 0 /\ age = 0 /\ inRow = 0

BackendChanges ==
    /\ backend # "settled"
    /\ backend' \in {"ok", "fails", "settled"} \ {backend}
    /\ UNCHANGED <<wrapper, fetch, delay, breaker, failures, age, inRow>>

\* Mistake: the counts are cleared as often as the comment on Interval suggests.
MayClearOften == breaker = "closed" /\ age >= Threshold

\* Interval has passed since the counts were last cleared.
MayClear == breaker = "closed" /\ age >= SlowRounds
MustClear == breaker = "closed" /\ age >= FastRounds

\* A new request of main's loop; backoff.Retry resets its interval.
Ask ==
    /\ fetch = "ask" /\ ~MustClear
    /\ fetch' = IF wrapper = "breaker" /\ breaker = "open" THEN "failed" ELSE "sent"
    /\ delay' = 0
    /\ UNCHANGED <<wrapper, backend, breaker, failures, age, inRow>>

------------------------- (* exponential backoff *) -------------------------

\* Mistake: the interval is not capped.
NextDelayUncapped == IF delay = 0 THEN 2 ELSE 2 * delay

\* InitialInterval, Multiplier and MaxInterval.
NextDelay == IF delay = 0 THEN 2
             ELSE IF 2 * delay > MaxInterval THEN MaxInterval ELSE 2 * delay

\* One attempt of op: an error and a status other than 200 are retried, for ever.
Attempt ==
    /\ wrapper = "backoff" /\ fetch = "sent"
    /\ IF backend = "fails"
       THEN fetch' = "wait" /\ delay' = NextDelay
       ELSE fetch' = "done" /\ UNCHANGED delay
    /\ UNCHANGED <<wrapper, backend, breaker, failures, age, inRow>>

Waited ==
    /\ fetch = "wait"
    /\ fetch' = "sent"
    /\ UNCHANGED <<wrapper, backend, delay, breaker, failures, age, inRow>>

--------------------------- (* circuit breaker *) ---------------------------

\* A request starts a new generation when the Interval of the last one is over.
Clear ==
    /\ wrapper = "breaker" /\ fetch = "ask" /\ MayClear
    /\ failures' = 0 /\ age' = 0
    /\ UNCHANGED <<wrapper, backend, fetch, delay, breaker, inRow>>

\* ReadyToTrip.
ReadyToTrip(n) == n > Threshold

\* afterRequest looks at the Interval again: when it ended during the request
\* the counts are cleared, and the outcome belongs to no generation any more.
Outdated ==
    /\ wrapper = "breaker" /\ fetch = "sent" /\ MayClear
    /\ fetch' = IF backend = "fails" THEN "failed" ELSE "done"
    /\ inRow' = IF backend = "fails" THEN inRow + 1 ELSE 0
    /\ failures' = 0 /\ age' = 0
    /\ UNCHANGED <<wrapper, backend, delay, breaker>>

\* Execute: the request was let through, and its outcome is counted.
Execute ==
    /\ wrapper = "breaker" /\ fetch = "sent"
    /\ IF backend = "fails"
       THEN /\ fetch' = "failed" /\ failures' = failures + 1
            /\ breaker' = IF breaker = "halfOpen" \/ ReadyToTrip(failures + 1) THEN "open" ELSE breaker
       ELSE fetch' = "done" /\ failures' = 0 /\ breaker' = "closed"
    /\ age' = IF breaker' = breaker THEN age + 1 ELSE 0
    /\ inRow' = IF backend = "fails" /\ breaker' # "open" THEN inRow + 1 ELSE 0
    /\ UNCHANGED <<wrapper, backend, delay>>

\* Timeout has passed: the next request is let through, as a probe.
HalfOpen ==
    /\ wrapper = "breaker" /\ breaker = "open"
    /\ breaker' = "halfOpen" /\ failures' = 0 /\ age' = 0
    /\ UNCHANGED <<wrapper, backend, fetch, delay, inRow>>

\* main closes the body of a success, sleeps and goes on, also after an error.
GoOn ==
    /\ fetch \in {"done", "failed"}
    /\ fetch' = "ask"
    /\ UNCHANGED <<wrapper, backend, delay, breaker, failures, age, inRow>>

Steps == Ask \/ Attempt \/ Waited \/ Clear \/ Outdated \/ Execute \/ HalfOpen \/ GoOn

Next == Steps \/ BackendChanges

Spec == Init /\ [][Next]_resilienceVars

-----------------------------------------------------------------------------
(* Properties.                                                             *)

\* The type invariant.
TypeOK ==
    /\ wrapper \in Wrapper /\ backend \in {"ok", "fails", "settled"}
    /\ fetch \in {"ask", "wait", "sent", "done", "failed"}
    /\ delay \in {0, 2, 4, 8, 10} /\ breaker \in {"closed", "open", "halfOpen"}
    /\ failures \in 0 .. Threshold + 1 /\ age \in 0 .. FastRounds /\ inRow \in Nat

\* The breaker protects the server: the Interval that ends in the middle of a
\* series of failures lets one failure pass uncounted, and starts the count
\* again, so at most 5 + 1 + 5 failures reach the server in a row (New).
FailuresAreBounded == inRow <= 2 * Threshold + 1

\* "after 5 failures, trip the circuit": a closed breaker has counted fewer
\* than five failures since the last success (the comment on ReadyToTrip).
TripsAfterFive == breaker = "closed" => failures < Threshold

\* Once the server answers for good, both clients succeed again, whatever the
\* state their wrapper was left in (Do of both clients).
FetchesAgain == (backend = "settled") ~> (fetch = "done")
=============================================================================
