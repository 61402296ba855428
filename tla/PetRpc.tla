------------------------------- MODULE PetRpc -------------------------------
(***************************************************************************)
(* What surrounds a call to the pet store: the checks and options of its   *)
(* client (client/client.go), and the metrics, the span and the sampling   *)
(* decision of its handler (server/server.go, telemetry).  What the        *)
(* storage does is module PetStore's.                                      *)
(***************************************************************************)
EXTENDS Naturals, FiniteSets

CONSTANT Call    \* concurrent calls

VARIABLES
    rpc,        \* each call: its method, the caller's options, where it is,
                \* the error it returns and whether it is sampled
    requests, current, errors,    \* the counters of each method
    span,       \* the span of each call: "none", "open", "ok", "error"
    child       \* the sampler that ChangeSampler switches

rpcVars == <<rpc, requests, current, errors, span, child>>

Method == {"AddPets", "UpdatePets", "DeletePets", "SearchPets", "ChangeSampler"}
Measured == Method \ {"ChangeSampler"}
Sampler == {"never", "always", "ratio"}
Sampling == Sampler \cup {"invalid", "missing"}    \* what a request may ask for

\* Where a call is once it has reached the server that runs.
Arrived == {"sent", "work", "metrics", "end", "switch", "answered"}

\* setSampling has put the sampler of the command line in place.
Init ==
    /\ rpc \in [Call -> [method : Method, trace : BOOLEAN, to : {"never"}, at : {"client"},
                         err : {FALSE}, sampled : {FALSE}]]
    /\ requests = [m \in Measured |-> 0] /\ current = requests /\ errors = requests
    /\ span = [c \in Call |-> "none"]
    /\ child \in Sampler

Goto(c, at) == rpc' = [rpc EXCEPT ![c].at = at]

\* The client's own checks: nothing to do, or a pet, filter or sampler that
\* does not validate.
ClientReturns(c) ==
    /\ rpc[c].at = "client"
    /\ Goto(c, "skipped") \/ Goto(c, "refused")
    /\ UNCHANGED <<requests, current, errors, span, child>>

\* handleCallOptions with TraceID assigns to a map that nobody made.
ClientPanics(c) ==
    /\ rpc[c].at = "client"
    /\ Goto(c, "panicked")
    /\ UNCHANGED <<requests, current, errors, span, child>>

\* The request arrives, from this client or from another that asks for a trace
\* in its metadata or sends what this one refuses.
Send(c) ==
    /\ rpc[c].at = "client"
    /\ \E to \in IF rpc[c].method = "ChangeSampler" THEN Sampling ELSE {"never"} :
         rpc' = [rpc EXCEPT ![c].at = IF rpc[c].method = "ChangeSampler" THEN "switch" ELSE "sent", ![c].to = to]
    /\ UNCHANGED <<requests, current, errors, span, child>>

\* Sampler.ShouldSample.  No caller's span reaches the server.
Decisions(c) ==
    IF rpc[c].trace THEN {TRUE}
    ELSE CASE child = "never" -> {FALSE} [] child = "always" -> {TRUE} [] child = "ratio" -> BOOLEAN

\* doTrace and the counters at the head of a handler.
Enter(c) ==
    /\ rpc[c].at = "sent"
    /\ \E s \in Decisions(c) : rpc' = [rpc EXCEPT ![c].at = "work", ![c].sampled = s]
    /\ span' = [span EXCEPT ![c] = "open"]
    /\ requests' = [requests EXCEPT ![rpc[c].method] = @ + 1]
    /\ current' = [current EXCEPT ![rpc[c].method] = @ + 1]
    /\ UNCHANGED <<errors, child>>

\* Mistake: a search that does not validate returns past the deferred functions.
WorkLeaves(c) ==
    /\ rpc[c].at = "work"
    /\ \/ rpc' = [rpc EXCEPT ![c].at = "metrics"]
       \/ rpc' = [rpc EXCEPT ![c].at = IF rpc[c].method = "SearchPets" THEN "answered" ELSE "metrics", ![c].err = TRUE]
    /\ UNCHANGED <<requests, current, errors, span, child>>

\* Validation and storage: an error of either is the one the handler returns.
Work(c) ==
    /\ rpc[c].at = "work"
    /\ \E e \in BOOLEAN : rpc' = [rpc EXCEPT ![c].at = "metrics", ![c].err = e]
    /\ UNCHANGED <<requests, current, errors, span, child>>

\* The deferred functions, last one first.
Measure(c) ==
    /\ rpc[c].at = "metrics"
    /\ current' = [current EXCEPT ![rpc[c].method] = @ - 1]
    /\ errors' = [errors EXCEPT ![rpc[c].method] = IF rpc[c].err THEN @ + 1 ELSE @]
    /\ Goto(c, "end")
    /\ UNCHANGED <<requests, span, child>>

EndSpan(c) ==
    /\ rpc[c].at = "end"
    /\ span' = [span EXCEPT ![c] = IF rpc[c].err THEN "error" ELSE "ok"]
    /\ Goto(c, "answered")
    /\ UNCHANGED <<requests, current, errors, child>>

\* ChangeSampler and Sampler.Switch.
ChangeSampler(c) ==
    /\ rpc[c].at = "switch" /\ rpc[c].to # "missing"
    /\ rpc' = [rpc EXCEPT ![c].at = "answered", ![c].err = rpc[c].to = "invalid"]
    /\ child' = IF rpc[c].to = "invalid" THEN child ELSE rpc[c].to
    /\ UNCHANGED <<requests, current, errors, span>>

\* A request without a Sampler: ChangeSampler dereferences nil, nobody recovers
\* and the process ends with every call it has served.  The next one counts from
\* zero and samples as its command line says.
ServerPanics(c) ==
    /\ rpc[c].at = "switch" /\ rpc[c].to = "missing"
    /\ rpc' = [d \in Call |-> IF rpc[d].at \in Arrived THEN [rpc[d] EXCEPT !.at = "gone"] ELSE rpc[d]]
    /\ requests' = [m \in Measured |-> 0] /\ current' = requests' /\ errors' = requests'
    /\ span' = [d \in Call |-> "none"]
    /\ child' \in Sampler

Next ==
    \E c \in Call :
        \/ ClientReturns(c) \/ (rpc[c].trace /\ ClientPanics(c)) \/ Send(c)
        \/ Enter(c) \/ Work(c) \/ Measure(c) \/ EndSpan(c) \/ ChangeSampler(c) \/ ServerPanics(c)

-----------------------------------------------------------------------------
(* Properties.                                                             *)

\* The type invariant.
TypeOK ==
    /\ rpc \in [Call -> [method : Method, trace : BOOLEAN, to : Sampling,
                         at : {"client", "skipped", "refused", "panicked", "gone"} \cup Arrived,
                         err : BOOLEAN, sampled : BOOLEAN]]
    /\ requests \in [Measured -> Nat] /\ current \in [Measured -> Nat] /\ errors \in [Measured -> Nat]
    /\ span \in [Call -> {"none", "open", "ok", "error"}] /\ child \in Sampler

Of(m, at) == {c \in Call : rpc[c].method = m /\ rpc[c].at \in at}

\* Whatever calls overlap and however they end, the counters of a method are
\* the number of its calls that came in to the server that runs, that are still
\* at work and that failed, and every call that was answered has a closed span that says whether
\* it did (the deferred functions of the handlers, on every return).
CallsAccounted ==
    \A m \in Measured :
        /\ requests[m] = Cardinality(Of(m, {"work", "metrics", "end", "answered"}))
        /\ current[m] = Cardinality(Of(m, {"work", "metrics"}))
        /\ errors[m] = Cardinality({c \in Of(m, {"end", "answered"}) : rpc[c].err})
        /\ \A c \in Of(m, {"answered"}) : span[c] = IF rpc[c].err THEN "error" ELSE "ok"
=============================================================================
