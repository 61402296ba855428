----------------------------- MODULE Telemetry -----------------------------
(***************************************************************************)
(* The demonstrations of observability/: a server and a client that send   *)
(* their spans, and in two of the three demonstrations their measurements, *)
(* to a collector, and are to push the last of them when they end.         *)
(***************************************************************************)
EXTENDS FiniteSets, Naturals

CONSTANTS
    MaxRequests     \* bound: requests the client makes

VARIABLES
    demo,           \* what this pair of programs does
    collector,      \* the collector listens (once it does, it stays)
    proc,           \* where each program is; "exit", "fatal" and "panic" end it
    queued,         \* ended spans of each program that its batch processor still holds
    exported,       \* spans of each program that reached the collector
    counted,        \* requests each program has counted
    pushed,         \* what the collector knows of these counts
    handling        \* the server's handler: "idle", "busy", "answered"

telemetryVars == <<demo, collector, proc, queued, exported, counted, pushed, handling>>

Process == {"server", "client"}
Dead == {"exit", "fatal", "panic", "stopped"}

\* The three pairs: whether they measure, and what a server does with the
\* error of ListenAndServe.
Tracing == [metrics |-> FALSE, listenError |-> "returning"]
Metrics == [metrics |-> TRUE, listenError |-> "fatal"]
Alerting == [metrics |-> TRUE, listenError |-> "fatal"]

Init ==
    /\ demo \in {Tracing, Metrics, Alerting} /\ collector \in BOOLEAN
    /\ proc = [p \in Process |-> IF demo.metrics THEN "metrics" ELSE "traces"]
    /\ queued = [p \in Process |-> 0] /\ exported = [p \in Process |-> 0]
    /\ counted = [p \in Process |-> 0] /\ pushed = [p \in Process |-> 0]
    /\ handling = "idle"

CollectorStarts ==
    /\ ~collector /\ collector' = TRUE
    /\ UNCHANGED <<demo, proc, queued, exported, counted, pushed, handling>>

\* initMetrics, which panics before main has deferred anything.
InitMetrics(p) ==
    /\ proc[p] = "metrics"
    /\ proc' = [proc EXCEPT ![p] = "traces"] \/ proc' = [proc EXCEPT ![p] = "panic"]
    /\ UNCHANGED <<demo, collector, queued, exported, counted, pushed, handling>>

\* initTracer: the exporter's dial blocks until the collector is there, and an
\* error of the resource exits.
InitTracer(p) ==
    /\ proc[p] = "traces" /\ collector
    /\ proc' = [proc EXCEPT ![p] = IF p = "server" THEN "listen" ELSE "run"]
       \/ proc' = [proc EXCEPT ![p] = "fatal"]
    /\ UNCHANGED <<demo, collector, queued, exported, counted, pushed, handling>>

\* main of the server.
Listen ==
    /\ proc["server"] = "listen"
    /\ proc' = [proc EXCEPT !["server"] = "run"] \/ proc' = [proc EXCEPT !["server"] = demo.listenError]
    /\ UNCHANGED <<demo, collector, queued, exported, counted, pushed, handling>>

\* makeRequest, which panics when the server does not answer: the transport's
\* span has ended, that of the request never ends, and the deferred shutdown
\* runs.
MakeRequest ==
    /\ proc["client"] = "run" /\ counted["client"] < MaxRequests
    /\ IF proc["server"] = "run"
       THEN /\ proc' = [proc EXCEPT !["client"] = "waits"] /\ handling' = "busy" /\ UNCHANGED queued
       ELSE /\ proc' = [proc EXCEPT !["client"] = "panicking"] /\ UNCHANGED handling
            /\ queued' = [queued EXCEPT !["client"] = @ + 1]
    /\ UNCHANGED <<demo, collector, exported, counted, pushed>>

\* The server is stopped from outside, also in the middle of a request.
ServerStopped ==
    /\ proc["server"] = "run"
    /\ proc' = [proc EXCEPT !["server"] = "stopped"]
    /\ UNCHANGED <<demo, collector, queued, exported, counted, pushed, handling>>

RequestFails ==
    /\ proc["client"] = "waits" /\ proc["server"] = "stopped" /\ handling = "busy"
    /\ proc' = [proc EXCEPT !["client"] = "panicking"] /\ handling' = "idle"
    /\ queued' = [queued EXCEPT !["client"] = @ + 1]
    /\ UNCHANGED <<demo, collector, exported, counted, pushed>>

\* The server's handler sleeps, counts the request and writes.
Handle ==
    /\ proc["server"] = "run" /\ handling = "busy"
    /\ handling' = "answered"
    /\ counted' = [counted EXCEPT !["server"] = @ + 1]
    /\ queued' = [queued EXCEPT !["server"] = @ + 1]
    /\ UNCHANGED <<demo, collector, proc, exported, pushed>>

\* Mistake: the client counts a request before it has been answered.
ResponseEarly ==
    /\ proc["client"] = "waits"
    /\ proc' = [proc EXCEPT !["client"] = "run"] /\ handling' = "idle"
    /\ counted' = [counted EXCEPT !["client"] = @ + 1]
    /\ queued' = [queued EXCEPT !["client"] = @ + 2]
    /\ UNCHANGED <<demo, collector, exported, pushed>>

\* The rest of the client's round: the spans of the transport and of the
\* request end, and the request is counted.
Response ==
    /\ proc["client"] = "waits" /\ handling = "answered"
    /\ proc' = [proc EXCEPT !["client"] = "run"] /\ handling' = "idle"
    /\ counted' = [counted EXCEPT !["client"] = @ + 1]
    /\ queued' = [queued EXCEPT !["client"] = @ + 2]
    /\ UNCHANGED <<demo, collector, exported, pushed>>

\* The batch span processor and the periodic reader, each at its own time.
ExportSpans(p) ==
    /\ proc[p] \notin Dead /\ queued[p] > 0
    /\ exported' = [exported EXCEPT ![p] = @ + queued[p]] /\ queued' = [queued EXCEPT ![p] = 0]
    /\ UNCHANGED <<demo, collector, proc, counted, pushed, handling>>

ExportCounts(p) ==
    /\ proc[p] \notin Dead /\ demo.metrics /\ pushed[p] # counted[p]
    /\ pushed' = [pushed EXCEPT ![p] = counted[p]]
    /\ UNCHANGED <<demo, collector, proc, queued, exported, counted, handling>>

\* Mistake: the metrics are not closed.
ShutdownTracesOnly(p) ==
    /\ proc[p] \in {"returning", "panicking"}
    /\ proc' = [proc EXCEPT ![p] = IF proc[p] = "returning" THEN "exit" ELSE "panic"]
    /\ UNCHANGED <<demo, collector, queued, exported, counted, pushed, handling>>

\* The deferred shutdown: closeTraces ends the exporter, not the processor in
\* front of it; closeMetrics collects and pushes once more.
Shutdown(p) ==
    /\ proc[p] \in {"returning", "panicking"}
    /\ proc' = [proc EXCEPT ![p] = IF proc[p] = "returning" THEN "exit" ELSE "panic"]
    /\ pushed' = IF demo.metrics THEN [pushed EXCEPT ![p] = counted[p]] ELSE pushed
    /\ UNCHANGED <<demo, collector, queued, exported, counted, handling>>

Next ==
    \/ CollectorStarts \/ Listen \/ MakeRequest \/ ServerStopped \/ RequestFails \/ Handle \/ Response
    \/ \E p \in Process : InitMetrics(p) \/ InitTracer(p) \/ ExportSpans(p) \/ ExportCounts(p) \/ Shutdown(p)

Spec == Init /\ [][Next]_telemetryVars

Ended == counted["client"] = MaxRequests \/ proc["client"] \in Dead

-----------------------------------------------------------------------------
(* Properties.                                                             *)

\* The type invariant.
TypeOK ==
    /\ demo \in [metrics : BOOLEAN, listenError : {"returning", "fatal"}] /\ collector \in BOOLEAN
    /\ proc \in [Process -> Dead \cup {"metrics", "traces", "listen", "run", "waits", "returning", "panicking"}]
    /\ queued \in [Process -> Nat] /\ exported \in [Process -> Nat]
    /\ counted \in [Process -> 0 .. MaxRequests] /\ pushed \in [Process -> 0 .. MaxRequests]
    /\ handling \in {"idle", "busy", "answered"}

\* A client that panics on a request has pushed the measurements of all the
\* requests before it (main, the shutdown of initTraceAndMetricsProvider), and
\* never counts a request that the server has not counted.
CountsArePushed ==
    /\ demo.metrics /\ proc["client"] = "panic" => pushed["client"] = counted["client"]
    /\ counted["client"] <= counted["server"]

\* "pushes any last exports to the receiver" (shutdown): a program that ends by
\* returning or by a panic after its setup leaves no span behind.
LastSpansExported ==
    \A p \in Process : proc[p] \in {"exit", "panic"} => queued[p] = 0
=============================================================================
