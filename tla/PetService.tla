----------------------------- MODULE PetService -----------------------------
(***************************************************************************)
(* The life of the pet store's process (petstore.go) and of its server:    *)
(* main sets up sampling, tracing and metrics, starts the server in a      *)
(* goroutine and waits for it; Stop may be called from another goroutine.  *)
(* The load balancer's server has the same Start and Stop.                 *)
(***************************************************************************)
EXTENDS Naturals, Sequences

VARIABLES
    flags,      \* what the command line asks for: valid sampling, the exporters of
                \* traces, an address for the metrics
    svcMain,    \* where main is; "exit", "fatal" and "panic" end the process
    deferred,   \* the deferred stop functions of main, last one first
    flushed,    \* what became of each provider's last data: it was not started yet
                \* ("none"), it may hold some, its Shutdown has "sent" or "lost" them
    starter,    \* the goroutine of Start: "none", "lock", "listen", "serve", "returns", "done"
    stopper,    \* a caller of Stop: "none", "lock", "done"
    svcMu       \* who holds the mutex: "free", "starter", "stopper"

svcVars == <<flags, svcMain, deferred, flushed, starter, stopper, svcMu>>

Ended == svcMain \in {"exit", "fatal", "panic"}
Provider == {"traces", "metrics"}

Init ==
    /\ flags \in [sampling : BOOLEAN, exporters : 0 .. 2, otelAddr : BOOLEAN]
    /\ svcMain = "sampling" /\ deferred = <<>>
    /\ flushed = [p \in Provider |-> "none"]
    /\ starter = "none" /\ stopper = "none" /\ svcMu = "free"

\* setSampling and otelExporter (tooManyTrue), which exit on a bad flag.
ReadFlags ==
    /\ svcMain = "sampling"
    /\ svcMain' = IF flags.sampling /\ flags.exporters <= 1 THEN "tracing" ELSE "fatal"
    /\ UNCHANGED <<flags, deferred, flushed, starter, stopper, svcMu>>

\* A provider is started, and its stop function deferred.
Starts(p) ==
    /\ deferred' = <<p>> \o deferred
    /\ flushed' = [flushed EXCEPT ![p] = "held"]

\* tracing.Start, whose error exits.
StartTracing ==
    /\ svcMain = "tracing"
    /\ \/ svcMain' = "metrics" /\ Starts("traces")
       \/ svcMain' = "fatal" /\ UNCHANGED <<deferred, flushed>>
    /\ UNCHANGED <<flags, starter, stopper, svcMu>>

\* metrics.Start, unless -otelAddr is empty.  It panics when it has no exporter:
\* main's deferred functions run, and the process dies.
StartMetrics ==
    /\ svcMain = "metrics"
    /\ \/ flags.otelAddr /\ svcMain' = "server" /\ Starts("metrics")
       \/ ~flags.otelAddr /\ svcMain' = "server" /\ UNCHANGED <<deferred, flushed>>
       \/ flags.otelAddr /\ svcMain' = "panicking" /\ UNCHANGED <<deferred, flushed>>
    /\ UNCHANGED <<flags, starter, stopper, svcMu>>

\* The goroutine that sends what Start returns to main.
StartServer ==
    /\ svcMain = "server"
    /\ svcMain' = "wait" /\ starter' = "lock"
    /\ UNCHANGED <<flags, deferred, flushed, stopper, svcMu>>

\* Start holds the mutex from before it listens until it returns.
StartLock ==
    /\ starter = "lock" /\ svcMu = "free"
    /\ svcMu' = "starter" /\ starter' = "listen"
    /\ UNCHANGED <<flags, svcMain, deferred, flushed, stopper>>

Listen ==
    /\ starter = "listen"
    /\ starter' \in {"serve", "returns"}
    /\ UNCHANGED <<flags, svcMain, deferred, flushed, stopper, svcMu>>

\* Serve ends by itself only when its listener fails.
ServeFails ==
    /\ starter = "serve"
    /\ starter' = "returns"
    /\ UNCHANGED <<flags, svcMain, deferred, flushed, stopper, svcMu>>

StartReturns ==
    /\ starter = "returns"
    /\ svcMu' = "free" /\ starter' = "done"
    /\ UNCHANGED <<flags, svcMain, deferred, flushed, stopper>>

CallStop ==
    /\ stopper = "none" /\ svcMain = "wait"
    /\ stopper' = "lock"
    /\ UNCHANGED <<flags, svcMain, deferred, flushed, starter, svcMu>>

\* Stop gets the mutex before Start or after it, and grpcServer.Stop makes a
\* later Serve return at once.
Stop ==
    /\ stopper = "lock" /\ svcMu = "free"
    /\ stopper' = "done"
    /\ UNCHANGED <<flags, svcMain, deferred, flushed, starter, svcMu>>

ServeOfStopped ==
    /\ starter = "serve" /\ stopper = "done"
    /\ starter' = "returns"
    /\ UNCHANGED <<flags, svcMain, deferred, flushed, stopper, svcMu>>

\* main receives the error and returns.
MainReturns ==
    /\ svcMain = "wait" /\ starter = "done"
    /\ svcMain' = "returning"
    /\ UNCHANGED <<flags, deferred, flushed, starter, stopper, svcMu>>

\* Each stop function shuts its provider down.  An error of Shutdown, which its
\* time limit may be, is handed to otel.Handle, and the exit goes on.
RunDeferred ==
    /\ svcMain \in {"returning", "panicking"} /\ deferred # <<>>
    /\ \E end \in {"sent", "lost"} : flushed' = [flushed EXCEPT ![Head(deferred)] = end]
    /\ deferred' = Tail(deferred)
    /\ UNCHANGED <<flags, svcMain, starter, stopper, svcMu>>

MainEnds ==
    /\ svcMain \in {"returning", "panicking"} /\ deferred = <<>>
    /\ svcMain' = IF svcMain = "returning" THEN "exit" ELSE "panic"
    /\ UNCHANGED <<flags, deferred, flushed, starter, stopper, svcMu>>

Steps ==
    /\ ~Ended
    /\ \/ ReadFlags \/ StartTracing \/ StartMetrics \/ StartServer \/ StartLock \/ Listen \/ StartReturns
       \/ Stop \/ ServeOfStopped \/ MainReturns \/ RunDeferred \/ MainEnds

Next == Steps \/ (~Ended /\ (ServeFails \/ CallStop))

Spec == Init /\ [][Next]_svcVars /\ WF_svcVars(Steps)

-----------------------------------------------------------------------------
(* Properties.                                                             *)

\* The type invariant.
TypeOK ==
    /\ flags \in [sampling : BOOLEAN, exporters : 0 .. 2, otelAddr : BOOLEAN]
    /\ flushed \in [Provider -> {"none", "held", "sent", "lost"}]
    /\ svcMain \in {"sampling", "tracing", "metrics", "server", "wait", "returning", "panicking",
                    "exit", "fatal", "panic"}
    /\ Len(deferred) <= 2 /\ \A k \in DOMAIN deferred : deferred[k] \in Provider
    /\ starter \in {"none", "lock", "listen", "serve", "returns", "done"}
    /\ stopper \in {"none", "lock", "done"} /\ svcMu \in {"free", "starter"}

\* A process that ends by itself has shut down every provider it started, with
\* what luck, also when the setup fails half-way; only log.Fatal skips that, and
\* it comes before anything was started (main: the deferred stop functions).
FlushedAtExit ==
    /\ Ended => \A p \in Provider : flushed[p] # "held"
    /\ svcMain = "exit" => flushed["traces"] # "none" /\ (flags.otelAddr => flushed["metrics"] # "none")
    /\ svcMain = "panic" => flushed["metrics"] = "none"

\* "Stop stops the server": a call of Stop, also one that finds the server
\* serving, returns, or the process has ended (server.go: the comments on Start
\* and Stop).
StopStopsServer == (stopper = "lock" /\ starter = "serve") ~> (stopper = "done" \/ Ended)
=============================================================================
