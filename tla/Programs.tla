------------------------------ MODULE Programs ------------------------------
(***************************************************************************)
(* The programs of the repository that are one small module each, checked  *)
(* together: an initial state chooses one of them, which then runs alone,  *)
(* and the variables of the others keep an idle value.                     *)
(***************************************************************************)
EXTENDS Naturals, Sequences, FiniteSets

CONSTANTS
    LastIP, Limit, MaxNames,                        \* remoteUname, ping
    Iterations, MaxSignals, Replicas,               \* signals, workloads
    Install, MaxRounds,                             \* the agent
    User, MaxEvents, BufSize, MaxUses,              \* the event log
    Call, MaxPets,                                  \* the pet store's API and client
    Id, Name, Type, Day, MaxLength,                 \* its search
    Wrapper, SlowRounds, FastRounds,                \* the retrying clients
    Conn, MaxConn, MaxRequests,                     \* the quote server, the telemetry demonstrations
    Workflow, Sub, Files,                           \* the emergency stop
    Pattern, URL, Pool, Caller, Request, NoPool,    \* the load balancer
    Cmd, Check,                                     \* its command line
    Lock                                            \* a mutex that nobody holds

\* Nobody is somebody else.
ASSUME NobodyAssumption == Lock \notin Caller \cup {"loop"} /\ NoPool \notin Pool

\* Counts are natural numbers.
ASSUME CountAssumption ==
    /\ {LastIP, Limit, MaxNames, Iterations, MaxSignals, Replicas, MaxEvents, BufSize, MaxUses, MaxPets,
        MaxLength, SlowRounds, FastRounds, MaxConn, MaxRequests} \subseteq Nat
    /\ MaxRounds \in Nat \ {0}

\* More rounds fit in the breaker's Interval, even at their slowest, than there
\* are failures that trip it.
ASSUME RoundsAssumption == SlowRounds > 5

\* Finitely many programs, calls and health checks run at a time.
ASSUME FiniteAssumption == IsFiniteSet(Call) /\ IsFiniteSet(Conn) /\ IsFiniteSet(Cmd) /\ IsFiniteSet(Check)

VARIABLES
    program,
    start, nextIP, chan, stage, worker, printed,
    names, stdin, unended, read, hostCh, reader, pinger, pingMain,
    tool, toolAt, failed, remote, watcher, expired, done, asked, writer, copier,
    sigSent, sigCh, handler, cancelled, exitLock, iter, sigMain,
    depAt, namespace, deferred, panicking, ready, follower, notified,
    installer, handlerAt, temp, installed, started, round, collector, sample,
    event, buf, overflow, user, shared, rendered,
    rpc, requests, current, errors, span, child,
    found, sent, wire, forwarder, out, outOpen, got, reading,
    flags, svcMain, onReturn, flushed, starter, stopper, svcMu,
    wrapper, backend, fetch, delay, breaker, failures, age, inRow,
    asks, client, conn, slots, line, reply, serverUp,
    demo, otel, proc, queued, exported, counted, pushed, handling,
    pets, index, filter,
    file, entries, keys, subs, stopMu, loop, fresh, todo, chans, at, sub, stopBuf, shut, told, crashed,
    pools, routes, mu, state, backends, call, rq, closes,
    ctl, cliCall, check, results, passed, poolNow, poolCount, holders, lists

Scan   == INSTANCE ScanPipeline
Ping   == INSTANCE PingHosts
Ssh    == INSTANCE SshTools
Sig    == INSTANCE Signals
Deploy == INSTANCE Deployer
Agents == INSTANCE Agent
Events == INSTANCE EventLog
Rpc    == INSTANCE PetRpc
Stream == INSTANCE SearchStream
Svc    == INSTANCE PetService WITH deferred <- onReturn
Retry  == INSTANCE Resilience
Quotes == INSTANCE Qotd WITH wire <- line
Demo   == INSTANCE Telemetry WITH collector <- otel
Search == INSTANCE PetFilters
Stop   == INSTANCE EmergencyStop WITH Name <- Workflow, mu <- stopMu, buf <- stopBuf, got <- told
Lb     == INSTANCE LoadBalancer
Cli    == INSTANCE BalancerCli WITH handler <- cliCall

\* The variables of each program, under the names they have here.
scanVars   == <<start, nextIP, chan, stage, worker, printed>>
pingVars   == <<names, stdin, unended, read, hostCh, reader, pinger, pingMain>>
sshVars    == <<tool, toolAt, failed, remote, watcher, expired, done, asked, writer, copier>>
sigVars    == <<sigSent, sigCh, handler, cancelled, exitLock, iter, sigMain>>
depVars    == <<depAt, namespace, deferred, panicking, ready, follower, notified>>
agentVars  == <<installer, handlerAt, temp, installed, started, round, collector, sample>>
logVars    == <<event, buf, overflow, user, shared, rendered>>
rpcVars    == <<rpc, requests, current, errors, span, child>>
streamVars == <<found, sent, wire, forwarder, out, outOpen, got, reading>>
svcVars    == <<flags, svcMain, onReturn, flushed, starter, stopper, svcMu>>
retryVars  == <<wrapper, backend, fetch, delay, breaker, failures, age, inRow>>
qotdVars   == <<asks, client, conn, slots, line, reply, serverUp>>
demoVars   == <<demo, otel, proc, queued, exported, counted, pushed, handling>>
searchVars == <<pets, index, filter>>
stopVars   == <<file, entries, keys, subs, stopMu, loop, fresh, todo, chans, at, sub, stopBuf, shut, told, crashed>>
lbVars     == <<pools, routes, mu, state, backends, call, rq, closes>>
cliVars    == <<ctl, cliCall, check, results, passed, poolNow, poolCount, holders, lists>>

vars == <<program, scanVars, pingVars, sshVars, sigVars, depVars, agentVars, logVars, rpcVars,
          streamVars, svcVars, retryVars, qotdVars, demoVars, searchVars, stopVars, lbVars, cliVars>>

-----------------------------------------------------------------------------
(* The choice of the program.                                              *)

Off == "off"

Program == {"scan", "ping", "ssh", "signals", "deployer", "agent", "events", "rpc", "stream",
            "service", "retry", "quotes", "demo", "search", "stop", "lb", "cli"}

IdleTools ==
    /\ IF program = "scan" THEN Scan!Init
       ELSE start = Off /\ nextIP = Off /\ chan = Off /\ stage = Off /\ worker = Off /\ printed = Off
    /\ IF program = "ping" THEN Ping!Init
       ELSE /\ names = Off /\ stdin = Off /\ unended = Off /\ read = Off
            /\ hostCh = Off /\ reader = Off /\ pinger = Off /\ pingMain = Off
    /\ IF program = "ssh" THEN Ssh!Init
       ELSE /\ tool = Off /\ toolAt = Off /\ failed = Off /\ remote = Off /\ watcher = Off
            /\ expired = Off /\ done = Off /\ asked = Off /\ writer = Off /\ copier = Off
    /\ IF program = "signals" THEN Sig!Init
       ELSE /\ sigSent = Off /\ sigCh = Off /\ handler = Off /\ cancelled = Off
            /\ exitLock = Off /\ iter = Off /\ sigMain = Off
    /\ IF program = "deployer" THEN Deploy!Init
       ELSE /\ depAt = Off /\ namespace = Off /\ deferred = Off /\ panicking = Off
            /\ ready = Off /\ follower = Off /\ notified = Off
    /\ IF program = "agent" THEN Agents!Init
       ELSE /\ installer = Off /\ handlerAt = Off /\ temp = Off /\ installed = Off
            /\ started = Off /\ round = Off /\ collector = Off /\ sample = [f \in Agents!Figure |-> 0]
    /\ IF program = "retry" THEN Retry!Init
       ELSE /\ wrapper = Off /\ backend = Off /\ fetch = Off /\ delay = Off
            /\ breaker = Off /\ failures = Off /\ age = Off /\ inRow = Off
    /\ IF program = "quotes" THEN Quotes!Init
       ELSE /\ asks = Off /\ client = [c \in Conn |-> Off] /\ conn = Off /\ slots = Off
            /\ line = Off /\ reply = Off /\ serverUp = Off
    /\ IF program = "demo" THEN Demo!Init
       ELSE /\ demo = Off /\ otel = Off /\ proc = Off /\ queued = Off /\ exported = Off
            /\ counted = Off /\ pushed = Off /\ handling = Off

IdleServers ==
    /\ IF program = "events" THEN Events!Init
       ELSE event = Off /\ buf = Off /\ overflow = Off /\ user = Off /\ shared = Off /\ rendered = Off
    /\ IF program = "rpc" THEN Rpc!Init
       ELSE rpc = Off /\ requests = Off /\ current = Off /\ errors = Off /\ span = Off /\ child = Off
    /\ IF program = "stream" THEN Stream!Init
       ELSE /\ found = Off /\ sent = Off /\ wire = Off /\ forwarder = Off
            /\ out = Off /\ outOpen = FALSE /\ got = Off /\ reading = FALSE
    /\ IF program = "service" THEN Svc!Init
       ELSE /\ flags = Off /\ svcMain = Off /\ onReturn = Off /\ flushed = Off
            /\ starter = Off /\ stopper = Off /\ svcMu = Off
    /\ IF program = "search" THEN Search!Init
       ELSE pets = Off /\ index = Off /\ filter = Off
    /\ IF program = "stop" THEN Stop!Init
       ELSE /\ file = [is |-> Off, map |-> [n \in Workflow |-> "absent"]]
            /\ entries = Off /\ keys = Off /\ subs = Off /\ stopMu = Off
            /\ loop = Off /\ fresh = Off /\ todo = Off /\ chans = Off /\ at = Off
            /\ sub = [s \in Sub |-> [pc |-> Off]] /\ stopBuf = Off
            /\ shut = [s \in Sub |-> FALSE] /\ told = Off /\ crashed = FALSE
    /\ IF program = "lb" THEN Lb!Init
       ELSE /\ pools = Off /\ routes = Off /\ mu = Off /\ state = Off
            /\ backends = Off /\ call = Off /\ rq = [r \in Request |-> Off] /\ closes = Off
    /\ IF program = "cli" THEN Cli!Init
       ELSE /\ ctl = Off /\ cliCall = Off /\ results = Off /\ passed = Off
            /\ check = [c \in Cmd |-> [k \in Check |-> Off]]
            /\ poolNow = Off /\ poolCount = Off /\ holders = Off /\ lists = [p \in {} |-> Off]

Init == program \in Program /\ IdleTools /\ IdleServers

-----------------------------------------------------------------------------
(* The steps of each program, the others standing still.                   *)

\* Nothing but the program p moves.
Only(p) ==
    /\ UNCHANGED program
    /\ IF p = "scan" THEN TRUE ELSE UNCHANGED scanVars
    /\ IF p = "ping" THEN TRUE ELSE UNCHANGED pingVars
    /\ IF p = "ssh" THEN TRUE ELSE UNCHANGED sshVars
    /\ IF p = "signals" THEN TRUE ELSE UNCHANGED sigVars
    /\ IF p = "deployer" THEN TRUE ELSE UNCHANGED depVars
    /\ IF p = "agent" THEN TRUE ELSE UNCHANGED agentVars
    /\ IF p = "events" THEN TRUE ELSE UNCHANGED logVars
    /\ IF p = "rpc" THEN TRUE ELSE UNCHANGED rpcVars
    /\ IF p = "stream" THEN TRUE ELSE UNCHANGED streamVars
    /\ IF p = "service" THEN TRUE ELSE UNCHANGED svcVars
    /\ IF p = "retry" THEN TRUE ELSE UNCHANGED retryVars
    /\ IF p = "quotes" THEN TRUE ELSE UNCHANGED qotdVars
    /\ IF p = "demo" THEN TRUE ELSE UNCHANGED demoVars
    /\ IF p = "search" THEN TRUE ELSE UNCHANGED searchVars
    /\ IF p = "stop" THEN TRUE ELSE UNCHANGED stopVars
    /\ IF p = "lb" THEN TRUE ELSE UNCHANGED lbVars
    /\ IF p = "cli" THEN TRUE ELSE UNCHANGED cliVars

\* What ends, or waits for ever as its module says, rests.
AtRest ==
    /\ program = "scan" => Scan!Ended
    /\ program = "ping" => Ping!Ended
    /\ program = "ssh" => Ssh!Ended \/ Ssh!SshWaits
    /\ program = "signals" => Sig!Ended
    /\ program = "deployer" => Deploy!Ended
    /\ program = "service" => Svc!Ended
    /\ program = "quotes" => Quotes!Ended
    /\ program = "demo" => Demo!Ended
    /\ program = "cli" => Cli!Ended
    /\ program = "stream" => ~reading \/ Stream!CallerSawEnd
    /\ program \notin {"retry", "search", "lb"}
    /\ Only(Off)

Next ==
    \/ program = "scan" /\ Scan!Next /\ Only("scan")
    \/ program = "ping" /\ Ping!Next /\ Only("ping")
    \/ program = "ssh" /\ Ssh!Next /\ Only("ssh")
    \/ program = "signals" /\ Sig!Next /\ Only("signals")
    \/ program = "deployer" /\ Deploy!Next /\ Only("deployer")
    \/ program = "agent" /\ Agents!Next /\ Only("agent")
    \/ program = "events" /\ Events!Next /\ Only("events")
    \/ program = "rpc" /\ Rpc!Next /\ Only("rpc")
    \/ program = "stream" /\ Stream!Next /\ Only("stream")
    \/ program = "service" /\ Svc!Next /\ Only("service")
    \/ program = "retry" /\ Retry!Next /\ Only("retry")
    \/ program = "quotes" /\ Quotes!Next /\ Only("quotes")
    \/ program = "demo" /\ Demo!Next /\ Only("demo")
    \/ program = "search" /\ Search!Next /\ Only("search")
    \/ program = "stop" /\ Stop!Next /\ Only("stop")
    \/ program = "lb" /\ Lb!Next /\ Only("lb")
    \/ program = "cli" /\ Cli!Next /\ Only("cli")
    \/ AtRest

\* Each program's own goroutines run; its environment owes it nothing.
Fairness ==
    /\ WF_sshVars(program = "ssh" /\ Ssh!Steps)
    /\ WF_streamVars(program = "stream" /\ Stream!Steps)
    /\ WF_retryVars(program = "retry" /\ Retry!Steps)
    /\ WF_retryVars(program = "retry" /\ Retry!HalfOpen)
    /\ \A c \in Conn : WF_qotdVars(program = "quotes" /\ Quotes!Step(c))
    /\ WF_cliVars(program = "cli" /\ Cli!CheckSteps)
    /\ SF_stopVars(program = "stop" /\ ~crashed /\ Stop!LoopStep)
    /\ \A s \in Sub : SF_stopVars(program = "stop" /\ ~crashed /\ Stop!SubscribeAppend(s))

Spec == Init /\ [][Next]_vars /\ Fairness

-----------------------------------------------------------------------------
(* Properties.  Each is stated, and named, in the module it is about.      *)

\* The type invariant of the program that runs.
TypeOK ==
    CASE program = "scan" -> Scan!TypeOK [] program = "ping" -> Ping!TypeOK
      [] program = "ssh" -> Ssh!TypeOK [] program = "signals" -> Sig!TypeOK
      [] program = "deployer" -> Deploy!TypeOK [] program = "agent" -> Agents!TypeOK
      [] program = "events" -> Events!TypeOK [] program = "rpc" -> Rpc!TypeOK
      [] program = "stream" -> Stream!TypeOK [] program = "service" -> Svc!TypeOK
      [] program = "retry" -> Retry!TypeOK [] program = "quotes" -> Quotes!TypeOK
      [] program = "demo" -> Demo!TypeOK [] program = "stop" -> Stop!TypeOK
      [] program = "lb" -> Lb!TypeOK [] program = "cli" -> Cli!TypeOK [] program = "search" -> TRUE

\* What the end of a process says of its work is true: the exits of remoteUname,
\* ping, expect, signals, workloads, the pet store and the telemetry demonstrations.
ExitsAreHonest ==
    /\ program = "scan" => Scan!HostsReportedOnce
    /\ program = "ping" => Ping!OkMeansReported
    /\ program = "ssh" => Ssh!InstallHonest
    /\ program = "signals" => Sig!ExitHonest
    /\ program = "deployer" => Deploy!NamespaceGone
    /\ program = "service" => Svc!FlushedAtExit
    /\ program = "demo" => Demo!CountsArePushed

\* A package that an install left is lost only to another, whose client is told.
PackageIsThere == program = "agent" => Agents!PackageIsThere

\* An event with attributes that nobody shares is rendered as its user made it.
RendersOwnUnlessShared == program = "events" => Events!RendersOwnUnlessShared

\* The counters and spans of the pet store's calls agree with the calls.
CallsAccounted == program = "rpc" => Rpc!CallsAccounted

\* A search that was read to its end is complete or ends with an error.
StreamIsHonest == program = "stream" => Stream!StreamIsHonest

\* Few failed requests in a row get past the circuit breaker.
FailuresAreBounded == program = "retry" => Retry!FailuresAreBounded

\* The slots of the quote server are those of the connections in service.
SlotsAreServed == program = "quotes" => Quotes!SlotsAreServed

\* A search finds the pets that every filter matches.
FoundIsMatching == program = "search" => Search!FoundIsMatching

\* A closed channel holds Stop, and is in no list.
ClosedMeansStopped == program = "stop" => Stop!ClosedMeansStopped

\* A subscriber stays registered until it is stopped.
RegisteredUntilStopped == program = "stop" => Stop!RegisteredUntilStopped

\* Between rounds, subscribers of stopped names have been sent Stop.
StopReachesSubscribers == program = "stop" => Stop!StopReachesSubscribers

\* The mux routes exactly the registered pools, which are open, and no pool is
\* closed twice.  A command takes effect once, if it does.
PoolsAreSound ==
    /\ program = "lb" => Lb!RoutesArePools /\ Lb!ClosedOnce
    /\ program = "cli" => Cli!CommandsTakeEffectOnce

\* What no step may do: delete a namespace of somebody else, publish older
\* figures than before, route to a removed pool.
NoStepUndoes ==
    /\ Deploy!OthersNamespaceKept
    /\ Agents!SamplesAdvance
    /\ Lb!RoutedToRegistered

\* A stop that stays in es.json is delivered.
StopIsDelivered == program = "stop" => Stop!StopIsDelivered

\* The ssh tools end or wait for the host, a search is read to its end, the
\* retrying clients succeed once their server does, the quote clients and the
\* health checks end.
ProgramsProgress ==
    /\ program = "ssh" => Ssh!EndsOrWaits
    /\ program = "stream" => Stream!StreamIsRead
    /\ program = "retry" => Retry!FetchesAgain
    /\ program = "quotes" => Quotes!ClientsEnd
    /\ program = "cli" => Cli!ChecksEnd
=============================================================================
