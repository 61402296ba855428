# Verification of gofordevopsclass

TLA+ models of the programs of this repository, TLC configurations that check
them on small instances, and TLAPS proofs of the properties that matter most.
Paths below are relative to the repository; abbreviations:
`orch/` = `automation_the_hard_way/orchestration/`,
`pet/` = `kubernetes/petstore-operator/petstore/`,
`p2c.go` = `orch/lb/server/http/p2c.go`,
`es.go` = `design_for_chaos/es/es.go`,
`mem.go` = `pet/server/storage/mem/mem.go`.

To check a run: `tlc -config P2CRace.cfg MCP2C.tla`; the runs and their modules
are in section 3. To check proofs: `tlapm P2C_proofs.tla`, and so on;
`Programs_proofs` takes some minutes.

## 1. The system

The repository is a set of programs of a book on DevOps with Go. Four of them
keep state under concurrency and have runs of their own: the load balancer's
pools, the rollout that upgrades a fleet behind it, the pet store, and the
operator that keeps a pet store in step with Kubernetes. The others are smaller,
and are checked together (`Programs`).

### Upgrading a fleet behind a load balancer (`orch/`)

| part | state | operations | talks to |
|---|---|---|---|
| one pool, `P2C` (`p2c.go`) | two atomic values holding copy-on-write slices, `healthy` and `sick`; a mutex; a `done` channel; a weight and a health mark per backend | `Add`, `Remove`, `Health`, `Close`, `ServeHTTP`; a health loop that starts one goroutine per backend each round | backends over HTTP; called by the gRPC handlers and by the mux |
| pools and routes (`orch/lb/server/http/server.go`, `orch/lb/server/grpc/server.go`) | map of pools, mutex, an atomically replaced mux; the goroutines and the channel of a health check | `AddPool`, `RemovePool`, `GetPool`, request routing; the gRPC handlers; `HealthMultiplexer` | pools |
| client and command line (`orch/lb/client`), setup of a rollout (`orch/orchestration.go`) | deadlines of calls | one command per process | the gRPC server |
| rollout workflow (`orch/workflow/workflow.go`, `orch/orchestration.go`) | `failures` counter, `endState`, a channel of tokens | `Run`: precondition, canaries, general rollout; `RetryFailed`; `Status`; main's retry loop | one `Actions` per endpoint, the load balancer |
| endpoint actions (`orch/actions/actions.go`) | `failedState`, `err`; the endpoint's process and binary; membership of the pool | `Run` over `findAppLocal`, `rmBackend`, `jobKill`, `cp`, `jobStart`, `addBackend` | SSH, the endpoint, the load balancer |

Hard here: the goroutines of a round share the lock their parent holds and race
with each other; a request holds a backend that is being moved; the failure
counter is read while other endpoints are still running; retry goroutines close
over a loop variable, so that two may run one endpoint at once; a run may stop
between any two steps of an endpoint; a
command's deadline passes while its handler goes on. Correct means: only
registered backends serve, once each, and none is lost; weights count requests;
the routes are the registered pools; a command takes effect once; failures and
capacity are bounded; an upgraded endpoint is left alone and a broken one is
reported.

### Pet store (`kubernetes/petstore-operator`)

| part | state | operations |
|---|---|---|
| storage (`mem.go`, `storage.go`) | `ids` and three indexes under an RWMutex | `AddPets`, `UpdatePets`, `DeletePets`, `SearchPets`, which streams with the read lock held |
| API (`pet/server/server.go`) | the storage, the sampler, counters and spans | handlers with deferred accounting; `Start`, `Stop`; `ChangeSampler` |
| client (`pet/client/client.go`) | a goroutine and a channel per search | the calls; `SearchPets` forwards a stream |
| main and providers (`pet/petstore.go`, `pet/server/telemetry`) | tracing and metrics providers | start, deferred stop |
| event log (`pet/server/log/log.go`) | a pool of events: a channel and a `sync.Pool` | `NewEvent`, `Add`, `Done` |
| operator (`controllers/pet_controller.go`) | the Kubernetes resource (spec, finalizer, status id), its cached copy, the store | `Reconcile` with two deferred patches |

Hard: a check under the read lock and a write under a later write lock; stale
index entries; a lock held while something slow happens, or for good; a handler that
leaves by six returns; names that the store trims and its clients do not; an operator that works from an old copy and may die between a call
to the store and the patch that records it. Correct means: every pet is found by
what it is now, a search reads one state, calls return and are counted, and
resources and store converge.

### The small programs

| program | state and goroutines | what must hold |
|---|---|---|
| emergency stop (`es.go`) | entries in an atomic value, subscribers under a mutex, a channel each; one loop | who depends on a name that leaves Go is told, and told last |
| `remoteUname` | three channels, two stages of limited workers, a printer | each host is reported once; nobody sends on a closed channel |
| `ping` | a reader of stdin, a pinger per host | success means that every name was reported |
| `remoteCmd`, `expect` | a watcher of the deadline; a pipe and its copier | they end, or wait for the host in two known places |
| agent (`automation_the_hard_way/agent`) | a directory per package, two published figures | a package is lost only to another install, whose client may be told; figures do not go back |
| `signals` | a channel of capacity one, a lock, a wait group | the exit status is true |
| backoff, circuit breaker | delay; counts of the breaker | the server is spared, the client recovers |
| quote server and four clients (`cli_apps/qotd`) | slots, a connection each | slots are those in service; clients end |
| workload deployer (`kubernetes/workloads`) | a namespace, its deferred deletion, log goroutines | the namespace is gone, and only if it is ours |
| telemetry demonstrations (`observability`) | spans and counts not yet sent | what was counted is pushed at the end |

## 2. Modules

| module | models |
|---|---|
| `PoolRegistry` | what a pool promises: registered backends and the ones in service |
| `P2C` (`MCP2C`, `P2C_proofs`) | `p2c.go`; refines `PoolRegistry` |
| `LoadBalancer` (`LoadBalancer_proofs`) | pools, routes and mux over several patterns; a pool is opaque here |
| `BalancerCli` | one command line, or a rollout's setup, through client, handler validation and health checks to a pool |
| `Workflow` (`MCWorkflow`; proofs in `Rollout_proofs`) | `workflow.go` and main; an endpoint's run is one step with two outcomes |
| `Actions` (`Actions_proofs`) | `actions.go`, for each endpoint |
| `Rollout` (`MCRollout`, `Rollout_proofs`) | `Workflow` composed with `Actions`: the step that ends an endpoint's run becomes the steps of `Actions` |
| `PetSearch` (`PetFilters`) | the indexes and the search, as functions of a value; `PetFilters` chooses a store and a filter |
| `PetStorage` | what the storage promises its callers: a change takes effect at one instant, a search answers from one instant |
| `PetStore` (`MCPetStore`, `PetStore_proofs`) | the storage under concurrent calls, and the API around it; extends `PetSearch`, refines `PetStorage` |
| `PetRpc` | client calls, validation, `ChangeSampler`, counters and spans of the handlers |
| `SearchStream` | a search from the handler through the wire and the client's goroutine to the caller |
| `PetService` | main of the pet store: providers, `Start`, `Stop` |
| `PetKeeper` | what the operator promises: a pet is written and deleted only on behalf of the resource it was made for |
| `PetOperator` (`MCPetOperator`, `PetOperator_proofs`) | `Reconcile` against the API server, its cache and the store; refines `PetKeeper` |
| `EventLog`, `EmergencyStop` (`EmergencyStop_proofs`), `ScanPipeline`, `PingHosts`, `SshTools`, `Agent`, `Signals`, `Resilience`, `Qotd`, `Deployer`, `Telemetry` | one program each, as in the table above (`SshTools`: `remoteCmd` and `expect`; `Resilience`: both retrying clients) |
| `Programs` (`Programs_proofs`) | the sum of the small programs: the initial state chooses one |

Every module starts with its variables, each commented with the field or the
position in the code it stands for; actions are named for the method, or for
the method and the step of it (`RemoveHealthy`, `RemoveSick`). An operator
introduced by `\* Mistake:` is a plausible bug in the definition that follows
it; nothing uses it, and substituting it for that definition makes the property
it was written for fail. They document what each property guards against.

`Programs` is a sum, not a composition: the programs do not interact. Each keeps
its module, its type invariant and its properties; `Programs` names the
instance, gives idle values to the variables of the programs that do not run,
and states one property per question asked of several programs (what an exit
status says, what a step may never undo, who must be answered). Its `AtRest` is
the stutter of a program that has ended; a program that stops anywhere else is a
deadlock, which the run checks.

Correspondence, where it is not one method to one action:

* **P2C.** A slice is a set of objects; an object is a URL and an instance name,
  so two allocations for one URL differ. `addToValue` and `removeFromValue` are
  two steps each, the atomic `Load` and the atomic `Store`, because the
  goroutines of a round interleave between them; under `Add` and `Remove`, which
  hold the lock that a round also needs, the pair is one step per slice.
  `setHealth` is in the step of the health check before it. An object no longer
  referenced can be allocated again (`Referenced`), so there is no bound on the
  number of `Add`s. `ServeHTTP` is: load, two draws, one weight, the other
  weight and the choice, `call`, `done`. Draws may be equal, and a draw that
  races with another may panic in the shared `rand.Rand`. `Parallel` bounds how
  many goroutines of a round are switching a backend at once; `AddKnown` says
  whether callers add a URL the pool has.
* **LoadBalancer.** `RemovePool` is two steps under the lock, since routing reads
  the mux with no lock; `AddBackend` looks the pool up under the lock and uses
  it after.
* **BalancerCli.** One pattern, one backend, several commands at once, each with
  the handler that serves it. `GiveUp` is the deadline of a call: the handler goes
  on. `AddBackend` is the lookup of the pool, `CheckAnswers`, `CheckSends` and
  `TakeResult` the goroutines of `HealthMultiplexer`, `AddToPool` what `P2C.Add`
  does with the result: it looks at the healthy list alone. `lists` says which
  lists of each pool have the backend, `Switch` moves it, as the health loop does,
  and `SwitchPanics` is the panic of a move to a list that has the URL, after which
  the server is started anew without pools.
* **Workflow.** The general loop is `TakeToken`, then `CheckBreak` or
  `CheckStart`; the deferred calls are `JobDone` and `JobRelease`, in the order
  Go runs them. `wg.Wait` is `Waited`. The retry goroutines read the shared loop
  variable (`go.mod` says Go 1.21) in a step of their own, after
  `RetrySpawn` and possibly after `RetryAdvance`.
* **Actions.** A remote step fails before or after its effect. `Run` keeps the
  value its state function returned with an error as `failedState`: always nil,
  so every retry starts from the first state. `Crash` is the application dying
  by itself. A Run belongs to a goroutine and not to an endpoint, since two
  goroutines may run one `Actions` at once, as late retries do: they share
  `failedState`, `err` and the open file that each copies from, of which each then
  gets a part. `alone` is history: no other Run of the endpoint was, or has been,
  under way since this one began.
* **Rollout.** A goroutine of `Actions` is named for the job, the canary or the
  place in the list of a retry. Retries read the loop variable at any time before
  or after it has moved on; one that reads it past the end panics
  (`RetryOutOfRange`).
* **EmergencyStop.** A channel of capacity one is `buf`; `sendStop` sends, or
  empties the channel and tries again, with receives in between. `late` is
  history: a round overlapped the `Subscribe`.
* **PetStore.** The RWMutex is derived from the positions of the calls: a waiting
  writer keeps new readers out. `populate` and the loop of `DeletePets` take a
  step per pet. `leaked` records a read lock that an early return kept. As a
  `PetStorage`, it has the batch as soon as the writer has the lock (`Settled`:
  what the pets will be when the loop is done), and a search is of the pets
  under its read lock (`Asked`). `renewed` is history: the ids that a batch has
  replaced, whose older versions the indexes still name; a search may send these
  without a match, and `PetStorage` says so.
* **PetOperator.** `Get` reads the cached copy `seen`, which `Observe` brings up
  to date at any time; every call to the store and both deferred patches are a
  step each, with a step for its failure; `Restart` of the operator and
  `StoreRestart` (the storage is in memory) can come between any two of them.
  A resource's pet is found by id and key, and an id of the store is never
  given twice while anybody knows it. The store keeps a pet as `AsStored`, under
  the trimmed name (`Trim`), and `InStore` compares that with the name of the
  resource as it is. `UpdateRefused` is an update of an id that the store has lost:
  it fails and leaves the read lock (`lock`), after which no write returns until the
  store restarts; an operator that gives up such a write leaves it waiting, and then
  the searches wait too. `padded` is history. As a `PetKeeper`, `Wanted` are the
  resources that no user has deleted; the finalizer, the cache and the
  `Reconcile` under way are not seen.
* **PetRpc.** Each way out of a handler goes through `Measure` and `EndSpan`, in
  the order Go runs the deferred functions. `ServerPanics` is a `ChangeSampler`
  without a sampler: nobody recovers, so every call that has arrived is gone, and
  the server that is started next counts from zero.
* **PetService.** `flushed` is what became of each provider's last data; a
  `Shutdown` may fail, or run out of its second, and the exit goes on. With an
  empty `-otelAddr` there are no metrics to stop.
* **EventLog.** `buf` is the channel, `overflow` the `sync.Pool`: how often each
  object is in it. `shared` is history: two users had one object.
* **Agent.** `migrate` is `Stat`, `RemoveAll` and `Rename`. `RemoveAll` may leave
  all, or a part (`"rest"`), and its error is dropped; `Rename` may fail for any
  reason. A request that failed there is at `"unmoved"`.
* **Deployer.** A `Create` of the namespace may have taken effect though its answer
  is lost; nothing is deferred then.
* **Qotd.** `TypeInput` and `EndInput` are the user at standard input, `Send` the line of
  a client that has its author from its flags.
* **ScanPipeline.** A stage is its loop (`range`, `limit`, `pass`) and its
  workers; hosts are the last byte of the address, up to `LastIP`.
* **SshTools.** `remoteCmd` and `expect` are two initial states. The watcher of
  `combinedOutput` and the copier of `installExpect` are processes of their own.
* **Signals.** `before` is main between `Notify` and `wg.Add`; a handler started
  then waits for nobody (`early`).
* **Resilience.** `backoff.Retry` and `gobreaker` are external: what they do is
  taken from how the two clients configure and call them. The interval may end
  between requests (`Clear`), or during one, whose outcome then counts for nothing
  (`Outdated`).
* **Telemetry.** `queued` are the spans that the batch processor holds.

## 3. Runs

Each run checks the invariants and properties named in its configuration.
Deadlock is checked in `P2CSerial`, `P2CRequests` and `Programs`; the others say
in their configuration why the program may stop.

| run | configuration | question and answer |
|---|---|---|
| P2CRace | 2 URLs, 2 objects each, 1 caller, 2 goroutines switching, known URLs added again | With every race of a round allowed: only registered backends are on a list (`NoPhantomBackend`), once (`OneObjectPerUrl`), and the pool implements `PoolRegistry` (`RegistrySpec`). |
| P2CSerial | 2 URLs, 2 callers, 1 reader of `Health`, switches one after the other, only new URLs added | Without the two triggers of the defects of section 6: no backend is lost (`NoBackendLost`), each is on the list its last check chose (`OneListEach`), the panics are unreachable (`NeverPanics`), `Health` outside rounds describes one state (`HealthIsOnePicture`), a backend that recovers serves again (`Recovers`), `Close` ends the loop (`CloseStopsLoop`). |
| P2CRequests | 2 URLs, 2 requests | The weight is the number of requests being proxied (`WeightCountsRequests`). |
| P2CLost | 2 URLs, 2 goroutines switching | Violated: `NoBackendLost`. See section 6. |
| WorkflowRun | 6 endpoints, 1 canary, 2 at a time, 2 failures tolerated, 2 retries | How many can have failed (`FailureBound`), what each end state means (`EndStateHonest`), `RunReturns`, and no retry touches an endpoint that was upgraded without a failure (`UpgradedStaysUpgraded`). |
| WorkflowPanic | 3 endpoints | Violated: `RetriesAllFailed`. See section 6. |
| Rollout | 4 endpoints, 2 canaries, 2 at a time, 2 failures tolerated, 1 round of retries | The workflow runs the real actions, with failures, the deadline and crashes anywhere, and retries that read their index late and run one endpoint together. At most MaxFailures + Concurrency backends are ever out of the pool, and one while only canaries were touched (`CapacityKept`); those left out are listed as failed (`NothingLeftBehind`); a Run that no other of its endpoint overlaps replaces the binary out of service (`ReplacedOutOfService`), and its success means the new binary, in the pool (`SuccessMeansUpgraded`). Of two Runs at once neither holds: one truncates what the other has started, or takes out the backend that the other has put back. |
| PetCalls | 2 ids, 2 names, 1 type, 1 day, 2 clients, two searches: for everything and for one name | The storage implements `PetStorage` (`StorageSpec`): a search sends what matches, but for pets that were replaced; `IndexComplete`, and `DeleteReturns` unless a read lock was lost or a client left. |
| Operator | 2 resources, 5 ids, 4 specs (one with blanks around its name), 1 edit, 1 trouble | A trouble is a failed call, a restart of the operator or of the store, a stale read, a new name or type, or a deletion of a resource that has no finalizer yet. As long as no name has had blanks around it, each costs at most one pet that nobody owns (`OrphanPerTrouble`); no `Reconcile` touches the pet of another resource or deletes one that is wanted (`KeeperSpec`); and resources and store converge while the store can be written (`Converges`). |
| Programs | each small program in turn; bounds below | One property per question asked of several programs, with the property of the program's own module behind it. All hold. |
| EventShared | 2 users, 3 events | Violated: `RendersOwn`. See section 6. |
| SpansLost | 2 requests | Violated: `LastSpansExported`. See section 6. |

The properties of `Programs`:

| property | program: what holds |
|---|---|
| `ExitsAreHonest` | `remoteUname`: a scan that ends has printed one record of each host after the given address, none twice, and no worker sends on a closed channel. `ping`: exit 0 means that every name handed over was reported. `expect`: exit 0 means that the question was answered, and the log is complete. `signals`: exit 0 means that the work was done and nothing cancelled. Deployer: the deletion of the namespace it made has been tried, and main returns only if it succeeded, unless the answer to its creation was lost, a signal came before it was caught or a log goroutine panicked. Pet store: every provider that was started has been shut down, which may have failed. Demonstrations: the client pushed what it counted. |
| `PackageIsThere` | agent: a package that an install moved into place is lost only to an install that is between `RemoveAll` and `Rename` or whose `Rename` failed; an install that no other overlaps has installed and started its own |
| `RendersOwnUnlessShared` | event log: `Done` renders an event with attributes as its user made it, and no attributes of an earlier use, unless the pool gave the object to two |
| `CallsAccounted` | pet store: counters and spans of the server that runs agree with its calls, on every way out of a handler |
| `StreamIsHonest` | pet store client: a search read to its end is complete or ends with an error |
| `FailuresAreBounded` | circuit breaker: no more than eleven failures in a row reach the server |
| `SlotsAreServed` | quote server: the slots taken are those of the connections in service |
| `FoundIsMatching` | pet search: counting index hits finds exactly the matching pets, for filters without repetition on a store that has only been added to |
| `PoolsAreSound` | load balancer: between calls the mux has the routes of the registered pools, and no pool is closed twice; command line: a command takes effect once, if it does, an `addBackend` as long as the backend has not left the healthy list |
| `ClosedMeansStopped`, `RegisteredUntilStopped`, `StopReachesSubscribers`, `StopIsDelivered` | emergency stop |
| `NoStepUndoes` | what no step may do: delete another's namespace, publish older figures, route to a removed pool |
| `ProgramsProgress` | the ssh tools end or wait for the host; a search that is read is read to its end; the retrying clients succeed once their server does; the quote clients that have their input, and the health checks, end |

**Bounds.** Two URLs are what a lost store needs: one goroutine's slice must miss
what the other's store wrote. Two objects of a URL are what a duplicate on a
list needs; the proofs of section 5 remove both bounds. Six endpoints with one
canary leave five for a concurrency of two, so that the check is made with
a failure pending in the other slot, and the limit of two is passed by one and by
two. Retries of 2 in place of the program's 3 give a second round that meets
an error the first left. `Rollout` has two canaries, so that one can start when
the other is done, and two endpoints for two slots; two failures are tolerated, so
that both fail and two retries can run one of them at once, from any state that the
failures leave. That an endpoint waits for a token is in `WorkflowRun`, and the
theorems hold for any fleet. Two ids of two names are what makes a key
hold a current and a stale entry; an `Id` is used once (`issued`), as `uuid.New`
never repeats one. Two resources and one trouble are what it takes to take one
resource's pet for the other's; five ids leave room for the pet that a retry
creates, which never has an id that a `Reconcile` still holds.

In `Programs`, `LastIP` = 4 with `Limit` = 2 gives each stage of the scan more
hosts than workers; `MaxNames` = 3, `Iterations` = 2, `MaxSignals` = 3 (one more
than the channel and its handler take), `Replicas` = 2. Two installs meet in
every step; `MaxRounds` = 3 of the agent's collectors let one round fall behind
two others. Two users, three events, a channel of one (`BufSize`) and two uses
are what giving an object twice needs. `MaxPets` = 3 streamed pets and two calls
(`Call`). The search has 2 ids, names, types and days, and lists of up to
`MaxLength` = 2. `SlowRounds` = 20 and `FastRounds` = 60 are the
rounds that fit in the breaker's interval of 30 s, at 1.5 s and at 0.5 s each. One slot
(`MaxConn`) for two connections is the pool at its limit; `MaxRequests` = 3. One
name with two subscribers meets in one list; names do not share state, except
the lock. Two patterns and three pools let a pattern be removed and taken again
while a call still holds the pool it had; two commands and two health checks
each let one check's error come with the other's result on its way.

`N`, `URL`, `Instance`, `Pool`, `Retries`, `Parallel`, `Id`, `MaxEdits`,
`MaxTrouble`, the bounds above and the sizes of the client sets are the only
bounds.

**Symmetry** is declared only in runs without liveness properties.

## 4. Fairness

* **P2C:** weak fairness of the goroutines of a round and of the loop; strong for
  taking the mutex (Go's mutex hands over to a waiter after 1 ms) and for leaving
  the loop (a select chooses at random among the ready cases, so it does not take
  the timer for ever). A `Remove` that has the lock finishes. No caller is obliged
  to call, no request to come, no backend to change.
* **Workflow:** weak fairness of the main goroutine and of each goroutine it
  starts. A run of an endpoint ends because its context expires after ten minutes.
* **PetStore:** strong for the steps of a call that has begun, since the RWMutex
  starves neither readers nor writers; none for beginning one or hanging up. That
  a client still receives is a premise of `DeleteReturns`.
* **PetOperator:** weak fairness of a `Reconcile` under way, of the periodic
  resync of the cache (`Resync`) and of a cached copy that lags (`Observe`);
  strong for beginning on a resource (`Get`), as the work queue passes over no
  resource. Edits, deletions and troubles may stay away. That the store's lock is
  free again and again, and that no name has blanks, are premises of `Converges`;
  without them the property is `Settles`, which is false of the code (section 6).
* **PetService:** in its `Spec`, which `StopStopsServer` is about, weak fairness of
  its goroutines; who calls `Stop` may stay away.
* **Programs:** weak fairness of the goroutines of the ssh tools, of the client's
  forwarding goroutine and the handler that feeds it, of the retrying clients and
  of the breaker's timeout, of a quote client and the connection that serves it, and
  of the goroutines of a health check. The user at standard input (`TypeInput`,
  `EndInput`) owes nothing, so a client that copies it is promised an end only when
  the copy is done. For the emergency stop, strong for the loop (ticker, mutex) and for a
  `Subscribe` that waits for the mutex. Nobody has to call, subscribe, receive or
  cancel, or leave the file alone; a host has to answer nothing.

## 5. Proofs

All for every value of the constants under the named assumptions, and with no
bound on steps. Each theorem about `Spec` goes the same way: an inductive
invariant (`IInv`, or a part named below) holds initially, every action keeps
it (one lemma per action or group of actions), and it implies the property. The
assumptions of the modules are `ParallelAssumption`, `AddKnownAssumption`,
`RequestAssumption` and `HolderAssumption` (`P2C`: `Parallel` positive, `Request`
finite, the values for the lock's holder distinct), `ConfigAssumption`
(`Workflow`: at least one endpoint and one slot, as `config.Validate` requires),
`DayAssumption` (`PetSearch`), `BoundsAssumption` and `TrimAssumption` (`PetOperator`:
finitely many ids, and an empty id that is none of them; a trimmed spec is a spec), and in `Programs`: `CountAssumption`
(counts and bounds are naturals), `NobodyAssumption` (the value for a lock nobody
holds is nobody's, and the one for no pool is no pool), `FiniteAssumption`
(finitely many calls, connections and commands at a time) and `RoundsAssumption`
(more than five rounds of the retrying client fit in the breaker's interval, at
1.5 s in 30 s). What else is needed is a hypothesis of the theorem. `P2C_proofs`, `Rollout_proofs` and
`Programs_proofs` have a part per component, as the sections below say.

`P2C_proofs`:

* `TypeCorrect`: one lemma per group of actions.
* `NoPhantom`, `UniquePerList`: neither invariant is inductive, as a goroutine
  stores a slice it loaded earlier. `IInv` adds `LockHeld`: a round and a
  `Remove` exclude each other although the goroutines that store never take the
  lock, and a goroutine is busy only during a round; and `ChecksMembers`: what
  the goroutines have loaded, and the objects they handle, are of members and
  have one object per URL. A `Remove` could falsify it for a slice in a
  goroutine's hands; `LockHeld` says there is none.
* `ImplementsRegistry`: `Spec => RegistrySpec` by step simulation, from `IInv`.
  `AddStore` maps to `Register`, `RemoveHealthy` to `Deregister`, the stores of a
  round to `Rotate`, the rest to a stutter.
* `WeightsCount`: inductive with `TypeOK` by itself; the argument is about the
  cardinality of the set of requests an object serves.

The second part of `P2C_proofs` (hypothesis `Serial`: one goroutine of a round switches at a
time, and callers add only new URLs; `P2CLost` and section 6 show why both are
needed): `SerialLosesNobody`, `SerialSorts`, `SerialNeverPanics`, `SerialHealth`.
The invariant follows an object through a switch, when it is on no list: at most
one object moves (`OneMoves`), a moving object is where its position says and
every other on the list of its mark (`Where`, `Marked`), the lists are apart
(`Apart`), and a slice in a goroutine's hands is still the current one (`Kept`).
`Picture` says the same of what a `Health` call has read so far.

`Rollout_proofs`, first part (`Workflow`):

* `TypeCorrect`, in particular `tokens <= Concurrency`.
* `FailuresBounded`: `FailureBound` needs that a running goroutine holds a token.
  `IInv` adds `TokensCover`: the tokens are at least the goroutines that have not
  released theirs, and one more while main is between taking and starting. Then
  a start, made with `failures <= MaxFailures`, leaves at most `Concurrency`
  running.
* `UpgradedStays`, `ConcurrencyRespected`, `EndsHonestly`: from `Course`, which
  relates where the main goroutine is to what each endpoint has behind it: those
  beyond the index are untouched (`Place`), `failures` is the number that failed
  (`CountIsRight`), only a failed one is retried (`Retrying`), nothing runs after
  the exit (`ExitsIdle`).

`Actions_proofs` (hypothesis: there is an endpoint): `TypeCorrect`,
`DropsAreReported`, `ReplacedWhileOut`, `SuccessIsHonest`, for any number of
goroutines that run one endpoint, one after the other or at once. `Fine` says what
each state function may rely on in a Run that no other overlaps, whatever the runs
before left; `Undisturbed`, that no goroutine is on the endpoint of such a Run;
`StartsOver`, that a run begins at the first state, without which the chain would
not hold. `Reported` needs none of that.

`Rollout_proofs`, second part: `ImplementsWorkflow` and `ImplementsActions` show that every
step of the composition is a step of each part or leaves it alone, so that the
theorems above carry over (`RolloutReplacesOutOfService`,
`RolloutSuccessIsHonest`). `CapacityIsKept` and `NothingIsLeftBehind` need both
parts together: a backend out of the pool belongs to an endpoint that is being
run or has failed (`Known`), and those are at most MaxFailures + Concurrency at
any time, canaries and retries included (`FewTouched`); a late retry runs an
endpoint that is listed, if not its own, and so adds none.

`LoadBalancer_proofs` (hypothesis `Distinct`: `Lock` is no caller, `NoPool` no
pool): `TypeCorrect`, `RoutesSound`, `ClosesOnce`, `RoutesToRegistered`: what
`PoolsAreSound` and `NoStepUndoes` say of `LoadBalancer`. `RoutesFollow` says how
far the routes may be behind the map, while `RemovePool` is between its steps;
`MutexHeld` that one call is; `CloseCounted` that only a pool that was
registered, and is no longer, has been closed.

`EmergencyStop_proofs` (hypothesis `LockIsNobody`): `TypeCorrect`,
`ClosedIsStopped`, `NobodyIsDropped`, `NobodyIsPassedOver`. The last needs
`NotPassedOver`: within a round, a name that left Go is still to do, is at work
with its channels, or has told its subscribers, and a `Subscribe` that read older
entries is `late`.

`PetStore_proofs` (hypothesis `FiniteIds`): `TypeCorrect`, `PetsStayIndexed`,
`SearchesReadOneState`, and `SearchMissesNothing`: every stored pet that all
filters match is found, for filters of any length. `WriterAlone` keeps readers
and writers apart; `BatchesCover` says that in the middle of a batch every pet
not yet indexed is still to come. `ImplementsStorage` is the refinement of
`PetStorage` (hypotheses `FiniteIds` and `FiltersBounded`: the filters that clients
send have some greatest length). Its abstract state is computed, so most of the
proof says how: a turn of a batch's loop leaves `Settled` as it is, since what it
writes is what the batch said of that id, and `Acquire` is the instant of `Put` or
`Delete`. `Promised` adds what a call must still hold when its abstract step comes:
a batch waits for the lock whole, and a search has sent, or is still to send, each
pet that matches. `SearchMissesNothing` gives that for the search that begins. Of an id
that was never replaced, all entries of the indexes are of the pet as it is, and no
list of a filter is sent with a value twice, so that as many hits as filters are
one of each: what is sent matches.

`PetOperator_proofs`: `TypeCorrect` and `OrphanPerTroubleAlways`. An orphan is
the last of several steps, and the trouble that causes it may lie many steps
back, so the number of orphans is not inductive. `Debt` counts the pets that no
further trouble is needed to lose (`AtRisk`: nobody points to it, or its resource
has it under another key, or the `Reconcile` under way is going to replace or
drop the id), and the one that this `Reconcile` is still to make (`NewAtRisk`).
Each has cost one piece of trouble. `Copy` says what the `Reconcile` may have
done to its copy of the resource by each of its positions. The argument needs
that an id of the store is never one that a `Reconcile` still holds, as
`uuid.New` gives, and that the store keeps the names it is given (`Unpadded`); a name
that it trims ends the account for good, so `IInv` says all this until then. That
names stay specs when trimmed is `TrimAssumption`. `ImplementsKeeper` is the refinement of `PetKeeper`. The store is
called with an id and nothing else, so `Owned` says that an id which a resource,
its cached copy or the `Reconcile` under way has is never that of another
resource's pet, and `Unwanted` that a copy which says its resource is being
deleted is right, however old: a deletion is never taken back.

`Programs_proofs`: every invariant that the run `Programs` checks, and
`NothingUndone` for `NoStepUndoes`. The program never changes (`ProgramStays`), so
the invariant `Inv` is one implication per program, from the program that runs to
its own invariant, and each is kept by the steps of that program alone. The
emergency stop and the load balancer bring theirs: their modules of proofs are
instantiated, and `NobodyAssumption` gives the hypotheses of their theorems. The
others are:

* `ScanInv` (`remoteUname`): each host is in one place of the pipeline, or
  reported, and never in two (`EachOnce`); a channel is closed only after the
  stage that writes to it has no worker left (`ClosedInOrder`). Hence every host
  is reported once and nobody sends on a closed channel, for networks of any size
  and any limit of workers.
* `LogInv` (event log): what is said of a user's event holds only while nobody
  else has been given it, so `Alone` follows that through the channel and the
  `sync.Pool`; `Clean` says that what lies in either was reset, and `Progress`
  what a user has put into the event so far.
* `RpcInv` (API of the pet store): the counters are the cardinalities of the sets
  of calls at work and failing (`Accounted`), the spans likewise (`Spanned`).
* `StreamInv` (client of the pet store): the pets received, in the channel, in the
  goroutine's hands and on the wire are the numbers in sequence (`InOrder`), and
  an end of the channel is that of the wire (`EndsRight`).
* `QuotesInv` (quote server): the slots taken are the number of connections in
  service (`Slotted`).
* `RetryInv` (circuit breaker): the interval clears the counts once at most in the
  middle of a row of failures, as more than five rounds fit in it; a failure that it
  leaves uncounted is one more. So the row is at most the count and six.
* `CliInv` (command line): a command is followed through its handler, its health
  checks and the pool it added, which it alone holds until the backend leaves the healthy list (`HeldByOne`); pools are
  numbered by the commands that made them (`PoolsNumbered`).
* `SearchInv` (pet search): on a store that has only been added to, the indexes
  name exactly each pet. `AtMostOne`, `CountsOnce` and `FiltersAre` then turn the
  count of hits into the filters that match.
* `AgentInv`, `DeployInv`, `SvcInv`, `SigInv`, `SshInv`, `PingInv`, `DemoInv`: what
  each position of the process says of what it has done; `SvcInv` says which
  deferred shutdowns are still to come, and what became of those that ran
  (`Unwinding`); `AgentInv`, what an install that is alone in `migrate` finds there
  (`StartedAlone`).

With these, every invariant of a passing run is a theorem, and so are its action
properties and its refinements. `ConcurrencyKept` and `SearchReadsOneState` are in
no run: the first is proved, and `FailureBound` fails as well when a token is not
waited for; the second follows from `StorageSpec` for the pets, and is proved for
the indexes too. The claims of the second table of section 6 are in no run and
not proved: they are false.

Only model-checked: the liveness properties (`Recovers`, `CloseStopsLoop`,
`RunReturns`, `DeleteReturns`, `Converges`, `StopIsDelivered`,
`ProgramsProgress`), which need ENABLED and with it fairness; and the
counterexamples of section 6.

## 6. Where the code and its documentation part

Four runs end in a counterexample:

* **P2CLost.** In one round, two goroutines load the same slice and the second
  store overwrites the first (`p2c.go:238`). A backend then is on neither list:
  it gets no traffic and no health check until it is added again, while
  `orch/lb/README.md:41` says unhealthy nodes are out "until they pass a health
  check".
* **WorkflowPanic.** `workflow.go:143` reads `ws.Failures[i]` in a goroutine. The
  variable has moved on: an endpoint is run by two goroutines at once and another
  by none, or the index is past the end. The comment at `workflow.go:127` says all
  failed actions are retried.
* **EventShared.** `pet/server/log/log.go:104`: `put` gives an event to the
  channel and, whether the channel took it or not, to the `sync.Pool`. Two calls
  of `NewEvent` then return one object, and the first `Done` renders what the
  second caller named. `log.go:109-110` say an event is stuffed with attributes
  until `Done`, which renders this event.
* **SpansLost.** `observability/metrics/server/main.go:136` shuts down the
  exporter and not the provider, whose batch processor still holds the last
  spans; the comment at `:97` says that the shutdown pushes any last exports.

These claims of comments and documents are stated too, each in the module of the
program it is about, and are as false of the models as of the code. No run is
devoted to them. To see one fail, check it alone under the constants named, with
`Spec`, or `FairSpec` for `Settles` and `OnlyFailedAreRetried`, and without the
deadlock check.

| claim, module, constants | what is said | what the code does |
|---|---|---|
| `OnlyFailedAreRetried`, `MCWorkflow`, as `WorkflowRun` | `workflow.go:127`, `:215`: the failed actions are retried, and listed | `workflow.go:225` asks for `Err`, which nothing clears: an endpoint that a retry upgraded is run again, and stays in `Status().Failures` |
| `SearchesMatch`, `MCPetStore`, as `PetCalls` | `storage.go:24`: a search is for the pets that match | `mem.go:160`: an update leaves the older version's index entries, so the search also sends a pet by its former name, or nil for one that was deleted |
| `OrphansNeedTrouble`, `MCPetOperator`, as `Operator` | `pet_controller.go:174`: a resource's pet is searched for, and found | `storage.go:47` trims the name that is stored and the operator searches for the one it has: with blanks around it, every `Reconcile` creates one more pet |
| `Settles`, `MCPetOperator`, as `Operator` | `pet_controller.go:53`: the current state is moved to be the desired one | `mem.go:142`: the update of an id that the store has lost returns with the read lock held; no write ends until the store restarts |
| `StartsItsPackage`, `Agent`, as `Programs` | `agent/service/service.go:86`: `Install` installs a package and starts it | `:199-205` is under no lock: of two installs in `migrate`, the second moves its package into the place before the first starts what is there |
| `EmptyIsIgnored`, `EventLog`, as `EventShared` | `log.go:110`, `:163`: without attributes, an event is ignored | `log.go:172` asks for a nil slice; an event used before has an empty one and is rendered |
| `AllHostsReported`, `ScanPipeline`, as `Programs` | `remoteUname.go:85`: all host IPs of the network | `remoteUname.go:99` starts after the address as given, not masked; those before it are skipped |
| `TripsAfterFive`, `Resilience`, as `Programs` | `httpclient.go:29`: five failures trip the circuit | `> 5` takes six |
| `StopStopsServer`, `PetService`, no constants | `pet/server/server.go:107`, `:120`: `Start` blocks until `Stop`, which stops the server | `:109`: `Start` keeps the mutex while it serves, so `Stop` waits for ever; so in `orch/lb/server/grpc/server.go:46-63` |
| `RemoveBackendRemoves`, `BalancerCli`, as `Programs` | `orch/lb/README.md:26`: remove a backend from a pool | `orch/lb/client/cli/cli.go:78` calls `AddBackend` |
| `JoinsTheServingPool`, `BalancerCli`, as `Programs` | `orch/lb/client/client.go:140`: the backend joins the pool serving the pattern | `orch/lb/server/grpc/server.go:161` adds to the pool found before the health checks, which may have been removed since; the command succeeds and the backend gets no traffic |

The models also contain, and the code reads, the following.

* `p2c.go:113`: `Add` searches the healthy list only. A sick backend's URL can be
  added again, so that two `addBackend`s succeed, and the next switch of either
  object panics (`p2c.go:308`). This is why `NeverPanics` is checked with
  `AddKnown = FALSE`, and `CommandsTakeEffectOnce` promises one only until the
  backend has left the healthy list.
* `p2c.go:134`: during a switch a backend is on no list, so `Health` can answer
  `PS_EMPTY` for a pool with backends (`lb.proto:20`). Hence `quiet` in
  `HealthIsOnePicture`.
* `orch/lb/server/grpc/server.go:113`: `AddPool` of a taken pattern leaves the new
  pool's health loop running; the comment of `AddPool` (`http/server.go:73`) says
  it panics, and it returns an error.
* `config.go:12`: `Concurrency` is "the number of servers that can be upgraded at
  a time"; the retries ignore it. Hence `round = 0` in `ConcurrencyKept`.
  `config.go:60-62`: an address that does not parse is accepted, as the error
  returned there is nil.
* `workflow.go:143`: retries that read the loop variable late run one endpoint
  twice at once, in `Rollout` too: both then return nil with a binary that one of
  them has cut short, or without the backend in the pool. Hence `alone` in
  `ReplacedOutOfService` and `SuccessMeansUpgraded`.
* `actions.go:98`: `failedState` is always nil after a failed state, so a retry
  starts over (`actions.go:46` says it holds the state that failed); from
  `findAppLocal` it cannot pass an endpoint that is down.
* `es.go:108`: `Subscribe` decides on entries read before it takes the mutex; a
  stop in between is missed. Hence `late`. `es.go:163-165`: after a failed load
  the loop calls `sendStop` with the mutex held, and blocks for ever if anyone is
  subscribed. Hence the premise of `StopIsDelivered`. `es.go:131`: `Cancel` after
  the stop, as the last subscriber, panics, while `es.go:105` asks for it to be
  called.
* `mem.go:124`, `mem.go:142`: an early return keeps the read lock, and every later
  write blocks. `mem.go:326`: a filtered search whose client is gone blocks with
  the read lock held. Hence the premises of `DeleteReturns`, and that of
  `Converges`.
* `mem.go:145`: an update brings back a pet deleted after the check of its id, and
  `PetStorage` accepts that: a batch puts what it holds. `mem.go:301`: a value
  repeated in one filter counts twice. Hence additions only and distinct values in
  `FoundIsMatching`.
* `pet/server/server.go:266`: a `ChangeSampler` without a sampler dereferences nil,
  which ends the server with every call that has arrived.
* `pet/petstore.go:71-76`: a `Shutdown` that fails, or takes more than its second,
  is no error of the exit, and what it was to send is gone; with an empty
  `-otelAddr` there are no metrics at all (`:151`). `FlushedAtExit` promises that
  it was tried.
* Agent, `service.go:199-205`: the error of `RemoveAll` is dropped, and `Rename` may
  fail for any reason, such as another file system, after the old package, or a
  part of it, is gone. The client gets an error; the package is not put back.
* `kubernetes/workloads/main.go:54`: when the answer to the creation of the
  namespace is lost, the namespace may be there, and its deletion is not deferred
  yet.
* The option of the pet store's client that returns a trace id writes to a nil
  map and panics.
* `remoteCmd` and `expect` count and index `os.Args`, flags included, so that
  `-private` leaves no room for the host and the command.
* `ping`: a last line of its input without a newline is dropped.
* `circuitbreakers/httpclient/httpclient.go:26`: the comment says the interval is
  about leaving the half-open state; it clears the counts of a closed breaker, in
  the middle of a series, and the outcome of the request it meets counts for
  nothing. So five, one uncounted, and five more can fail in a row.
* `cli_apps/qotd/server/server.go:88`: a blank line ends the server by a panic.

## 7. What is left out, and the plan

Abstractions in the models: one id occurs once in an update request; each
endpoint is on a machine of its own (`findPID` searches by name); `MaxFailures`
and `CanaryNum` are not negative; the red-black tree is a function from days to
ids, and a reversed birthday range, on which it panics, is not asked for; a name
is not blank when trimmed, which `ValidatePet` refuses; the balancer's client that
was waiting when the server panics gets its error at once; request validation, HTTP details and log text appear only where a property is about them.

Not modelled: generated code (`*.pb.go`, deep copies); the samples, `top`, the
custom flag and the skeleton of a client, a few lines each without state; dialling
(`install_via_sshproxy`, `auth`, `lb.go`); `sysmon_darwin.go`, the same figures
from other files; the registry of metrics and the wrapping of errors, which keep
no state that a call changes; the HTTP reverse proxy beyond one request.

`EmergencyStop`, `LoadBalancer`, `Actions` and `PetStore` state no ASSUME about
their constants; their theorems name what they need as a hypothesis, and every
configuration satisfies it. For the first two, `Programs` assumes it.

Left for later: several endpoints on one machine, where `findPID` may find the
process of another.
