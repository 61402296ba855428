----------------------------- MODULE BalancerCli -----------------------------
(***************************************************************************)
(* The load balancer's command line (lb/client/cli) and the setup of a     *)
(* rollout (orchestration.go), through the client and the gRPC handlers,   *)
(* down to the health checks of the backend that is added.  There is one   *)
(* pattern and one backend; module LoadBalancer has several.               *)
(***************************************************************************)
EXTENDS FiniteSets, Naturals, Sequences

CONSTANTS
    Cmd,        \* the programs that run
    Check       \* the health checks of a pool

VARIABLES
    ctl,        \* each program: its command, whether its fields validate, where it is
    handler,    \* its gRPC call: the method, where it is, the pool it found
    check,      \* the goroutines of HealthMultiplexer: "none", "run", "ok", "bad", "gone"
    results,    \* the channel of each call
    passed,     \* results that the call has taken without an error
    poolNow,    \* the pool under the pattern: its number, or 0
    poolCount,  \* pools registered so far, with one that may be there from the start
    holders,    \* history: the commands that put the backend into each pool
    lists       \* each pool: the lists that have the backend, and whether it
                \* has ever left the healthy one

ctlVars == <<ctl, handler, check, results, passed, poolNow, poolCount, holders, lists>>

\* removeBackend calls Client.AddBackend.
Method == [addPool |-> "AddPool", removePool |-> "RemovePool", addBackend |-> "AddBackend",
           removeBackend |-> "AddBackend", poolHealth |-> "PoolHealth", setup |-> "PoolHealth"]

NoCall == [method |-> "PoolHealth", at |-> "none", pool |-> 0]

Init ==
    /\ ctl \in [Cmd -> [op : DOMAIN Method, good : BOOLEAN, at : {"start"}]]
    /\ handler = [c \in Cmd |-> NoCall]
    /\ check = [c \in Cmd |-> [k \in Check |-> "none"]]
    /\ results = [c \in Cmd |-> <<>>] /\ passed = [c \in Cmd |-> 0]
    /\ poolNow \in {0, 1} /\ poolCount = poolNow
    /\ holders = [p \in 1 .. Cardinality(Cmd) + 1 |-> {}]
    /\ lists = [p \in DOMAIN holders |-> [on |-> {}, left |-> FALSE]]

-----------------------------------------------------------------------------
(* The programs.                                                           *)

Fail(c) == ctl' = [ctl EXCEPT ![c].at = IF ctl[c].op = "setup" THEN "exit1" ELSE "panic"]
Calls(c, m) == handler' = [handler EXCEPT ![c] = [method |-> m, at |-> "start", pool |-> 0]]

\* The arguments, or the file of a rollout, are refused.
BadArgs(c) ==
    /\ ctl[c].at = "start" /\ ~ctl[c].good /\ Fail(c)
    /\ UNCHANGED <<handler, check, results, passed, poolNow, poolCount, holders, lists>>

\* Client.New blocks until the server is there.  What validates a request is
\* the server; a rollout validates its own file and goes no further.
Send(c) ==
    /\ ctl[c].at = "start" /\ (ctl[c].op = "setup" => ctl[c].good)
    /\ ctl' = [ctl EXCEPT ![c].at = "wait"]
    /\ Calls(c, Method[ctl[c].op])
    /\ UNCHANGED <<check, results, passed, poolNow, poolCount, holders, lists>>

\* The deadline of the call, which the PoolHealth of a rollout does not have.
\* The handler goes on.
GiveUp(c) ==
    /\ ctl[c].at = "wait" /\ ~(ctl[c].op = "setup" /\ handler[c].method = "PoolHealth")
    /\ Fail(c)
    /\ UNCHANGED <<handler, check, results, passed, poolNow, poolCount, holders, lists>>

\* A rollout that finds no pool adds one.
Receive(c) ==
    /\ ctl[c].at = "wait" /\ handler[c].at \in {"ok", "error"}
    /\ IF handler[c].at = "ok" THEN ctl' = [ctl EXCEPT ![c].at = "exit0"] /\ UNCHANGED handler
       ELSE IF ctl[c].op = "setup" /\ handler[c].method = "PoolHealth"
       THEN Calls(c, "AddPool") /\ UNCHANGED ctl
       ELSE Fail(c) /\ UNCHANGED handler
    /\ UNCHANGED <<check, results, passed, poolNow, poolCount, holders, lists>>

-----------------------------------------------------------------------------
(* The handlers.                                                           *)

Called(c, m) == handler[c].at = "start" /\ handler[c].method = m
Answer(c, a) == handler' = [handler EXCEPT ![c].at = a]

\* A field that does not validate.  PoolHealth validates nothing.
Refuse(c) ==
    /\ handler[c].at = "start" /\ handler[c].method # "PoolHealth" /\ ~ctl[c].good
    /\ Answer(c, "error")
    /\ UNCHANGED <<ctl, check, results, passed, poolNow, poolCount, holders, lists>>

AddPool(c) ==
    /\ Called(c, "AddPool") /\ ctl[c].good
    /\ IF poolNow # 0 THEN Answer(c, "error") /\ UNCHANGED <<poolNow, poolCount>>
       ELSE /\ poolCount' = poolCount + 1 /\ poolNow' = poolCount'
            /\ handler' = [handler EXCEPT ![c].at = "ok", ![c].pool = poolNow']
    /\ UNCHANGED <<ctl, check, results, passed, holders, lists>>

RemovePool(c) ==
    /\ Called(c, "RemovePool") /\ ctl[c].good
    /\ poolNow' = 0 /\ Answer(c, "ok")
    /\ UNCHANGED <<ctl, check, results, passed, poolCount, holders, lists>>

PoolHealth(c) ==
    /\ Called(c, "PoolHealth")
    /\ Answer(c, IF poolNow = 0 THEN "error" ELSE "ok")
    /\ UNCHANGED <<ctl, check, results, passed, poolNow, poolCount, holders, lists>>

\* AddBackend: GetPool and P2C.Add up to the health check, which the deadline
\* may stop before it starts.
AddBackend(c) ==
    /\ Called(c, "AddBackend") /\ ctl[c].good
    /\ \/ /\ poolNow # 0
          /\ handler' = [handler EXCEPT ![c].at = "checks", ![c].pool = poolNow]
          /\ check' = [check EXCEPT ![c] = [k \in Check |-> "run"]]
       \/ /\ poolNow = 0 \/ ctl[c].at # "wait"
          /\ Answer(c, "error") /\ UNCHANGED check
    /\ UNCHANGED <<ctl, results, passed, poolNow, poolCount, holders, lists>>

\* StatusCheck, with a timeout of its own: the context it is given has no part.
CheckAnswers(c, k) ==
    /\ check[c][k] = "run"
    /\ \E r \in {"ok", "bad"} : check' = [check EXCEPT ![c][k] = r]
    /\ UNCHANGED <<ctl, handler, results, passed, poolNow, poolCount, holders, lists>>

\* Mistake: the channel of the results has no room.
CheckSendsUnbuffered(c, k) ==
    /\ check[c][k] \in {"ok", "bad"} /\ handler[c].at = "checks" /\ results[c] = <<>>
    /\ results' = [results EXCEPT ![c] = Append(@, check[c][k])]
    /\ check' = [check EXCEPT ![c][k] = "gone"]
    /\ UNCHANGED <<ctl, handler, passed, poolNow, poolCount, holders, lists>>

\* The channel has room for every result, taken or not.
CheckSends(c, k) ==
    /\ check[c][k] \in {"ok", "bad"} /\ Len(results[c]) < Cardinality(Check)
    /\ results' = [results EXCEPT ![c] = Append(@, check[c][k])]
    /\ check' = [check EXCEPT ![c][k] = "gone"]
    /\ UNCHANGED <<ctl, handler, passed, poolNow, poolCount, holders, lists>>

\* The first error is the result; the other goroutines are left alone.
TakeResult(c) ==
    /\ handler[c].at = "checks" /\ results[c] # <<>>
    /\ results' = [results EXCEPT ![c] = Tail(@)]
    /\ IF Head(results[c]) = "bad" THEN Answer(c, "error") /\ UNCHANGED passed
       ELSE /\ passed' = [passed EXCEPT ![c] = @ + 1]
            /\ IF passed'[c] = Cardinality(Check) THEN Answer(c, "apply") ELSE UNCHANGED handler
    /\ UNCHANGED <<ctl, check, poolNow, poolCount, holders, lists>>

\* A backend is put on the healthy list, in the pool found before the checks.
Joins(c) ==
    /\ holders' = [holders EXCEPT ![handler[c].pool] = @ \cup {c}]
    /\ lists' = [lists EXCEPT ![handler[c].pool].on = @ \cup {"healthy"}]
    /\ Answer(c, "ok")

\* Mistake: the URL is looked up before the checks only.
AddToPoolTwice(c) ==
    /\ handler[c].at = "apply" /\ Joins(c)
    /\ UNCHANGED <<ctl, check, results, passed, poolNow, poolCount>>

\* P2C.addToValue looks for the URL on the healthy list, and there alone.
AddToPool(c) ==
    /\ handler[c].at = "apply"
    /\ IF "healthy" \in lists[handler[c].pool].on
       THEN Answer(c, "error") /\ UNCHANGED <<holders, lists>>
       ELSE Joins(c)
    /\ UNCHANGED <<ctl, check, results, passed, poolNow, poolCount>>

-----------------------------------------------------------------------------
(* The health loops, and the server as a whole.                            *)

\* A round finds the backend sick, or recovered, and no object of its URL on
\* the other list.  (A round of a closed pool may be under way.)
Switch(p) ==
    /\ \/ lists[p].on = {"healthy"} /\ lists' = [lists EXCEPT ![p] = [on |-> {"sick"}, left |-> TRUE]]
       \/ lists[p].on = {"sick"} /\ lists' = [lists EXCEPT ![p].on = {"healthy"}]
    /\ UNCHANGED <<ctl, handler, check, results, passed, poolNow, poolCount, holders>>

\* With one on the other list it panics (healthyToSick, sickToHealthy).  The
\* server that is started in its place has no pools.
SwitchPanics(p) ==
    /\ lists[p].on = {"healthy", "sick"}
    /\ lists' = [q \in DOMAIN lists |-> [on |-> {}, left |-> TRUE]]
    /\ handler' = [c \in Cmd |-> [handler[c] EXCEPT
                     !.at = IF @ \in {"start", "checks", "apply"} THEN "error" ELSE @]]
    /\ check' = [c \in Cmd |-> [k \in Check |-> IF check[c][k] = "none" THEN "none" ELSE "gone"]]
    /\ results' = [c \in Cmd |-> <<>>]
    /\ poolNow' = 0
    /\ UNCHANGED <<ctl, passed, poolCount, holders>>

Steps(c) ==
    \/ BadArgs(c) \/ Send(c) \/ GiveUp(c) \/ Receive(c)
    \/ Refuse(c) \/ AddPool(c) \/ RemovePool(c) \/ PoolHealth(c) \/ AddBackend(c)
    \/ TakeResult(c) \/ AddToPool(c)

CheckSteps == \E c \in Cmd, k \in Check : CheckAnswers(c, k) \/ CheckSends(c, k)

Next ==
    \/ CheckSteps
    \/ \E c \in Cmd : Steps(c)
    \/ \E p \in DOMAIN lists : Switch(p) \/ SwitchPanics(p)

Spec == Init /\ [][Next]_ctlVars

Ended == \A c \in Cmd : /\ ctl[c].at \in {"exit0", "exit1", "panic"}
                        /\ handler[c].at \in {"none", "ok", "error"}

-----------------------------------------------------------------------------
(* Properties.                                                             *)

CallState == [method : {"AddPool", "RemovePool", "AddBackend", "PoolHealth"}, pool : Nat,
         at : {"none", "start", "checks", "apply", "ok", "error"}]

\* The type invariant.
TypeOK ==
    /\ ctl \in [Cmd -> [op : DOMAIN Method, good : BOOLEAN,
                        at : {"start", "wait", "exit0", "exit1", "panic"}]]
    /\ handler \in [Cmd -> CallState]
    /\ check \in [Cmd -> [Check -> {"none", "run", "ok", "bad", "gone"}]]
    /\ \A c \in Cmd : Len(results[c]) <= Cardinality(Check) /\ passed[c] \in 0 .. Cardinality(Check)
    /\ poolCount \in 0 .. Cardinality(Cmd) + 1 /\ poolNow \in 0 .. poolCount
    /\ \A p \in DOMAIN holders : holders[p] \subseteq Cmd
    /\ lists \in [DOMAIN holders -> [on : SUBSET {"healthy", "sick"}, left : BOOLEAN]]

\* However commands, deadlines and checks overlap, one command at most puts the
\* backend into a pool until it has left the healthy list once, one registers a
\* pool, and one that exits with 0 is one that did: what another command did is
\* an error.  A rollout that gets past its setup has found a pool or made it
\* (cli.go, P2C.Add, which takes the URL of a sick backend again).
CommandsTakeEffectOnce ==
    /\ \A p \in DOMAIN holders : lists[p].left \/ Cardinality(holders[p]) <= 1
    /\ \A c, d \in Cmd : c # d /\ handler[c].method = "AddPool" /\ handler[d].method = "AddPool"
                           /\ handler[c].at = "ok" /\ handler[d].at = "ok" => handler[c].pool # handler[d].pool
    /\ \A c \in Cmd : ctl[c].at = "exit0" =>
         /\ handler[c].method = "AddBackend" => c \in holders[handler[c].pool] /\ passed[c] = Cardinality(Check)
         /\ ctl[c].op = "setup" => poolCount > 0

\* "Remove a backend from a pool" (lb/README.md): a removeBackend that exits
\* with 0 has not put the backend in.
RemoveBackendRemoves ==
    \A c \in Cmd : ctl[c].op = "removeBackend" /\ ctl[c].at = "exit0" => c \notin holders[handler[c].pool]

\* "AddBackend adds backend b from the pool serving pattern" (client.go): the
\* pool that the backend joins is the one under the pattern.
JoinsTheServingPool ==
    [][\A p \in DOMAIN holders : holders'[p] # holders[p] => p = poolNow]_ctlVars

\* Every goroutine of a health check ends, also when another check's error has
\* ended the multiplexer (HealthMultiplexer).
ChecksEnd == \A c \in Cmd, k \in Check : check[c][k] = "run" ~> check[c][k] = "gone"
=============================================================================
