-------------------------- MODULE Programs_proofs --------------------------
(***************************************************************************)
(* Proofs about the programs of module Programs, for every value of their  *)
(* constants that the assumptions of that module allow.                    *)
(***************************************************************************)
EXTENDS Programs, FiniteSetTheorems, SequenceTheorems, TLAPS

StopP == INSTANCE EmergencyStop_proofs WITH Name <- Workflow, mu <- stopMu, buf <- stopBuf, got <- told
LbP   == INSTANCE LoadBalancer_proofs

-----------------------------------------------------------------------------
(* A program runs alone: its steps are those of its module.                *)

LEMMA ProgramStays == [Next]_vars => UNCHANGED program
  BY DEF Next, AtRest, Only, vars

-----------------------------------------------------------------------------
(* The emergency stop.                                                     *)

LEMMA StopAlone == program = "stop" /\ [Next]_vars => [Stop!Next]_stopVars
  BY DEF Next, AtRest, Only, Off, vars

\* The module of its proofs says the same as the module itself.
LEMMA SameStop == (Stop!Init => StopP!Init) /\ ([Stop!Next]_stopVars => [StopP!Next]_(StopP!vars))
<1>1. Stop!Init => StopP!Init
  BY DEF Stop!Init, StopP!Init, Stop!FileState, StopP!FileState, Stop!None, StopP!None, Stop!Status, StopP!Status
<1>2. Stop!Next => StopP!Next
  BY DEF Stop!Next, StopP!Next, Stop!Edit, Stop!LoopStep, Stop!SubStep, Stop!Load, Stop!Compare,
     Stop!StoreEntries, Stop!FailedLock, Stop!StopAll, Stop!SendStopLock, Stop!Send, Stop!Drain,
     Stop!SendStopUnlock, Stop!SubscribeRead, Stop!SubscribeAppend, Stop!Receive, Stop!Cancel, Stop!Forget,
     StopP!Edit, StopP!LoopStep, StopP!SubStep, StopP!Load, StopP!Compare,
     StopP!StoreEntries, StopP!FailedLock, StopP!StopAll, StopP!SendStopLock, StopP!Send, StopP!Drain,
     StopP!SendStopUnlock, StopP!SubscribeRead, StopP!SubscribeAppend, StopP!Receive, StopP!Cancel, StopP!Forget,
     Stop!FileState, StopP!FileState, Stop!None, StopP!None, Stop!Status, StopP!Status,
     Stop!loopVars, StopP!loopVars, Stop!subVars, StopP!subVars
<1> QED
  BY <1>1, <1>2 DEF stopVars, StopP!vars

LEMMA StopInvInit == Init /\ program = "stop" => StopP!IInv
<1>1. Init /\ program = "stop" => Stop!Init
  BY DEF Init, IdleServers
<1> QED
  BY <1>1, SameStop, NobodyAssumption, StopP!IInvInit DEF StopP!LockIsNobody

LEMMA StopInvStep == StopP!IInv /\ program = "stop" /\ [Next]_vars => StopP!IInv'
  BY StopAlone, SameStop, NobodyAssumption, StopP!IInvStep DEF StopP!LockIsNobody

LEMMA StopInvGives ==
    StopP!IInv => Stop!TypeOK /\ Stop!ClosedMeansStopped /\ Stop!RegisteredUntilStopped /\ Stop!StopReachesSubscribers
<1> SUFFICES ASSUME StopP!IInv
             PROVE  Stop!TypeOK /\ Stop!ClosedMeansStopped /\ Stop!RegisteredUntilStopped /\ Stop!StopReachesSubscribers
  OBVIOUS
<1>1. Stop!TypeOK
  BY DEF StopP!IInv, StopP!TypeOK, Stop!TypeOK, Stop!FileState, StopP!FileState, Stop!None, StopP!None,
     Stop!Status, StopP!Status
<1>2. Stop!ClosedMeansStopped
  BY DEF StopP!IInv, StopP!ListsAreOpen, StopP!ClosedKeepsStop, Stop!ClosedMeansStopped
<1>3. Stop!RegisteredUntilStopped
  BY DEF StopP!IInv, StopP!RegisteredUntilStopped, Stop!RegisteredUntilStopped
<1>4. Stop!StopReachesSubscribers
  BY DEF StopP!IInv, StopP!NotPassedOver, Stop!StopReachesSubscribers
<1> QED
  BY <1>1, <1>2, <1>3, <1>4

-----------------------------------------------------------------------------
(* The load balancer.                                                      *)

LEMMA LbAlone == program = "lb" /\ [Next]_vars => [Lb!Next]_lbVars
  BY DEF Next, AtRest, Only, Off, vars

LEMMA SameLb == (Lb!Init => LbP!Init) /\ ([Lb!Next]_lbVars => [LbP!Next]_(LbP!vars))
<1>1. Lb!Init => LbP!Init
  BY DEF Lb!Init, LbP!Init, Lb!Idle, LbP!Idle
<1>2. Lb!Next => LbP!Next
  BY DEF Lb!Next, LbP!Next, Lb!Begin, LbP!Begin, Lb!CallStep, LbP!CallStep, Lb!Become, LbP!Become,
     Lb!Idle, LbP!Idle, Lb!NewPool, LbP!NewPool, Lb!AddPool, LbP!AddPool, Lb!RemovePoolClose,
     LbP!RemovePoolClose, Lb!RemovePoolReplace, LbP!RemovePoolReplace, Lb!GetPool, LbP!GetPool,
     Lb!AddBackend, LbP!AddBackend, Lb!AddBackendRefused, LbP!AddBackendRefused, Lb!RemoveBackend,
     LbP!RemoveBackend, Lb!UnknownPattern, LbP!UnknownPattern, Lb!vars, LbP!vars,
     Lb!Route, LbP!Route, Lb!Served, LbP!Served
<1> QED
  BY <1>1, <1>2 DEF lbVars, LbP!vars

LEMMA LbInvInit == Init /\ program = "lb" => LbP!IInv
<1>1. Init /\ program = "lb" => Lb!Init
  BY DEF Init, IdleServers
<1> QED
  BY <1>1, SameLb, NobodyAssumption, LbP!IInvInit DEF LbP!Distinct

LEMMA LbInvStep == LbP!IInv /\ program = "lb" /\ [Next]_vars => LbP!IInv'
  BY LbAlone, SameLb, NobodyAssumption, LbP!IInvStep DEF LbP!Distinct

LEMMA LbInvGives == LbP!IInv => Lb!TypeOK /\ Lb!RoutesArePools /\ Lb!ClosedOnce
<1> SUFFICES ASSUME LbP!IInv PROVE Lb!TypeOK /\ Lb!RoutesArePools /\ Lb!ClosedOnce
  OBVIOUS
<1>1. Lb!TypeOK
  BY DEF LbP!IInv, LbP!TypeOK, Lb!TypeOK, LbP!CallState, Lb!CallState
<1>2. ASSUME mu = Lock PROVE routes = pools
  <2>1. \A k \in Pattern : routes[k] = pools[k]
    BY <1>2 DEF LbP!IInv, LbP!RoutesFollow
  <2> QED
    BY <2>1 DEF LbP!IInv, LbP!TypeOK
<1>3. Lb!RoutesArePools
  BY <1>2 DEF LbP!IInv, LbP!RegisteredOpen, Lb!RoutesArePools
<1>4. Lb!ClosedOnce
  BY DEF LbP!IInv, LbP!CloseCounted, Lb!ClosedOnce
<1> QED
  BY <1>1, <1>3, <1>4

\* No request is routed to a pool that was never registered, or is gone.
LEMMA LbRoutes == (program = "lb" => LbP!IInv) /\ [Next]_vars =>
    \A r \in Request : rq[r] = NoPool /\ rq'[r] # NoPool =>
        \/ \E k \in Pattern : pools[k] = rq'[r]
        \/ mu # Lock /\ state[rq'[r]] = "closed"
<1>1. CASE program = "lb"
  BY <1>1, LbAlone, SameLb, LbP!RoutesRegistered
<1>2. [Next]_vars /\ program # "lb" => UNCHANGED rq
  BY DEF Next, AtRest, Only, Off, vars, lbVars
<1> QED
  BY <1>1, <1>2

-----------------------------------------------------------------------------
(* The load balancer's command line.                                       *)

\* The commands that have registered a pool.
Made == {c \in Cmd : cliCall[c].method = "AddPool" /\ cliCall[c].at = "ok"}

\* Each result is counted once, and a call has as many as there are checks
\* when it goes on to apply.
ChecksCounted ==
    \A c \in Cmd :
        /\ cliCall[c].method # "AddBackend" \/ cliCall[c].at \in {"none", "start"} => passed[c] = 0
        /\ cliCall[c].at = "checks" => passed[c] < Cardinality(Check) \/ Cardinality(Check) = 0
        /\ cliCall[c].at \in {"checks", "apply"} => cliCall[c].method = "AddBackend"
        /\ cliCall[c].at = "apply" => passed[c] = Cardinality(Check)

\* A pool's number is given once, to the command that registered it, or was
\* there from the start.
PoolsNumbered ==
    /\ poolCount <= 1 + Cardinality(Made)
    /\ \A c \in Cmd : cliCall[c].method = "AddPool" /\ cliCall[c].at = "ok"
                        => cliCall[c].pool \in 1 .. poolCount
    /\ \A c, d \in Cmd : c # d /\ cliCall[c].method = "AddPool" /\ cliCall[d].method = "AddPool"
                           /\ cliCall[c].at = "ok" /\ cliCall[d].at = "ok" => cliCall[c].pool # cliCall[d].pool
    /\ \A c \in Cmd : cliCall[c].method = "AddBackend" /\ cliCall[c].at \in {"checks", "apply", "ok"}
                        => cliCall[c].pool \in 1 .. poolCount
    /\ \A c \in Cmd : cliCall[c].method = "PoolHealth" /\ cliCall[c].at = "ok" => poolCount > 0

\* Until the backend leaves the healthy list of a pool, it is there by the command
\* that added it.
HeldByOne ==
    /\ \A p \in DOMAIN holders : ~lists[p].left =>
          \/ holders[p] = {} /\ lists[p].on = {}
          \/ lists[p].on = {"healthy"} /\ \E c \in Cmd : holders[p] = {c}
    /\ \A c \in Cmd : cliCall[c].method = "AddBackend" /\ cliCall[c].at = "ok" =>
          c \in holders[cliCall[c].pool] /\ passed[c] = Cardinality(Check)

\* What a command has seen of its call.
CommandsFollow ==
    \A c \in Cmd :
        /\ ctl[c].at = "start" => cliCall[c].at = "none"
        /\ ctl[c].at = "exit0" => cliCall[c].at = "ok"
        /\ ctl[c].op = "setup" => cliCall[c].method \in {"PoolHealth", "AddPool"}

CtlState == [op : DOMAIN Cli!Method, good : BOOLEAN, at : {"start", "wait", "exit0", "exit1", "panic"}]

CliTypes ==
    /\ Cli!TypeOK
    /\ results \in [Cmd -> Seq({"ok", "bad"})] /\ passed \in [Cmd -> Nat]
    /\ holders \in [1 .. Cardinality(Cmd) + 1 -> SUBSET Cmd]

CliInv == CliTypes /\ ChecksCounted /\ PoolsNumbered /\ HeldByOne /\ CommandsFollow

LEMMA CliAlone == program = "cli" /\ [Next]_vars => [Cli!Next]_cliVars
  BY DEF Next, AtRest, Only, Off, vars

LEMMA CliConstants ==
    /\ \A S : Cli!Cardinality(S) = Cardinality(S)
    /\ IsFiniteSet(Cmd) /\ Cardinality(Cmd) \in Nat /\ Cardinality(Check) \in Nat
    /\ \A m \in DOMAIN Cli!Method : Cli!Method[m] \in {"AddPool", "RemovePool", "AddBackend", "PoolHealth"}
<1>1. \A S : Cli!Cardinality(S) = Cardinality(S)
  BY DEF Cli!Cardinality, Cardinality
<1>2. IsFiniteSet(Cmd) /\ Cardinality(Cmd) \in Nat /\ Cardinality(Check) \in Nat
  BY FiniteAssumption, FS_CardinalityType
<1>3. \A m \in DOMAIN Cli!Method : Cli!Method[m] \in {"AddPool", "RemovePool", "AddBackend", "PoolHealth"}
  BY DEF Cli!Method
<1> QED
  BY <1>1, <1>2, <1>3

LEMMA CliInvInit == Init /\ program = "cli" => CliInv
<1> SUFFICES ASSUME Cli!Init PROVE CliInv
  BY DEF Init, IdleServers
<1>1. \A c \in Cmd : cliCall[c] = Cli!NoCall
  BY CliConstants DEF Cli!Init
<1>2. CliTypes
  <2>1. cliCall \in [Cmd -> Cli!CallState]
    BY CliConstants DEF Cli!Init, Cli!NoCall, Cli!CallState
  <2>2. /\ ctl \in [Cmd -> CtlState] /\ check \in [Cmd -> [Check -> {"none", "run", "ok", "bad", "gone"}]]
        /\ results \in [Cmd -> Seq({"ok", "bad"})] /\ passed \in [Cmd -> Nat]
        /\ \A c \in Cmd : Len(results[c]) = 0 /\ passed[c] = 0
    BY CliConstants DEF Cli!Init, CtlState
  <2>3. poolCount \in 0 .. Cardinality(Cmd) + 1 /\ poolNow \in 0 .. poolCount
    BY CliConstants DEF Cli!Init
  <2>4. /\ holders \in [1 .. Cardinality(Cmd) + 1 -> SUBSET Cmd]
        /\ lists \in [DOMAIN holders -> [on : SUBSET {"healthy", "sick"}, left : BOOLEAN]]
    BY CliConstants DEF Cli!Init
  <2> QED
    <3>1. poolCount \in 0 .. Cli!Cardinality(Cmd) + 1
      BY <2>3, CliConstants
    <3>2. \A c \in Cmd : Len(results[c]) <= Cli!Cardinality(Check) /\ passed[c] \in 0 .. Cli!Cardinality(Check)
      BY <2>2, CliConstants
    <3> QED
      BY <2>1, <2>2, <2>3, <2>4, <3>1, <3>2 DEF CliTypes, Cli!TypeOK, CtlState
<1>3. Made = {} /\ Cardinality(Made) = 0
  BY <1>1, FS_EmptySet DEF Made, Cli!NoCall
<1>4. PoolsNumbered
  BY <1>1, <1>3, CliConstants DEF Cli!Init, PoolsNumbered, Cli!NoCall
<1>5. ChecksCounted /\ HeldByOne /\ CommandsFollow
  BY <1>1, CliConstants DEF Cli!Init, ChecksCounted, HeldByOne, CommandsFollow, Cli!NoCall
<1> QED
  BY <1>2, <1>4, <1>5 DEF CliInv

\* An answer changes where the call is, and nothing else of it.
LEMMA CliAnswered ==
    ASSUME CliTypes, NEW c \in Cmd, NEW a \in {"none", "start", "checks", "apply", "ok", "error"}, Cli!Answer(c, a)
    PROVE  /\ cliCall' \in [Cmd -> Cli!CallState] /\ \A d \in Cmd : d # c => cliCall'[d] = cliCall[d]
           /\ cliCall'[c].at = a /\ cliCall'[c].method = cliCall[c].method /\ cliCall'[c].pool = cliCall[c].pool
<1> DEFINE r == [cliCall[c] EXCEPT !.at = a]
<1>1. cliCall' = [cliCall EXCEPT ![c] = r] /\ cliCall \in [Cmd -> Cli!CallState]
  BY CliConstants DEF Cli!Answer, CliTypes, Cli!TypeOK
<1>2. r \in Cli!CallState /\ r.at = a /\ r.method = cliCall[c].method /\ r.pool = cliCall[c].pool
  BY <1>1 DEF Cli!CallState
<1> HIDE DEF r
<1> QED
  BY <1>1, <1>2

\* A pool found, or made, is kept with the call.
LEMMA CliFound ==
    ASSUME CliTypes, NEW c \in Cmd, NEW a \in {"checks", "ok"}, NEW n \in Nat,
           cliCall' = [cliCall EXCEPT ![c].at = a, ![c].pool = n]
    PROVE  /\ cliCall' \in [Cmd -> Cli!CallState] /\ \A d \in Cmd : d # c => cliCall'[d] = cliCall[d]
           /\ cliCall'[c].at = a /\ cliCall'[c].method = cliCall[c].method /\ cliCall'[c].pool = n
<1> DEFINE r == [cliCall[c] EXCEPT !.at = a, !.pool = n]
<1>1. cliCall' = [cliCall EXCEPT ![c] = r] /\ cliCall \in [Cmd -> Cli!CallState]
  BY CliConstants DEF CliTypes, Cli!TypeOK
<1>2. r \in Cli!CallState /\ r.at = a /\ r.method = cliCall[c].method /\ r.pool = n
  BY <1>1 DEF Cli!CallState
<1> HIDE DEF r
<1> QED
  BY <1>1, <1>2

\* A command that moves keeps its arguments.
LEMMA CliMoved ==
    ASSUME CliTypes, NEW c \in Cmd, NEW a \in {"wait", "exit0", "exit1", "panic"}, ctl' = [ctl EXCEPT ![c].at = a]
    PROVE  /\ ctl' \in [Cmd -> CtlState] /\ \A d \in Cmd : d # c => ctl'[d] = ctl[d]
           /\ ctl'[c].at = a /\ ctl'[c].op = ctl[c].op
<1> DEFINE r == [ctl[c] EXCEPT !.at = a]
<1>1. ctl' = [ctl EXCEPT ![c] = r] /\ ctl \in [Cmd -> CtlState]
  BY CliConstants DEF CliTypes, Cli!TypeOK, CtlState
<1>2. r \in CtlState /\ r.at = a /\ r.op = ctl[c].op
  BY <1>1 DEF CtlState
<1> HIDE DEF r
<1> QED
  BY <1>1, <1>2

\* The steps of the programs.
LEMMA CliProgramKeeps ==
    ASSUME CliInv, NEW c \in Cmd, Cli!BadArgs(c) \/ Cli!Send(c) \/ Cli!GiveUp(c) \/ Cli!Receive(c)
    PROVE  CliInv'
<1>1. /\ UNCHANGED <<check, results, passed, poolNow, poolCount, holders, lists>>
      /\ cliCall \in [Cmd -> Cli!CallState] /\ ctl \in [Cmd -> CtlState]
  BY CliConstants DEF Cli!BadArgs, Cli!Send, Cli!GiveUp, Cli!Receive, CliInv, CliTypes, Cli!TypeOK, CtlState
<1>2. ASSUME UNCHANGED cliCall, ctl' \in [Cmd -> CtlState], \A d \in Cmd : d # c => ctl'[d] = ctl[d],
             ctl'[c].op = ctl[c].op, ctl'[c].at # "start", ctl'[c].at = "exit0" => cliCall[c].at = "ok"
      PROVE  CliInv'
  <2>1. Made' = Made
    BY <1>2 DEF Made
  <2>2. CliTypes' /\ PoolsNumbered'
    BY <1>1, <1>2, <2>1, CliConstants DEF CliInv, CliTypes, Cli!TypeOK, CtlState, PoolsNumbered
  <2>3. ChecksCounted' /\ HeldByOne' /\ CommandsFollow'
    BY <1>1, <1>2 DEF CliInv, ChecksCounted, HeldByOne, CommandsFollow
  <2> QED
    BY <2>2, <2>3 DEF CliInv
<1>3. ASSUME UNCHANGED cliCall, Cli!Fail(c) PROVE CliInv'
  <2>1. PICK a \in {"exit1", "panic"} : ctl' = [ctl EXCEPT ![c].at = a]
    BY <1>3 DEF Cli!Fail
  <2> QED
    BY <1>2, <1>3, <2>1, CliMoved DEF CliInv
<1>4. ASSUME NEW m \in {"AddPool", "RemovePool", "AddBackend", "PoolHealth"}, Cli!Calls(c, m),
             cliCall[c].at = "none" \/ (cliCall[c].at = "error" /\ cliCall[c].method = "PoolHealth"),
             ctl' \in [Cmd -> CtlState], \A d \in Cmd : d # c => ctl'[d] = ctl[d],
             ctl'[c].op = ctl[c].op, ctl'[c].at = "wait", ctl[c].op = "setup" => m \in {"PoolHealth", "AddPool"}
      PROVE  CliInv'
  <2>1. /\ cliCall' \in [Cmd -> Cli!CallState] /\ \A d \in Cmd : d # c => cliCall'[d] = cliCall[d]
        /\ cliCall'[c].at = "start" /\ cliCall'[c].method = m
    BY <1>1, <1>4 DEF Cli!Calls, Cli!CallState
  <2>2. Made' = Made
    BY <1>4, <2>1 DEF Made
  <2>3. CliTypes'
    BY <1>1, <1>4, <2>1, CliConstants DEF CliInv, CliTypes, Cli!TypeOK, CtlState
  <2>6. PoolsNumbered'
    BY <1>1, <1>4, <2>1, <2>2 DEF CliInv, PoolsNumbered
  <2>4. ChecksCounted'
    BY <1>1, <1>4, <2>1 DEF CliInv, ChecksCounted
  <2>5. HeldByOne' /\ CommandsFollow'
    BY <1>1, <1>4, <2>1 DEF CliInv, HeldByOne, CommandsFollow
  <2> QED
    BY <2>3, <2>4, <2>5, <2>6 DEF CliInv
<1>5. CASE Cli!BadArgs(c) \/ Cli!GiveUp(c)
  BY <1>3, <1>5 DEF Cli!BadArgs, Cli!GiveUp
<1>6. CASE Cli!Send(c)
  <2>1. PICK m \in {"AddPool", "RemovePool", "AddBackend", "PoolHealth"} :
          /\ ctl[c].at = "start" /\ ctl' = [ctl EXCEPT ![c].at = "wait"] /\ Cli!Calls(c, m)
          /\ ctl[c].op = "setup" => m = "PoolHealth"
    BY <1>1, <1>6, CliConstants DEF Cli!Send, CtlState, Cli!Method
  <2>2. cliCall[c].at = "none"
    BY <2>1 DEF CliInv, CommandsFollow
  <2>3. /\ ctl' \in [Cmd -> CtlState] /\ \A d \in Cmd : d # c => ctl'[d] = ctl[d]
        /\ ctl'[c].at = "wait" /\ ctl'[c].op = ctl[c].op
    BY <2>1, CliMoved DEF CliInv
  <2> QED
    BY <1>4, <2>1, <2>2, <2>3
<1>7. CASE Cli!Receive(c)
  <2>1. CASE cliCall[c].at = "ok"
    BY <1>2, <1>7, <2>1, CliMoved DEF Cli!Receive, CliInv
  <2>2. CASE cliCall[c].at # "ok"
    BY <1>1, <1>3, <1>4, <1>7, <2>2 DEF Cli!Receive
  <2> QED
    BY <2>1, <2>2
<1> QED
  BY <1>5, <1>6, <1>7

\* The steps of the handlers that only answer.
LEMMA CliAnswerKeeps ==
    ASSUME CliInv, NEW c \in Cmd, Cli!Refuse(c) \/ Cli!RemovePool(c) \/ Cli!PoolHealth(c)
    PROVE  CliInv'
<1>1. /\ UNCHANGED <<ctl, check, results, passed, poolCount, holders, lists>>
      /\ cliCall[c].at = "start" /\ poolNow' \in {0, poolNow} /\ poolNow \in 0 .. poolCount /\ poolCount \in Nat
      /\ cliCall \in [Cmd -> Cli!CallState]
  BY CliConstants DEF Cli!Refuse, Cli!RemovePool, Cli!PoolHealth, Cli!Called, CliInv, CliTypes, Cli!TypeOK
<1>2. PICK a \in {"ok", "error"} :
        /\ Cli!Answer(c, a)
        /\ a = "ok" => \/ cliCall[c].method = "RemovePool"
                       \/ cliCall[c].method = "PoolHealth" /\ poolNow # 0
  BY DEF Cli!Refuse, Cli!RemovePool, Cli!PoolHealth, Cli!Called
<1>3. /\ cliCall' \in [Cmd -> Cli!CallState] /\ \A d \in Cmd : d # c => cliCall'[d] = cliCall[d]
      /\ cliCall'[c].at = a /\ cliCall'[c].method = cliCall[c].method /\ cliCall'[c].pool = cliCall[c].pool
  BY <1>2, CliAnswered DEF CliInv
<1>4. Made' = Made
  BY <1>1, <1>2, <1>3 DEF Made
<1>5. CliTypes'
  <2>1. poolNow' \in 0 .. poolCount'
    BY <1>1
  <2> QED
    BY <1>1, <1>3, <2>1, CliConstants DEF CliInv, CliTypes, Cli!TypeOK
<1>6. PoolsNumbered'
  BY <1>1, <1>2, <1>3, <1>4 DEF CliInv, PoolsNumbered
<1>7. ChecksCounted' /\ CommandsFollow'
  BY <1>1, <1>2, <1>3 DEF CliInv, ChecksCounted, CommandsFollow
<1>8. HeldByOne'
  BY <1>1, <1>2, <1>3 DEF CliInv, HeldByOne
<1> QED
  BY <1>5, <1>6, <1>7, <1>8 DEF CliInv

LEMMA CliAddPoolKeeps == ASSUME CliInv, NEW c \in Cmd, Cli!AddPool(c) PROVE CliInv'
<1>1. /\ UNCHANGED <<ctl, check, results, passed, holders, lists>>
      /\ cliCall[c].at = "start" /\ cliCall[c].method = "AddPool"
      /\ cliCall \in [Cmd -> Cli!CallState] /\ poolCount \in Nat
  BY CliConstants DEF Cli!AddPool, Cli!Called, CliInv, CliTypes, Cli!TypeOK
<1>2. IsFiniteSet(Made) /\ Cardinality(Made) \in Nat
  BY CliConstants, FS_Subset, FS_CardinalityType DEF Made
<1>3. CASE Cli!Answer(c, "error") /\ UNCHANGED <<poolNow, poolCount>>
  <2>1. /\ cliCall' \in [Cmd -> Cli!CallState] /\ \A d \in Cmd : d # c => cliCall'[d] = cliCall[d]
        /\ cliCall'[c].at = "error" /\ cliCall'[c].method = "AddPool"
    BY <1>1, <1>3, CliAnswered DEF CliInv
  <2>2. Made' = Made
    BY <1>1, <2>1 DEF Made
  <2>3. CliTypes'
    BY <1>1, <1>3, <2>1, CliConstants DEF CliInv, CliTypes, Cli!TypeOK
  <2>4. PoolsNumbered'
    BY <1>1, <1>3, <2>1, <2>2 DEF CliInv, PoolsNumbered
  <2>5. ChecksCounted' /\ HeldByOne' /\ CommandsFollow'
    BY <1>1, <2>1 DEF CliInv, ChecksCounted, HeldByOne, CommandsFollow
  <2> QED
    BY <2>3, <2>4, <2>5 DEF CliInv
<1>4. CASE /\ poolCount' = poolCount + 1 /\ poolNow' = poolCount'
           /\ cliCall' = [cliCall EXCEPT ![c].at = "ok", ![c].pool = poolNow']
  <2>1. /\ cliCall' \in [Cmd -> Cli!CallState] /\ \A d \in Cmd : d # c => cliCall'[d] = cliCall[d]
        /\ cliCall'[c].at = "ok" /\ cliCall'[c].method = "AddPool" /\ cliCall'[c].pool = poolCount + 1
    <3>1. poolNow' = poolCount + 1 /\ poolNow' \in Nat
      BY <1>1, <1>4
    <3>2. cliCall' = [cliCall EXCEPT ![c].at = "ok", ![c].pool = poolNow'] /\ CliTypes
      BY <1>4 DEF CliInv
    <3>3. /\ cliCall' \in [Cmd -> Cli!CallState] /\ \A d \in Cmd : d # c => cliCall'[d] = cliCall[d]
          /\ cliCall'[c].at = "ok" /\ cliCall'[c].method = cliCall[c].method /\ cliCall'[c].pool = poolNow'
      BY <3>1, <3>2, CliFound
    <3> QED
      BY <1>1, <3>1, <3>3
  <2>2. Made' = Made \cup {c} /\ c \notin Made
    BY <1>1, <2>1 DEF Made
  <2>3. Cardinality(Made') = Cardinality(Made) + 1
    BY <1>2, <2>2, FS_AddElement
  <2>4. poolCount' <= Cardinality(Cmd) + 1
    <3>1. Cardinality(Made') <= Cardinality(Cmd)
      BY CliConstants, FS_Subset DEF Made
    <3> QED
      BY <1>1, <1>2, <1>4, <2>3, <3>1, CliConstants DEF CliInv, PoolsNumbered
  <2>5. CliTypes'
    <3>1. poolCount' \in 0 .. Cardinality(Cmd) + 1 /\ poolNow' \in 0 .. poolCount'
      BY <1>1, <1>4, <2>4, CliConstants
    <3> QED
      BY <1>1, <2>1, <3>1, CliConstants DEF CliInv, CliTypes, Cli!TypeOK
  <2>6. PoolsNumbered'
    <3>1. poolCount' <= 1 + Cardinality(Made')
      BY <1>1, <1>2, <1>4, <2>3 DEF CliInv, PoolsNumbered
    <3>2. \A d \in Cmd : d # c /\ cliCall'[d].method = "AddPool" /\ cliCall'[d].at = "ok" =>
              cliCall'[d].pool = cliCall[d].pool /\ cliCall[d].pool \in 1 .. poolCount
      BY <2>1 DEF CliInv, PoolsNumbered
    <3>3. \A d, e \in Cmd : d # e /\ cliCall'[d].method = "AddPool" /\ cliCall'[e].method = "AddPool"
                             /\ cliCall'[d].at = "ok" /\ cliCall'[e].at = "ok" => cliCall'[d].pool # cliCall'[e].pool
      BY <1>1, <2>1, <2>2, <3>2 DEF CliInv, PoolsNumbered
    <3>4. \A d \in Cmd : cliCall'[d].method = "AddPool" /\ cliCall'[d].at = "ok" => cliCall'[d].pool \in 1 .. poolCount'
      BY <1>1, <1>4, <2>1 DEF CliInv, PoolsNumbered
    <3>5. /\ \A d \in Cmd : cliCall'[d].method = "AddBackend" /\ cliCall'[d].at \in {"checks", "apply", "ok"}
                              => cliCall'[d].pool \in 1 .. poolCount'
          /\ \A d \in Cmd : cliCall'[d].method = "PoolHealth" /\ cliCall'[d].at = "ok" => poolCount' > 0
      BY <1>1, <1>4, <2>1 DEF CliInv, PoolsNumbered
    <3> QED
      BY <3>1, <3>3, <3>4, <3>5 DEF PoolsNumbered
  <2>7. ChecksCounted' /\ HeldByOne' /\ CommandsFollow'
    BY <1>1, <2>1 DEF CliInv, ChecksCounted, HeldByOne, CommandsFollow
  <2> QED
    BY <2>5, <2>6, <2>7 DEF CliInv
<1> QED
  BY <1>3, <1>4 DEF Cli!AddPool

\* A backend goes into the pool that its call found, if that has none.
LEMMA CliBackendKeeps == ASSUME CliInv, NEW c \in Cmd, Cli!AddBackend(c) \/ Cli!AddToPool(c) PROVE CliInv'
<1>1. /\ UNCHANGED <<ctl, results, passed, poolNow, poolCount>>
      /\ cliCall[c].method = "AddBackend" /\ cliCall[c].at \in {"start", "apply"}
      /\ cliCall \in [Cmd -> Cli!CallState] /\ poolNow \in 0 .. poolCount /\ poolCount \in Nat
      /\ poolCount <= Cardinality(Cmd) + 1
  BY CliConstants DEF Cli!AddBackend, Cli!AddToPool, Cli!Called, CliInv, CliTypes, Cli!TypeOK, ChecksCounted
<1>2. ASSUME cliCall' \in [Cmd -> Cli!CallState], \A d \in Cmd : d # c => cliCall'[d] = cliCall[d],
             cliCall'[c].method = "AddBackend",
             cliCall'[c].at \in {"error", "checks", "ok"},
             cliCall'[c].at # "error" => cliCall'[c].pool \in 1 .. poolCount,
             cliCall'[c].at = "checks" => passed[c] < Cardinality(Check) \/ Cardinality(Check) = 0,
             check' \in [Cmd -> [Check -> {"none", "run", "ok", "bad", "gone"}]],
             holders' \in [1 .. Cardinality(Cmd) + 1 -> SUBSET Cmd],
             lists' \in [1 .. Cardinality(Cmd) + 1 -> [on : SUBSET {"healthy", "sick"}, left : BOOLEAN]], HeldByOne'
      PROVE  CliInv'
  <2>1. Made' = Made
    BY <1>1, <1>2 DEF Made
  <2>2. CliTypes'
    <3>1. Cli!TypeOK'
      BY <1>1, <1>2 DEF CliInv, CliTypes, Cli!TypeOK
    <3> QED
      BY <1>1, <1>2, <3>1 DEF CliInv, CliTypes
  <2>3. PoolsNumbered'
    <3>1. \A d \in Cmd : cliCall'[d].method # "AddBackend" => cliCall'[d] = cliCall[d]
      BY <1>2
    <3>2. \A d \in Cmd : cliCall'[d].method = "AddBackend" /\ cliCall'[d].at \in {"checks", "apply", "ok"}
                           => cliCall'[d].pool \in 1 .. poolCount
      BY <1>2 DEF CliInv, PoolsNumbered
    <3>3. /\ \A d, e \in Cmd : d # e /\ cliCall'[d].method = "AddPool" /\ cliCall'[e].method = "AddPool"
                              /\ cliCall'[d].at = "ok" /\ cliCall'[e].at = "ok" => cliCall'[d].pool # cliCall'[e].pool
          /\ \A d \in Cmd : cliCall'[d].method = "AddPool" /\ cliCall'[d].at = "ok" => cliCall'[d].pool \in 1 .. poolCount
          /\ \A d \in Cmd : cliCall'[d].method = "PoolHealth" /\ cliCall'[d].at = "ok" => poolCount > 0
      <4>1. \A d \in Cmd : cliCall'[d].method \in {"AddPool", "PoolHealth"} => cliCall'[d] = cliCall[d]
        BY <3>1
      <4> QED
        BY <4>1 DEF CliInv, PoolsNumbered
    <3>4. poolCount <= 1 + Cardinality(Made)
      BY DEF CliInv, PoolsNumbered
    <3> QED
      BY <1>1, <2>1, <3>2, <3>3, <3>4 DEF PoolsNumbered
  <2>4. ChecksCounted'
    <3>1. \A d \in Cmd : d # c => cliCall'[d] = cliCall[d] /\ passed'[d] = passed[d]
      BY <1>1, <1>2
    <3>2. cliCall'[c].method = "AddBackend" /\ cliCall'[c].at \in {"error", "checks", "ok"} /\ passed' = passed
      BY <1>1, <1>2
    <3> QED
      BY <1>2, <3>1, <3>2 DEF CliInv, ChecksCounted
  <2>5. CommandsFollow'
    <3>1. \A d \in Cmd : d # c => cliCall'[d] = cliCall[d]
      BY <1>2
    <3>2. ctl[c].at \notin {"start", "exit0"} /\ ctl[c].op # "setup" /\ ctl' = ctl
      BY <1>1 DEF CliInv, CommandsFollow
    <3> QED
      BY <3>1, <3>2 DEF CliInv, CommandsFollow
  <2> QED
    BY <1>2, <2>2, <2>3, <2>4, <2>5 DEF CliInv
<1>3. ASSUME Cli!Answer(c, "error"), UNCHANGED <<check, holders, lists>> PROVE CliInv'
  <2>1. /\ cliCall' \in [Cmd -> Cli!CallState] /\ \A d \in Cmd : d # c => cliCall'[d] = cliCall[d]
        /\ cliCall'[c].at = "error" /\ cliCall'[c].method = "AddBackend"
    BY <1>1, <1>3, CliAnswered DEF CliInv
  <2>2. HeldByOne'
    BY <1>1, <1>3, <2>1 DEF CliInv, HeldByOne
  <2> QED
    BY <1>2, <1>3, <2>1, <2>2, CliConstants DEF CliInv, CliTypes, Cli!TypeOK
<1>4. CASE Cli!AddBackend(c)
  <2>1. CASE /\ poolNow # 0 /\ UNCHANGED <<holders, lists>>
             /\ cliCall' = [cliCall EXCEPT ![c].at = "checks", ![c].pool = poolNow]
             /\ check' = [check EXCEPT ![c] = [k \in Check |-> "run"]]
    <3>1. /\ cliCall' \in [Cmd -> Cli!CallState] /\ \A d \in Cmd : d # c => cliCall'[d] = cliCall[d]
          /\ cliCall'[c].at = "checks" /\ cliCall'[c].method = "AddBackend" /\ cliCall'[c].pool = poolNow
      <4>1. poolNow \in Nat /\ CliTypes
        BY <1>1 DEF CliInv
      <4>2. cliCall' = [cliCall EXCEPT ![c].at = "checks", ![c].pool = poolNow]
        BY <2>1
      <4>3. /\ cliCall' \in [Cmd -> Cli!CallState] /\ \A d \in Cmd : d # c => cliCall'[d] = cliCall[d]
            /\ cliCall'[c].at = "checks" /\ cliCall'[c].method = cliCall[c].method /\ cliCall'[c].pool = poolNow
        BY <4>1, <4>2, CliFound
      <4> QED
        BY <1>1, <4>3
    <3>2. passed[c] = 0
      BY <1>4, CliConstants DEF CliInv, ChecksCounted, Cli!AddBackend, Cli!Called
    <3>3. HeldByOne'
      BY <1>1, <2>1, <3>1 DEF CliInv, HeldByOne
    <3>4. check' \in [Cmd -> [Check -> {"none", "run", "ok", "bad", "gone"}]]
      BY <2>1, CliConstants DEF CliInv, CliTypes, Cli!TypeOK
    <3>5. passed[c] < Cardinality(Check) \/ Cardinality(Check) = 0
      BY <3>2, CliConstants
    <3>6. poolNow \in 1 .. poolCount
      BY <1>1, <2>1
    <3>7. /\ holders' \in [1 .. Cardinality(Cmd) + 1 -> SUBSET Cmd]
          /\ lists' \in [1 .. Cardinality(Cmd) + 1 -> [on : SUBSET {"healthy", "sick"}, left : BOOLEAN]]
      BY <2>1 DEF CliInv, CliTypes, Cli!TypeOK
    <3>8. cliCall'[c].pool \in 1 .. poolCount /\ cliCall'[c].at \in {"error", "checks", "ok"}
      BY <3>1, <3>6
    <3> QED
      BY <1>2, <3>1, <3>3, <3>4, <3>5, <3>7, <3>8
  <2> QED
    BY <1>3, <1>4, <2>1, CliConstants DEF Cli!AddBackend
<1>5. CASE Cli!AddToPool(c)
  <2> DEFINE p == cliCall[c].pool
  <2>1. cliCall[c].at = "apply" /\ p \in 1 .. poolCount /\ passed[c] = Cardinality(Check)
    BY <1>1, <1>5 DEF Cli!AddToPool, CliInv, PoolsNumbered, ChecksCounted
  <2>2. CASE "healthy" \notin lists[p].on /\ Cli!Joins(c) /\ UNCHANGED check
    <3>1. /\ holders' = [holders EXCEPT ![p] = @ \cup {c}] /\ Cli!Answer(c, "ok")
          /\ lists' = [lists EXCEPT ![p] = [lists[p] EXCEPT !.on = @ \cup {"healthy"}]]
      BY <2>2 DEF Cli!Joins
    <3>2. /\ cliCall' \in [Cmd -> Cli!CallState] /\ \A d \in Cmd : d # c => cliCall'[d] = cliCall[d]
          /\ cliCall'[c].at = "ok" /\ cliCall'[c].method = "AddBackend" /\ cliCall'[c].pool = p
      BY <1>1, <3>1, CliAnswered DEF CliInv
    <3>3. /\ holders' \in [1 .. Cardinality(Cmd) + 1 -> SUBSET Cmd] /\ p \in 1 .. Cardinality(Cmd) + 1
          /\ holders \in [1 .. Cardinality(Cmd) + 1 -> SUBSET Cmd]
      BY <1>1, <2>1, <3>1, CliConstants DEF CliInv, CliTypes
    <3>4. lists \in [1 .. Cardinality(Cmd) + 1 -> [on : SUBSET {"healthy", "sick"}, left : BOOLEAN]]
      BY <3>3 DEF CliInv, CliTypes, Cli!TypeOK
    <3>5. lists[p] \in [on : SUBSET {"healthy", "sick"}, left : BOOLEAN]
      BY <3>3, <3>4
    <3>6. /\ [lists[p] EXCEPT !.on = @ \cup {"healthy"}].on = lists[p].on \cup {"healthy"}
          /\ [lists[p] EXCEPT !.on = @ \cup {"healthy"}].left = lists[p].left
          /\ [lists[p] EXCEPT !.on = @ \cup {"healthy"}] \in [on : SUBSET {"healthy", "sick"}, left : BOOLEAN]
      BY <3>5
    <3>7. /\ lists' \in [1 .. Cardinality(Cmd) + 1 -> [on : SUBSET {"healthy", "sick"}, left : BOOLEAN]]
          /\ lists'[p].on = lists[p].on \cup {"healthy"} /\ lists'[p].left = lists[p].left
          /\ \A q \in 1 .. Cardinality(Cmd) + 1 : q # p => lists'[q] = lists[q]
      BY <3>1, <3>3, <3>4, <3>6
    <3> HIDE DEF p
    <3>8. HeldByOne'
      <4>1. \A q \in 1 .. Cardinality(Cmd) + 1 : holders'[q] = IF q = p THEN holders[p] \cup {c} ELSE holders[q]
        BY <3>1, <3>3
      <4>2. \A d \in Cmd : cliCall[d].method = "AddBackend" /\ cliCall[d].at = "ok" =>
                cliCall[d].pool \in 1 .. Cardinality(Cmd) + 1
        <5>1. \A d \in Cmd : cliCall[d].method = "AddBackend" /\ cliCall[d].at = "ok" =>
                cliCall[d].pool \in 1 .. poolCount
          BY DEF CliInv, PoolsNumbered
        <5> QED
          BY <1>1, <5>1, CliConstants
      <4>3. DOMAIN holders = 1 .. Cardinality(Cmd) + 1 /\ DOMAIN holders' = 1 .. Cardinality(Cmd) + 1
        BY <3>3
      <4>4. ~lists'[p].left => lists'[p].on = {"healthy"} /\ holders'[p] = {c}
        BY <2>2, <3>3, <3>7, <4>1, <4>3 DEF CliInv, HeldByOne
      <4>5. \A q \in DOMAIN holders' : ~lists'[q].left =>
              \/ holders'[q] = {} /\ lists'[q].on = {}
              \/ lists'[q].on = {"healthy"} /\ \E d \in Cmd : holders'[q] = {d}
        BY <3>7, <4>1, <4>3, <4>4 DEF CliInv, HeldByOne
      <4>6. \A d \in Cmd : cliCall'[d].method = "AddBackend" /\ cliCall'[d].at = "ok" =>
              d \in holders'[cliCall'[d].pool] /\ passed'[d] = Cardinality(Check)
        BY <1>1, <2>1, <3>2, <3>3, <4>1, <4>2 DEF CliInv, HeldByOne
      <4> QED
        BY <4>5, <4>6 DEF HeldByOne
    <3>9. check' \in [Cmd -> [Check -> {"none", "run", "ok", "bad", "gone"}]]
      BY <2>2 DEF CliInv, CliTypes, Cli!TypeOK
    <3> QED
      BY <1>2, <2>1, <3>2, <3>3, <3>7, <3>8, <3>9
  <2> QED
    BY <1>3, <1>5, <2>2 DEF Cli!AddToPool
<1> QED
  BY <1>4, <1>5

\* The checks and their results.
LEMMA CliCheckKeeps ==
    ASSUME CliInv, NEW c \in Cmd,
           Cli!TakeResult(c) \/ \E k \in Check : Cli!CheckAnswers(c, k) \/ Cli!CheckSends(c, k)
    PROVE  CliInv'
<1>1. /\ UNCHANGED <<ctl, poolNow, poolCount, holders, lists>> /\ cliCall \in [Cmd -> Cli!CallState]
      /\ check' \in [Cmd -> [Check -> {"none", "run", "ok", "bad", "gone"}]]
  <2>1. check \in [Cmd -> [Check -> {"none", "run", "ok", "bad", "gone"}]] /\ cliCall \in [Cmd -> Cli!CallState]
    BY DEF CliInv, CliTypes, Cli!TypeOK
  <2>2. CASE Cli!TakeResult(c)
    BY <2>1, <2>2 DEF Cli!TakeResult
  <2>3. ASSUME NEW k \in Check, NEW r \in {"ok", "bad", "gone"}, check' = [check EXCEPT ![c][k] = r]
        PROVE  check' \in [Cmd -> [Check -> {"none", "run", "ok", "bad", "gone"}]]
    BY <2>1, <2>3
  <2>4. CASE \E k \in Check : Cli!CheckAnswers(c, k) \/ Cli!CheckSends(c, k)
    BY <2>1, <2>3, <2>4 DEF Cli!CheckAnswers, Cli!CheckSends
  <2> QED
    BY <2>1, <2>2, <2>4 DEF Cli!TakeResult, Cli!CheckAnswers, Cli!CheckSends
<1>2. CASE UNCHANGED <<cliCall, passed>> /\ \E k \in Check : Cli!CheckAnswers(c, k) \/ Cli!CheckSends(c, k)
  <2>1. results' \in [Cmd -> Seq({"ok", "bad"})] /\ \A d \in Cmd : Len(results'[d]) <= Cardinality(Check)
    <3>1. CASE UNCHANGED results
      BY <3>1, CliConstants DEF CliInv, CliTypes, Cli!TypeOK
    <3>2. ASSUME NEW k \in Check, Cli!CheckSends(c, k) PROVE <2>1!:
      <4>1. /\ results' = [results EXCEPT ![c] = Append(@, check[c][k])] /\ check[c][k] \in {"ok", "bad"}
            /\ Len(results[c]) < Cardinality(Check)
        BY <3>2, CliConstants DEF Cli!CheckSends
      <4>2. /\ Append(results[c], check[c][k]) \in Seq({"ok", "bad"})
            /\ Len(Append(results[c], check[c][k])) = Len(results[c]) + 1 /\ Len(results[c]) \in Nat
        BY <4>1 DEF CliInv, CliTypes
      <4> QED
        BY <4>1, <4>2, CliConstants DEF CliInv, CliTypes, Cli!TypeOK
    <3> QED
      BY <1>2, <3>1, <3>2 DEF Cli!CheckAnswers
  <2>2. CliTypes'
    BY <1>1, <1>2, <2>1, CliConstants DEF CliInv, CliTypes, Cli!TypeOK
  <2>3. Made' = Made
    BY <1>2 DEF Made
  <2>4. PoolsNumbered' /\ ChecksCounted' /\ HeldByOne' /\ CommandsFollow'
    BY <1>1, <1>2, <2>3 DEF CliInv, PoolsNumbered, ChecksCounted, HeldByOne, CommandsFollow
  <2> QED
    BY <2>2, <2>4 DEF CliInv
<1>3. CASE Cli!TakeResult(c)
  <2>1. /\ cliCall[c].at = "checks" /\ cliCall[c].method = "AddBackend" /\ results[c] # <<>>
        /\ results' = [results EXCEPT ![c] = Tail(@)] /\ UNCHANGED check
        /\ cliCall[c].pool \in 1 .. poolCount
    BY <1>3, CliConstants DEF Cli!TakeResult, CliInv, ChecksCounted, PoolsNumbered
  <2>2. results' \in [Cmd -> Seq({"ok", "bad"})] /\ \A d \in Cmd : Len(results'[d]) <= Cardinality(Check)
    <3>1. /\ Tail(results[c]) \in Seq({"ok", "bad"}) /\ Len(Tail(results[c])) = Len(results[c]) - 1
          /\ Len(results[c]) \in Nat
      BY <2>1 DEF CliInv, CliTypes
    <3> QED
      BY <2>1, <3>1, CliConstants DEF CliInv, CliTypes, Cli!TypeOK
  <2>3. passed[c] < Cardinality(Check)
    <3>1. Len(results[c]) \in Nat /\ Len(results[c]) # 0 /\ Len(results[c]) <= Cardinality(Check)
      BY <2>1, CliConstants DEF CliInv, CliTypes, Cli!TypeOK
    <3> QED
      BY <2>1, <3>1, CliConstants DEF CliInv, ChecksCounted
  <2>4. /\ passed' \in [Cmd -> Nat] /\ \A d \in Cmd : d # c => passed'[d] = passed[d]
        /\ passed'[c] \in 0 .. Cardinality(Check)
        /\ cliCall' \in [Cmd -> Cli!CallState] /\ \A d \in Cmd : d # c => cliCall'[d] = cliCall[d]
        /\ cliCall'[c].method = "AddBackend" /\ cliCall'[c].pool = cliCall[c].pool
        /\ \/ cliCall'[c].at = "error"
           \/ cliCall'[c].at = "apply" /\ passed'[c] = Cardinality(Check)
           \/ cliCall'[c].at = "checks" /\ passed'[c] < Cardinality(Check)
    <3>1. CASE Cli!Answer(c, "error") /\ UNCHANGED passed
      BY <2>1, <2>3, <3>1, CliAnswered, CliConstants DEF CliInv, CliTypes, Cli!TypeOK
    <3>2. CASE passed' = [passed EXCEPT ![c] = @ + 1]
               /\ IF passed'[c] = Cardinality(Check) THEN Cli!Answer(c, "apply") ELSE UNCHANGED cliCall
      <4>1. /\ passed' \in [Cmd -> Nat] /\ \A d \in Cmd : d # c => passed'[d] = passed[d]
            /\ passed'[c] = passed[c] + 1 /\ passed[c] \in Nat
        BY <3>2 DEF CliInv, CliTypes
      <4>2. passed'[c] \in 0 .. Cardinality(Check)
        BY <2>3, <4>1, CliConstants
      <4>3. CASE passed'[c] = Cardinality(Check)
        BY <2>1, <3>2, <4>1, <4>2, <4>3, CliAnswered DEF CliInv
      <4>4. CASE passed'[c] # Cardinality(Check)
        BY <1>1, <2>1, <3>2, <4>1, <4>2, <4>4, CliConstants
      <4> QED
        BY <4>3, <4>4
    <3> QED
      BY <1>3, <3>1, <3>2, CliConstants DEF Cli!TakeResult
  <2>5. CliTypes'
    BY <1>1, <2>1, <2>2, <2>4, CliConstants DEF CliInv, CliTypes, Cli!TypeOK
  <2>6. Made' = Made
    BY <2>1, <2>4 DEF Made
  <2>7. PoolsNumbered'
    <3>1. \A d \in Cmd : /\ cliCall'[d].method = cliCall[d].method /\ cliCall'[d].pool = cliCall[d].pool
                         /\ cliCall'[d].at = "ok" => cliCall[d].at = "ok"
      BY <2>1, <2>4
    <3>2. \A d \in Cmd : cliCall'[d].method = "AddBackend" /\ cliCall'[d].at \in {"checks", "apply", "ok"}
                           => cliCall'[d].pool \in 1 .. poolCount
      BY <2>1, <2>4 DEF CliInv, PoolsNumbered
    <3> QED
      BY <1>1, <2>6, <3>1, <3>2 DEF CliInv, PoolsNumbered
  <2>8. ChecksCounted'
    BY <1>1, <2>1, <2>4 DEF CliInv, ChecksCounted
  <2>9. HeldByOne'
    BY <1>1, <2>1, <2>4 DEF CliInv, HeldByOne
  <2>10. CommandsFollow'
    BY <1>1, <2>1, <2>4 DEF CliInv, CommandsFollow
  <2> QED
    BY <2>5, <2>7, <2>8, <2>9, <2>10 DEF CliInv
<1> QED
  BY <1>2, <1>3, CliConstants DEF Cli!CheckAnswers, Cli!CheckSends

\* The health loops move what is on the lists, and a panic ends every call.
LEMMA CliSwitchKeeps ==
    ASSUME CliInv, NEW p \in DOMAIN lists, Cli!Switch(p) \/ Cli!SwitchPanics(p)
    PROVE  CliInv'
<1>1. /\ UNCHANGED <<ctl, passed, poolCount, holders>> /\ poolNow' \in {0, poolNow}
      /\ poolNow \in 0 .. poolCount /\ poolCount \in Nat /\ cliCall \in [Cmd -> Cli!CallState]
      /\ DOMAIN lists = DOMAIN holders
      /\ lists \in [DOMAIN holders -> [on : SUBSET {"healthy", "sick"}, left : BOOLEAN]]
      /\ check \in [Cmd -> [Check -> {"none", "run", "ok", "bad", "gone"}]]
  BY CliConstants DEF Cli!Switch, Cli!SwitchPanics, CliInv, CliTypes, Cli!TypeOK
<1>2. ASSUME lists' \in [DOMAIN holders -> [on : SUBSET {"healthy", "sick"}, left : BOOLEAN]],
             \A q \in DOMAIN holders : lists'[q] = lists[q] \/ lists'[q].left,
             cliCall' \in [Cmd -> Cli!CallState],
             \A c \in Cmd : cliCall'[c] = cliCall[c]
                            \/ /\ cliCall'[c].at = "error" /\ cliCall[c].at \in {"start", "checks", "apply"}
                               /\ cliCall'[c].method = cliCall[c].method,
             check' \in [Cmd -> [Check -> {"none", "run", "ok", "bad", "gone"}]],
             results' \in [Cmd -> Seq({"ok", "bad"})], \A c \in Cmd : Len(results'[c]) <= Cardinality(Check)
      PROVE  CliInv'
  <2>1. Made' = Made
    BY <1>2 DEF Made
  <2>2. CliTypes'
    <3>1. poolNow' \in 0 .. poolCount'
      BY <1>1
    <3> QED
      BY <1>1, <1>2, <3>1, CliConstants DEF CliInv, CliTypes, Cli!TypeOK
  <2>3. PoolsNumbered'
    <3>1. \A c \in Cmd : cliCall'[c].at \in {"checks", "apply", "ok"} => cliCall'[c] = cliCall[c]
      BY <1>2
    <3>2. /\ \A d, e \in Cmd : d # e /\ cliCall'[d].method = "AddPool" /\ cliCall'[e].method = "AddPool"
                              /\ cliCall'[d].at = "ok" /\ cliCall'[e].at = "ok" => cliCall'[d].pool # cliCall'[e].pool
          /\ \A d \in Cmd : cliCall'[d].method = "AddPool" /\ cliCall'[d].at = "ok" => cliCall'[d].pool \in 1 .. poolCount
          /\ \A d \in Cmd : cliCall'[d].method = "AddBackend" /\ cliCall'[d].at \in {"checks", "apply", "ok"}
                           => cliCall'[d].pool \in 1 .. poolCount
          /\ \A d \in Cmd : cliCall'[d].method = "PoolHealth" /\ cliCall'[d].at = "ok" => poolCount > 0
      BY <3>1 DEF CliInv, PoolsNumbered
    <3>3. poolCount <= 1 + Cardinality(Made)
      BY DEF CliInv, PoolsNumbered
    <3> QED
      BY <1>1, <2>1, <3>2, <3>3 DEF PoolsNumbered
  <2>4. ChecksCounted'
    <3>1. \A c \in Cmd : cliCall'[c].at # "error" => cliCall'[c] = cliCall[c]
      BY <1>2
    <3>2. \A c \in Cmd : cliCall'[c].method # "AddBackend" => cliCall[c].method # "AddBackend"
      BY <1>2
    <3> QED
      BY <1>1, <3>1, <3>2 DEF CliInv, ChecksCounted
  <2>5. CommandsFollow'
    <3>1. \A c \in Cmd : cliCall'[c].method = cliCall[c].method
      BY <1>2
    <3>2. \A c \in Cmd : cliCall[c].at \in {"none", "ok"} => cliCall'[c] = cliCall[c]
      BY <1>2
    <3> QED
      BY <1>1, <3>1, <3>2 DEF CliInv, CommandsFollow
  <2>6. HeldByOne'
    <3>1. \A c \in Cmd : cliCall'[c].at = "ok" => cliCall'[c] = cliCall[c]
      BY <1>2
    <3> QED
      BY <1>1, <1>2, <3>1 DEF CliInv, HeldByOne
  <2> QED
    BY <2>2, <2>3, <2>4, <2>5, <2>6 DEF CliInv
<1>3. CASE Cli!Switch(p)
  <2>1. UNCHANGED <<cliCall, check, results>>
    BY <1>3 DEF Cli!Switch
  <2>2. /\ lists' \in [DOMAIN holders -> [on : SUBSET {"healthy", "sick"}, left : BOOLEAN]]
        /\ \A q \in DOMAIN holders : lists'[q] = lists[q] \/ lists'[q].left
    <3>1. CASE lists' = [lists EXCEPT ![p] = [on |-> {"sick"}, left |-> TRUE]]
      BY <1>1, <3>1
    <3>2. CASE lists[p].on = {"sick"} /\ lists' = [lists EXCEPT ![p].on = {"healthy"}]
      <4>1. lists[p].left
        BY <1>1, <3>2 DEF CliInv, HeldByOne
      <4> QED
        BY <1>1, <3>2, <4>1
    <3> QED
      BY <1>3, <3>1, <3>2 DEF Cli!Switch
  <2>3. results \in [Cmd -> Seq({"ok", "bad"})] /\ \A c \in Cmd : Len(results[c]) <= Cardinality(Check)
    BY CliConstants DEF CliInv, CliTypes, Cli!TypeOK
  <2> QED
    BY <1>1, <1>2, <2>1, <2>2, <2>3
<1>4. CASE Cli!SwitchPanics(p)
  <2>1. /\ lists' \in [DOMAIN holders -> [on : SUBSET {"healthy", "sick"}, left : BOOLEAN]]
        /\ \A q \in DOMAIN holders : lists'[q].left
    BY <1>1, <1>4 DEF Cli!SwitchPanics
  <2>2. /\ cliCall' \in [Cmd -> Cli!CallState]
        /\ \A c \in Cmd : cliCall'[c] = cliCall[c]
                          \/ /\ cliCall'[c].at = "error" /\ cliCall[c].at \in {"start", "checks", "apply"}
                             /\ cliCall'[c].method = cliCall[c].method
    <3>1. \A c \in Cmd : cliCall[c] \in Cli!CallState
      BY <1>1
    <3>2. \A c \in Cmd : cliCall'[c] = IF cliCall[c].at \in {"start", "checks", "apply"}
                                       THEN [cliCall[c] EXCEPT !.at = "error"] ELSE cliCall[c]
      BY <1>4, <3>1 DEF Cli!SwitchPanics, Cli!CallState
    <3>3. \A q \in Cli!CallState : /\ [q EXCEPT !.at = "error"] \in Cli!CallState
                                   /\ [q EXCEPT !.at = "error"].at = "error"
                                   /\ [q EXCEPT !.at = "error"].method = q.method
      BY DEF Cli!CallState
    <3>4. cliCall' = [c \in Cmd |-> cliCall'[c]]
      BY <1>4 DEF Cli!SwitchPanics
    <3>5. \A c \in Cmd : cliCall'[c] \in Cli!CallState
      BY <3>1, <3>2, <3>3
    <3>6. cliCall' \in [Cmd -> Cli!CallState]
      BY <3>4, <3>5
    <3>7. ASSUME NEW c \in Cmd, cliCall'[c] # cliCall[c]
          PROVE  /\ cliCall'[c].at = "error" /\ cliCall[c].at \in {"start", "checks", "apply"}
                 /\ cliCall'[c].method = cliCall[c].method
      BY <3>1, <3>2, <3>3, <3>7
    <3> QED
      BY <3>6, <3>7
  <2>3. check' \in [Cmd -> [Check -> {"none", "run", "ok", "bad", "gone"}]]
    BY <1>1, <1>4 DEF Cli!SwitchPanics
  <2>4. results' \in [Cmd -> Seq({"ok", "bad"})] /\ \A c \in Cmd : Len(results'[c]) <= Cardinality(Check)
    BY <1>4, CliConstants DEF Cli!SwitchPanics
  <2> QED
    BY <1>2, <2>1, <2>2, <2>3, <2>4
<1> QED
  BY <1>3, <1>4

LEMMA CliInvStep == CliInv /\ program = "cli" /\ [Next]_vars => CliInv'
<1>1. ASSUME CliInv, UNCHANGED cliVars PROVE CliInv'
  <2>1. Made' = Made
    BY <1>1 DEF cliVars, Made
  <2>2. CliTypes' /\ PoolsNumbered'
    BY <1>1, <2>1 DEF cliVars, CliInv, CliTypes, Cli!TypeOK, PoolsNumbered
  <2>3. ChecksCounted' /\ HeldByOne' /\ CommandsFollow'
    BY <1>1 DEF cliVars, CliInv, ChecksCounted, HeldByOne, CommandsFollow
  <2> QED
    BY <2>2, <2>3 DEF CliInv
<1>2. ASSUME CliInv, Cli!Next PROVE CliInv'
  BY <1>2, CliProgramKeeps, CliAnswerKeeps, CliAddPoolKeeps, CliBackendKeeps, CliCheckKeeps, CliSwitchKeeps
     DEF Cli!Next, Cli!Steps, Cli!CheckSteps
<1> QED
  BY <1>1, <1>2, CliAlone

LEMMA CliInvGives == CliInv => Cli!TypeOK /\ Cli!CommandsTakeEffectOnce
<1> SUFFICES ASSUME CliInv PROVE Cli!CommandsTakeEffectOnce
  BY DEF CliInv, CliTypes
<1>1. \A p \in DOMAIN holders : lists[p].left \/ Cardinality(holders[p]) <= 1
  <2>1. Cardinality({}) = 0 /\ \A x : Cardinality({x}) = 1
    BY FS_EmptySet, FS_Singleton
  <2>2. SUFFICES ASSUME NEW p \in DOMAIN holders, ~lists[p].left PROVE Cardinality(holders[p]) \in {0, 1}
    OBVIOUS
  <2>3. CASE holders[p] = {}
    BY <2>1, <2>3
  <2>4. ASSUME NEW c \in Cmd, holders[p] = {c} PROVE Cardinality(holders[p]) = 1
    BY <2>1, <2>4, Zenon
  <2> QED
    BY <2>2, <2>3, <2>4 DEF CliInv, HeldByOne
<1>2. ASSUME NEW c \in Cmd, ctl[c].at = "exit0"
      PROVE  /\ cliCall[c].method = "AddBackend" => c \in holders[cliCall[c].pool] /\ passed[c] = Cardinality(Check)
             /\ ctl[c].op = "setup" => poolCount > 0
  <2>1. cliCall[c].at = "ok"
    BY <1>2 DEF CliInv, CommandsFollow
  <2>2. ctl[c].op = "setup" => poolCount > 0
    <3>1. poolCount \in Nat
      BY CliConstants DEF CliInv, CliTypes, Cli!TypeOK
    <3> QED
      BY <2>1, <3>1 DEF CliInv, CommandsFollow, PoolsNumbered
  <2> QED
    BY <2>1, <2>2 DEF CliInv, HeldByOne
<1> QED
  BY <1>1, <1>2, CliConstants DEF CliInv, PoolsNumbered, Made, Cli!CommandsTakeEffectOnce

-----------------------------------------------------------------------------
(* The workload deployer.                                                  *)

\* A namespace that was created is deleted at the end, unless the answer of its
\* creation was lost, and no other one is.
DeployInv ==
    /\ Deploy!TypeOK
    /\ Deploy!NamespaceGone
    /\ namespace = "own" => deferred \/ depAt = "panicked"
    /\ deferred => namespace # "other"
    /\ depAt \in {"client", "namespace"} => ~deferred
    /\ depAt \in {"deployment", "ready", "service", "ingress", "list", "notify", "wait", "delete"} => deferred

LEMMA DeployAlone == program = "deployer" /\ [Next]_vars => [Deploy!Next]_depVars
  BY DEF Next, AtRest, Only, Off, vars

LEMMA DeployInvInit == Init /\ program = "deployer" => DeployInv
<1> SUFFICES ASSUME Deploy!Init PROVE DeployInv
  BY DEF Init, IdleTools
<1>1. 0 \in 0 .. Replicas
  BY CountAssumption
<1> QED
  BY <1>1 DEF Deploy!Init, DeployInv, Deploy!TypeOK, Deploy!NamespaceGone

LEMMA DeployKeeps ==
    ASSUME DeployInv, [Deploy!Next]_depVars PROVE DeployInv' /\ (namespace = "other" => namespace' = "other")
<1>1. CASE UNCHANGED depVars
  BY <1>1 DEF depVars, DeployInv, Deploy!TypeOK, Deploy!NamespaceGone
<1>2. CASE Deploy!GetClientSet \/ Deploy!CreateNamespace
  <2>1. CASE Deploy!GetClientSet
    BY <2>1 DEF Deploy!GetClientSet, Deploy!Panics, DeployInv, Deploy!TypeOK, Deploy!NamespaceGone
  <2>2. CASE Deploy!CreateNamespace
    <3>1. CASE namespace = "none" /\ namespace' = "own" /\ depAt' = "deployment" /\ deferred' = TRUE /\ UNCHANGED panicking
      BY <2>2, <3>1 DEF Deploy!CreateNamespace, DeployInv, Deploy!TypeOK, Deploy!NamespaceGone
    <3>2. CASE Deploy!Panics /\ UNCHANGED <<namespace, deferred>>
      BY <2>2, <3>2 DEF Deploy!CreateNamespace, Deploy!Panics, DeployInv, Deploy!TypeOK, Deploy!NamespaceGone
    <3>3. CASE namespace = "none" /\ namespace' = "own" /\ Deploy!Panics /\ UNCHANGED deferred
      BY <2>2, <3>3 DEF Deploy!CreateNamespace, Deploy!Panics, DeployInv, Deploy!TypeOK, Deploy!NamespaceGone
    <3>4. \/ namespace = "none" /\ namespace' = "own" /\ depAt' = "deployment" /\ deferred' = TRUE /\ UNCHANGED panicking
          \/ namespace = "none" /\ namespace' = "own" /\ Deploy!Panics /\ UNCHANGED deferred
          \/ Deploy!Panics /\ UNCHANGED <<namespace, deferred>>
      BY <2>2, Zenon DEF Deploy!CreateNamespace
    <3> QED
      BY <3>1, <3>2, <3>3, <3>4, Zenon
  <2> QED
    BY <1>2, <2>1, <2>2
<1>3. CASE Deploy!Create \/ Deploy!Poll
  <2>1. /\ UNCHANGED <<namespace, deferred, ready, follower, notified>>
        /\ depAt \in {"deployment", "service", "ingress", "ready"}
        /\ \/ depAt' \in {"ready", "ingress", "list", "service"} /\ UNCHANGED panicking
           \/ panicking' = TRUE /\ depAt' = IF deferred THEN "delete" ELSE "panicked"
    BY <1>3 DEF Deploy!Create, Deploy!Calls, Deploy!Poll, Deploy!Panics
  <2> QED
    BY <2>1 DEF DeployInv, Deploy!TypeOK, Deploy!NamespaceGone
<1>4. CASE Deploy!Listen
  <2>1. follower' \in [Deploy!Pod -> {"none", "opens", "copies", "panicked"}]
    BY <1>4 DEF Deploy!Listen, DeployInv, Deploy!TypeOK
  <2> QED
    BY <1>4, <2>1 DEF Deploy!Listen, Deploy!Panics, DeployInv, Deploy!TypeOK, Deploy!NamespaceGone
<1>5. CASE ~Deploy!Ended /\ (Deploy!PodChanges \/ Deploy!Notify \/ Deploy!Signal \/ Deploy!DeleteNamespace)
  <2>1. CASE Deploy!PodChanges \/ Deploy!Notify
    BY <2>1 DEF Deploy!PodChanges, Deploy!Notify, DeployInv, Deploy!TypeOK, Deploy!NamespaceGone
  <2>2. CASE Deploy!Signal
    <3>1. CASE ~notified
      BY <1>5, <2>2, <3>1 DEF Deploy!Ended, Deploy!Signal, DeployInv, Deploy!TypeOK, Deploy!NamespaceGone
    <3>2. CASE notified /\ depAt = "wait"
      BY <1>5, <2>2, <3>2 DEF Deploy!Ended, Deploy!Signal, DeployInv, Deploy!TypeOK, Deploy!NamespaceGone
    <3>3. CASE notified /\ depAt # "wait"
      BY <1>5, <2>2, <3>3 DEF Deploy!Ended, Deploy!Signal, DeployInv, Deploy!TypeOK, Deploy!NamespaceGone
    <3> QED
      BY <3>1, <3>2, <3>3
  <2>3. CASE Deploy!DeleteNamespace
    BY <2>3 DEF Deploy!DeleteNamespace, DeployInv, Deploy!TypeOK, Deploy!NamespaceGone
  <2> QED
    BY <1>5, <2>1, <2>2, <2>3
<1>6. ASSUME NEW p \in Deploy!Pod, ~Deploy!Ended, Deploy!Follow(p) PROVE DeployInv' /\ UNCHANGED namespace
  BY <1>6 DEF Deploy!Ended, Deploy!Follow, DeployInv, Deploy!TypeOK, Deploy!NamespaceGone
<1> QED
  BY <1>1, <1>2, <1>3, <1>4, <1>5, <1>6 DEF Deploy!Next

LEMMA DeployInvStep == DeployInv /\ program = "deployer" /\ [Next]_vars => DeployInv'
  BY DeployAlone, DeployKeeps

\* A namespace that somebody else made stays.
LEMMA DeployOthers ==
    (program = "deployer" => DeployInv) /\ [Next]_vars =>
        (namespace = "other" => namespace' = "other") \/ UNCHANGED depVars
<1>1. program # "deployer" /\ [Next]_vars => UNCHANGED depVars
  BY DEF Next, AtRest, Only, Off, vars
<1> QED
  BY <1>1, DeployAlone, DeployKeeps

-----------------------------------------------------------------------------
(* The process of the pet store.                                           *)

\* What became of the metrics' last data, once they have been shut down.
MetricsOver == IF flags.otelAddr THEN flushed["metrics"] \in {"sent", "lost"} ELSE flushed["metrics"] = "none"
TracesOver == flushed["traces"] \in {"sent", "lost"}

\* What is deferred and what became of the providers, at each point of main.
Unwinding ==
    /\ svcMain \in {"sampling", "tracing", "fatal"} =>
          onReturn = <<>> /\ flushed["traces"] = "none" /\ flushed["metrics"] = "none"
    /\ svcMain = "metrics" => onReturn = <<"traces">> /\ flushed["traces"] = "held" /\ flushed["metrics"] = "none"
    /\ svcMain \in {"server", "wait"} =>
          /\ flushed["traces"] = "held"
          /\ \/ flags.otelAddr /\ onReturn = <<"metrics", "traces">> /\ flushed["metrics"] = "held"
             \/ ~flags.otelAddr /\ onReturn = <<"traces">> /\ flushed["metrics"] = "none"
    /\ svcMain = "returning" =>
          \/ /\ flags.otelAddr /\ onReturn = <<"metrics", "traces">>
             /\ flushed["traces"] = "held" /\ flushed["metrics"] = "held"
          \/ onReturn = <<"traces">> /\ flushed["traces"] = "held" /\ MetricsOver
          \/ onReturn = <<>> /\ TracesOver /\ MetricsOver
    /\ svcMain = "panicking" =>
          /\ flushed["metrics"] = "none"
          /\ \/ onReturn = <<"traces">> /\ flushed["traces"] = "held"
             \/ onReturn = <<>> /\ TracesOver
    /\ svcMain = "exit" => onReturn = <<>> /\ TracesOver /\ MetricsOver
    /\ svcMain = "panic" => onReturn = <<>> /\ TracesOver /\ flushed["metrics"] = "none"

\* Start holds the mutex while it serves, and Stop is called once main waits.
SvcInv ==
    /\ Svc!TypeOK
    /\ Unwinding
    /\ svcMu = "starter" <=> starter \in {"listen", "serve", "returns"}
    /\ stopper = "lock" => starter # "none"
    /\ svcMain = "wait" => starter # "none"
    /\ svcMain \notin {"wait", "returning", "exit"} => starter = "none"

LEMMA SvcAlone == program = "service" /\ [Next]_vars => [Svc!Next]_svcVars
  BY DEF Next, AtRest, Only, Off, vars

LEMMA Stacks ==
    /\ <<"traces">> \o <<>> = <<"traces">> /\ <<"metrics">> \o <<"traces">> = <<"metrics", "traces">>
    /\ Head(<<"traces">>) = "traces" /\ Tail(<<"traces">>) = <<>>
    /\ Head(<<"metrics", "traces">>) = "metrics" /\ Tail(<<"metrics", "traces">>) = <<"traces">>
    /\ \A d \in {<<>>, <<"traces">>, <<"metrics", "traces">>} :
          Len(d) <= 2 /\ \A k \in DOMAIN d : d[k] \in {"traces", "metrics"}
    /\ <<"traces">> # <<>> /\ <<"metrics", "traces">> # <<>>
<1>1. <<"traces">> \o <<>> = <<"traces">>
  OBVIOUS
<1>2. <<"metrics">> \o <<"traces">> = <<"metrics", "traces">>
  <2> DEFINE d == <<"metrics">> \o <<"traces">>
  <2>1. <<"metrics">> \in Seq({"metrics", "traces"}) /\ <<"traces">> \in Seq({"metrics", "traces"})
    OBVIOUS
  <2>2. /\ d \in Seq({"metrics", "traces"}) /\ Len(d) = 2
        /\ d[1] = "metrics" /\ d[2] = "traces"
    BY <2>1
  <2> HIDE DEF d
  <2>3. <<"metrics", "traces">> \in Seq({"metrics", "traces"}) /\ Len(<<"metrics", "traces">>) = 2
    OBVIOUS
  <2>4. \A k \in 1 .. 2 : d[k] = <<"metrics", "traces">>[k]
    BY <2>2
  <2>5. d = <<"metrics", "traces">>
    BY <2>2, <2>3, <2>4, SeqEqual
  <2> QED
    BY <2>5 DEF d
<1>3. Head(<<"traces">>) = "traces" /\ Tail(<<"traces">>) = <<>>
  OBVIOUS
<1>4. Head(<<"metrics", "traces">>) = "metrics" /\ Tail(<<"metrics", "traces">>) = <<"traces">>
  OBVIOUS
<1>5. \A d \in {<<>>, <<"traces">>, <<"metrics", "traces">>} :
         Len(d) <= 2 /\ \A k \in DOMAIN d : d[k] \in {"traces", "metrics"}
  <2>1. Len(<<>>) <= 2 /\ \A k \in DOMAIN <<>> : <<>>[k] \in {"traces", "metrics"}
    OBVIOUS
  <2>2. Len(<<"traces">>) <= 2 /\ \A k \in DOMAIN <<"traces">> : <<"traces">>[k] \in {"traces", "metrics"}
    OBVIOUS
  <2>3. /\ Len(<<"metrics", "traces">>) <= 2
        /\ \A k \in DOMAIN <<"metrics", "traces">> : <<"metrics", "traces">>[k] \in {"traces", "metrics"}
    OBVIOUS
  <2> QED
    BY <2>1, <2>2, <2>3
<1>6. <<"traces">> # <<>> /\ <<"metrics", "traces">> # <<>>
  OBVIOUS
<1> QED
  BY <1>1, <1>2, <1>3, <1>4, <1>5, <1>6

LEMMA SvcInvInit == Init /\ program = "service" => SvcInv
<1> SUFFICES ASSUME Svc!Init PROVE SvcInv
  BY DEF Init, IdleServers
<1> QED
  BY Stacks DEF Svc!Init, SvcInv, Svc!TypeOK, Svc!Provider, Unwinding

LEMMA SvcKeeps == ASSUME SvcInv, [Svc!Next]_svcVars PROVE SvcInv'
<1>1. /\ svcMain \in {"sampling", "tracing", "metrics", "server", "wait", "returning", "panicking",
                      "exit", "fatal", "panic"}
      /\ onReturn \in {<<>>, <<"traces">>, <<"metrics", "traces">>}
      /\ flushed \in [{"traces", "metrics"} -> {"none", "held", "sent", "lost"}]
  BY DEF SvcInv, Svc!TypeOK, Svc!Provider, Unwinding
<1>2. CASE UNCHANGED svcVars
  BY <1>2 DEF svcVars, SvcInv, Svc!TypeOK, Unwinding, MetricsOver, TracesOver
<1>3. CASE Svc!ReadFlags \/ Svc!StartTracing \/ Svc!StartMetrics
  <2>1. CASE Svc!ReadFlags
    BY <1>1, <2>1 DEF Svc!ReadFlags, SvcInv, Svc!TypeOK, Unwinding
  <2>2. CASE Svc!StartTracing
    <3>1. onReturn = <<>> /\ flushed["metrics"] = "none"
      BY <2>2 DEF Svc!StartTracing, SvcInv, Unwinding
    <3>2. CASE svcMain' = "metrics" /\ Svc!Starts("traces")
      <4>1. /\ onReturn' = <<"traces">> /\ flushed'["traces"] = "held" /\ flushed'["metrics"] = "none"
            /\ flushed' \in [{"traces", "metrics"} -> {"none", "held", "sent", "lost"}]
        BY <1>1, <3>1, <3>2, Stacks DEF Svc!Starts
      <4> QED
        BY <2>2, <3>2, <4>1, Stacks DEF Svc!StartTracing, SvcInv, Svc!TypeOK, Svc!Provider, Unwinding
    <3>3. CASE svcMain' = "fatal" /\ UNCHANGED <<onReturn, flushed>>
      BY <2>2, <3>3 DEF Svc!StartTracing, SvcInv, Svc!TypeOK, Unwinding
    <3> QED
      BY <2>2, <3>2, <3>3 DEF Svc!StartTracing
  <2>3. CASE Svc!StartMetrics
    <3>1. onReturn = <<"traces">> /\ flushed["traces"] = "held"
      BY <2>3 DEF Svc!StartMetrics, SvcInv, Unwinding
    <3>2. CASE flags.otelAddr /\ svcMain' = "server" /\ Svc!Starts("metrics")
      <4>1. /\ onReturn' = <<"metrics", "traces">> /\ flushed'["traces"] = "held" /\ flushed'["metrics"] = "held"
            /\ flushed' \in [{"traces", "metrics"} -> {"none", "held", "sent", "lost"}]
        BY <1>1, <3>1, <3>2, Stacks DEF Svc!Starts
      <4> QED
        BY <2>3, <3>2, <4>1, Stacks DEF Svc!StartMetrics, SvcInv, Svc!TypeOK, Svc!Provider, Unwinding
    <3>3. CASE svcMain' \in {"server", "panicking"} /\ UNCHANGED <<onReturn, flushed>>
      BY <2>3, <3>3 DEF Svc!StartMetrics, Svc!Starts, SvcInv, Svc!TypeOK, Unwinding
    <3> QED
      BY <2>3, <3>2, <3>3 DEF Svc!StartMetrics
  <2> QED
    BY <1>3, <2>1, <2>2, <2>3
<1>4. CASE Svc!StartServer \/ Svc!MainReturns
  <2>1. CASE Svc!StartServer
    BY <1>1, <2>1 DEF Svc!StartServer, SvcInv, Svc!TypeOK, Unwinding
  <2>2. CASE Svc!MainReturns
    BY <1>1, <2>2 DEF Svc!MainReturns, SvcInv, Svc!TypeOK, Unwinding, MetricsOver
  <2> QED
    BY <1>4, <2>1, <2>2
<1>5. CASE Svc!StartLock \/ Svc!Listen \/ Svc!ServeFails \/ Svc!StartReturns \/ Svc!ServeOfStopped
  <2>1. /\ UNCHANGED <<flags, svcMain, onReturn, flushed, stopper>> /\ starter # "none"
        /\ starter' \in {"listen", "serve", "returns", "done"} /\ svcMu' \in {"free", "starter"}
        /\ svcMu' = "starter" <=> starter' \in {"listen", "serve", "returns"}
    BY <1>5 DEF Svc!StartLock, Svc!Listen, Svc!ServeFails, Svc!StartReturns, Svc!ServeOfStopped, SvcInv, Svc!TypeOK
  <2> QED
    BY <2>1 DEF SvcInv, Svc!TypeOK, Unwinding, MetricsOver, TracesOver
<1>6. CASE Svc!CallStop \/ Svc!Stop
  BY <1>6 DEF Svc!CallStop, Svc!Stop, SvcInv, Svc!TypeOK, Unwinding, MetricsOver, TracesOver
<1>7. CASE Svc!RunDeferred
  <2>1. PICK end \in {"sent", "lost"} : flushed' = [flushed EXCEPT ![Head(onReturn)] = end]
    BY <1>7 DEF Svc!RunDeferred
  <2>2. /\ UNCHANGED <<flags, svcMain, starter, stopper, svcMu>>
        /\ svcMain \in {"returning", "panicking"} /\ onReturn # <<>> /\ onReturn' = Tail(onReturn)
    BY <1>7 DEF Svc!RunDeferred
  <2>3. CASE onReturn = <<"traces">>
    <3>1. /\ onReturn' = <<>> /\ flushed'["traces"] \in {"sent", "lost"} /\ flushed'["metrics"] = flushed["metrics"]
          /\ flushed' \in [{"traces", "metrics"} -> {"none", "held", "sent", "lost"}]
      BY <1>1, <2>1, <2>2, <2>3, Stacks
    <3> QED
      BY <2>2, <2>3, <3>1, Stacks DEF SvcInv, Svc!TypeOK, Svc!Provider, Unwinding, MetricsOver, TracesOver
  <2>4. CASE onReturn = <<"metrics", "traces">>
    <3>1. /\ onReturn' = <<"traces">> /\ flushed'["metrics"] \in {"sent", "lost"} /\ flushed'["traces"] = flushed["traces"]
          /\ flushed' \in [{"traces", "metrics"} -> {"none", "held", "sent", "lost"}]
      BY <1>1, <2>1, <2>2, <2>4, Stacks
    <3>2. /\ <<"metrics", "traces">> # <<"traces">>
          /\ onReturn # <<"traces">>
      BY <2>4
    <3>3. svcMain = "returning" /\ flags.otelAddr /\ flushed["traces"] = "held"
      BY <2>2, <2>4, <3>2 DEF SvcInv, Unwinding
    <3> QED
      BY <2>2, <2>4, <3>1, <3>3, Stacks DEF SvcInv, Svc!TypeOK, Svc!Provider, Unwinding, MetricsOver, TracesOver
  <2> QED
    BY <1>1, <2>2, <2>3, <2>4
<1>8. CASE Svc!MainEnds
  BY <1>1, <1>8, Stacks DEF Svc!MainEnds, SvcInv, Svc!TypeOK, Svc!Provider, Unwinding, MetricsOver, TracesOver
<1> QED
  BY <1>2, <1>3, <1>4, <1>5, <1>6, <1>7, <1>8 DEF Svc!Next, Svc!Steps

LEMMA SvcInvStep == SvcInv /\ program = "service" /\ [Next]_vars => SvcInv'
  BY SvcAlone, SvcKeeps

LEMMA SvcInvGives == SvcInv => Svc!FlushedAtExit
  BY DEF SvcInv, Unwinding, Svc!FlushedAtExit, Svc!Provider, Svc!Ended, MetricsOver, TracesOver

-----------------------------------------------------------------------------
(* The system agent.                                                       *)

\* With no other in migrate, a request that moved its package finds it there,
\* and has started it unless its client is gone.
StartedAlone ==
    \A r \in Install :
        /\ handlerAt[r] \in {"start", "ok"} /\ Agents!Alone(r) => installed = {r}
        /\ handlerAt[r] = "ok" /\ installer[r] # "gone" /\ Agents!Alone(r) => started[r] = {r}
        /\ installer[r] = "done" => handlerAt[r] = "ok"

\* The final directory has the package of a request that was moved there, or
\* another has removed it, or failed to move its own; the figures of a round are
\* those of its collectors.
AgentInv ==
    /\ installer \in [Install -> {"sends", "waits", "done", "failed", "gone"}]
    /\ handlerAt \in [Install -> {"none", "read", "unpack", "stat", "remove", "rename", "start", "ok"}
                                   \cup Agents!Failure]
    /\ temp \subseteq Install
    /\ installed = {} \/ \E i \in Install \cup {"older", "rest"} : installed = {i}
    /\ started \in [Install -> SUBSET (Install \cup {"older", "rest"})]
    /\ \A r \in Install : installer[r] = "sends" => handlerAt[r] = "none"
    /\ Agents!LossIsReported /\ StartedAlone
    /\ round \in 1 .. MaxRounds
    /\ collector \in [Agents!Figure -> SUBSET (1 .. MaxRounds)] /\ sample \in [Agents!Figure -> 1 .. MaxRounds]
    /\ \A f \in Agents!Figure : collector[f] \subseteq {round} /\ sample[f] <= round

LEMMA AgentAlone == program = "agent" /\ [Next]_vars => [Agents!Next]_agentVars
  BY DEF Next, AtRest, Only, Off, vars

LEMMA AgentInvInit == Init /\ program = "agent" => AgentInv
<1> SUFFICES ASSUME Agents!Init PROVE AgentInv
  BY DEF Init, IdleTools
<1>1. 1 \in 1 .. MaxRounds
  BY CountAssumption
<1> QED
  BY <1>1 DEF Agents!Init, AgentInv, Agents!Figure, Agents!LossIsReported, StartedAlone

LEMMA AgentInstalls ==
    ASSUME AgentInv, NEW r \in Install,
           \/ Agents!ClientSends(r) \/ Agents!ClientRefuses(r) \/ Agents!ClientLeaves(r) \/ Agents!ReadRequest(r)
           \/ Agents!Unpack(r) \/ Agents!Stat(r) \/ Agents!RemoveAll(r) \/ Agents!Rename(r)
           \/ Agents!StartProgram(r) \/ Agents!ClientReceives(r)
    PROVE  AgentInv' /\ UNCHANGED sample
<1>1. UNCHANGED <<round, collector, sample>>
  BY DEF Agents!ClientSends, Agents!ClientRefuses, Agents!ClientLeaves, Agents!ReadRequest, Agents!Unpack, Agents!Stat,
     Agents!RemoveAll, Agents!Rename, Agents!StartProgram, Agents!ClientReceives, Agents!perfVars
<1> USE DEF Agents!Goto, Agents!Failure
<1>2. CASE Agents!ClientSends(r) \/ Agents!ClientRefuses(r) \/ Agents!ClientLeaves(r) \/ Agents!ClientReceives(r)
  <2>1. UNCHANGED <<temp, installed, started>>
    BY <1>2 DEF Agents!ClientSends, Agents!ClientRefuses, Agents!ClientLeaves, Agents!ClientReceives
  <2>2. CASE Agents!ClientSends(r)
    BY <1>1, <2>1, <2>2 DEF Agents!ClientSends, AgentInv, Agents!LossIsReported, StartedAlone, Agents!Alone
  <2>3. CASE Agents!ClientRefuses(r) \/ Agents!ClientLeaves(r) \/ Agents!ClientReceives(r)
    <3>1. PICK a \in {"failed", "gone", "done"} : installer' = [installer EXCEPT ![r] = a]
      BY <2>3 DEF Agents!ClientRefuses, Agents!ClientLeaves, Agents!ClientReceives
    <3>2. UNCHANGED handlerAt /\ (a = "done" => handlerAt[r] = "ok" /\ installer[r] = "waits")
      BY <2>3, <3>1 DEF Agents!ClientRefuses, Agents!ClientLeaves, Agents!ClientReceives, AgentInv
    <3>3. installer[r] \in {"sends", "waits"} /\ (installer[r] = "sends" => handlerAt[r] = "none")
      BY <2>3 DEF Agents!ClientRefuses, Agents!ClientLeaves, Agents!ClientReceives, AgentInv
    <3> QED
      BY <1>1, <2>1, <3>1, <3>2, <3>3 DEF AgentInv, Agents!LossIsReported, StartedAlone, Agents!Alone
  <2> QED
    BY <1>2, <2>2, <2>3
<1>3. CASE Agents!ReadRequest(r) \/ Agents!Unpack(r) \/ Agents!Stat(r)
  <2>1. PICK then \in {"unpack", "stat", "remove", "rename", "error"} :
           handlerAt' = [handlerAt EXCEPT ![r] = then] /\ handlerAt[r] \in {"read", "unpack", "stat"}
    BY <1>3 DEF Agents!ReadRequest, Agents!Unpack, Agents!Stat
  <2>2. UNCHANGED <<installer, installed, started>> /\ temp' \subseteq Install
    BY <1>3 DEF Agents!ReadRequest, Agents!Unpack, Agents!Stat, AgentInv
  <2>3. \A q \in Install : Agents!Alone(q)' => Agents!Alone(q)
    BY <2>1 DEF AgentInv, Agents!Alone
  <2>4. Agents!LossIsReported'
    BY <2>1, <2>2 DEF AgentInv, Agents!LossIsReported
  <2>5. StartedAlone'
    BY <2>1, <2>2, <2>3 DEF AgentInv, StartedAlone
  <2> QED
    BY <1>1, <2>1, <2>2, <2>4, <2>5 DEF AgentInv
<1>4. CASE Agents!RemoveAll(r)
  <2>1. handlerAt[r] = "remove" /\ handlerAt' = [handlerAt EXCEPT ![r] = "rename"]
        /\ installed' \in {{}, installed, {"rest"}} /\ UNCHANGED <<installer, temp, started>>
    BY <1>4 DEF Agents!RemoveAll
  <2>2. Agents!LossIsReported'
    BY <2>1 DEF AgentInv, Agents!LossIsReported
  <2>3. \A q \in Install \ {r} : ~Agents!Alone(q)'
    BY <2>1 DEF AgentInv, Agents!Alone
  <2>4. StartedAlone'
    BY <2>1, <2>3 DEF AgentInv, StartedAlone
  <2> QED
    BY <1>1, <2>1, <2>2, <2>4 DEF AgentInv
<1>5. CASE Agents!Rename(r)
  <2>1. PICK then \in {"start", "unmoved"} :
           /\ handlerAt[r] = "rename" /\ handlerAt' = [handlerAt EXCEPT ![r] = then]
           /\ then = "start" => installed' = {r}
           /\ then = "unmoved" => installed' = installed
    BY <1>5 DEF Agents!Rename
  <2>2. temp' \subseteq Install /\ UNCHANGED <<installer, started>>
    BY <1>5 DEF Agents!Rename, AgentInv
  <2>3. Agents!LossIsReported'
    BY <2>1 DEF AgentInv, Agents!LossIsReported
  <2>4. \A q \in Install \ {r} : ~Agents!Alone(q)'
    BY <2>1 DEF AgentInv, Agents!Alone
  <2>5. StartedAlone'
    BY <2>1, <2>2, <2>4 DEF AgentInv, StartedAlone
  <2> QED
    BY <1>1, <2>1, <2>2, <2>3, <2>5 DEF AgentInv
<1>6. CASE Agents!StartProgram(r)
  <2>1. PICK then \in {"ok", "unstarted"} :
           /\ handlerAt[r] = "start" /\ handlerAt' = [handlerAt EXCEPT ![r] = then]
           /\ then = "ok" => started' = [started EXCEPT ![r] = installed] \/ (installer[r] = "gone" /\ started' = started)
           /\ then = "unstarted" => started' = started
    <3>1. handlerAt[r] = "start"
      BY <1>6 DEF Agents!StartProgram
    <3>2. \/ handlerAt' = [handlerAt EXCEPT ![r] = "unstarted"] /\ started' = started
          \/ /\ handlerAt' = [handlerAt EXCEPT ![r] = "ok"]
             /\ started' = [started EXCEPT ![r] = installed] \/ (installer[r] = "gone" /\ started' = started)
      BY <1>6 DEF Agents!StartProgram
    <3> QED
      BY <3>1, <3>2
  <2>2. UNCHANGED <<installer, temp, installed>>
    BY <1>6 DEF Agents!StartProgram
  <2>3. Agents!LossIsReported'
    BY <2>1, <2>2 DEF AgentInv, Agents!LossIsReported
  <2>4. \A q \in Install : Agents!Alone(q)' <=> Agents!Alone(q)
    BY <2>1 DEF AgentInv, Agents!Alone
  <2>5. StartedAlone'
    BY <2>1, <2>2, <2>4 DEF AgentInv, StartedAlone
  <2>6. started' \in [Install -> SUBSET (Install \cup {"older", "rest"})]
    BY <2>1 DEF AgentInv
  <2> QED
    BY <1>1, <2>1, <2>2, <2>3, <2>5, <2>6 DEF AgentInv
<1> QED
  BY <1>1, <1>2, <1>3, <1>4, <1>5, <1>6

LEMMA AgentKeeps ==
    ASSUME AgentInv, [Agents!Next]_agentVars
    PROVE  AgentInv' /\ \A f \in Agents!Figure : sample'[f] >= sample[f]
<1>1. \A f \in Agents!Figure : sample[f] \in Nat
  BY DEF AgentInv
<1>2. CASE UNCHANGED agentVars
  BY <1>1, <1>2 DEF agentVars, AgentInv, Agents!LossIsReported, StartedAlone, Agents!Alone
<1>3. ASSUME Agents!NewRound PROVE AgentInv' /\ UNCHANGED sample
  <2>1. /\ round' = round + 1 /\ round' \in 1 .. MaxRounds
        /\ collector' = [f \in Agents!Figure |-> {round'}]
        /\ UNCHANGED <<sample, installer, handlerAt, temp, installed, started>>
    BY <1>3, CountAssumption DEF Agents!NewRound, Agents!installVars, AgentInv
  <2>2. \A f \in Agents!Figure : sample[f] <= round'
    BY <2>1, CountAssumption DEF AgentInv
  <2> QED
    BY <2>1, <2>2 DEF AgentInv, Agents!LossIsReported, StartedAlone, Agents!Alone
<1>4. ASSUME NEW f \in Agents!Figure, Agents!Collect(f)
      PROVE  AgentInv' /\ \A g \in Agents!Figure : sample'[g] >= sample[g]
  <2>1. PICK k \in collector[f] :
          /\ sample' \in {sample, [sample EXCEPT ![f] = k]}
          /\ collector' = [collector EXCEPT ![f] = @ \ {k}]
          /\ UNCHANGED <<round, installer, handlerAt, temp, installed, started>>
    BY <1>4 DEF Agents!Collect, Agents!installVars
  <2>2. k = round /\ k \in 1 .. MaxRounds /\ sample[f] <= k
    BY DEF AgentInv
  <2>3. /\ collector' \in [Agents!Figure -> SUBSET (1 .. MaxRounds)] /\ sample' \in [Agents!Figure -> 1 .. MaxRounds]
        /\ \A g \in Agents!Figure : collector'[g] \subseteq {round} /\ sample'[g] <= round /\ sample'[g] >= sample[g]
    BY <1>1, <2>1, <2>2 DEF AgentInv
  <2> QED
    BY <2>1, <2>3 DEF AgentInv, Agents!LossIsReported, StartedAlone, Agents!Alone
<1> QED
  BY <1>1, <1>2, <1>3, <1>4, AgentInstalls DEF Agents!Next

LEMMA AgentInvStep == AgentInv /\ program = "agent" /\ [Next]_vars => AgentInv'
  BY AgentAlone, AgentKeeps

LEMMA AgentInvGives == AgentInv => Agents!TypeOK /\ Agents!PackageIsThere
<1>2. AgentInv => Agents!PackageIsThere
  BY DEF AgentInv, StartedAlone, Agents!PackageIsThere, Agents!AloneInstalls
<1> SUFFICES ASSUME AgentInv PROVE Agents!TypeOK
  BY <1>2
<1>1. Agents!Cardinality({}) <= 1 /\ \A i : Agents!Cardinality({i}) <= 1
  <2>1. \A S : Agents!Cardinality(S) = Cardinality(S)
    BY DEF Agents!Cardinality, Cardinality
  <2>2. Cardinality({}) = 0 /\ \A i : Cardinality({i}) = 1
    BY FS_EmptySet, FS_Singleton
  <2>3. ASSUME NEW i PROVE Agents!Cardinality({i}) = 1
    BY <2>1, <2>2, Zenon
  <2> QED
    BY <2>1, <2>2, <2>3
<1> QED
  BY <1>1 DEF AgentInv, Agents!TypeOK

\* The published figures never get older.
LEMMA AgentAdvances ==
    (program = "agent" => AgentInv) /\ [Next]_vars =>
        (\A f \in Agents!Figure : sample'[f] >= sample[f]) \/ UNCHANGED agentVars
<1>1. program # "agent" /\ [Next]_vars => UNCHANGED agentVars
  BY DEF Next, AtRest, Only, Off, vars
<1> QED
  BY <1>1, AgentAlone, AgentKeeps

-----------------------------------------------------------------------------
(* signals.                                                                *)

HandlerState == [at : {"none", "lock", "wait", "exit", "cut"}, sig : Sig!Signal, early : BOOLEAN]

\* Main goes to the lock when its work is done or cancelled.  A handler that
\* waited for the work finds that main has left it.
SigInv ==
    /\ Sig!TypeOK
    /\ Sig!ExitHonest
    /\ sigMain = "lock" => iter = Iterations \/ cancelled
    /\ \A k \in Sig!Handler : handler[k].at = "exit" /\ ~handler[k].early => sigMain \notin {"before", "work"}

LEMMA SigAlone == program = "signals" /\ [Next]_vars => [Sig!Next]_sigVars
  BY DEF Next, AtRest, Only, Off, vars

LEMMA SigInvInit == Init /\ program = "signals" => SigInv
<1> SUFFICES ASSUME Sig!Init PROVE SigInv
  BY DEF Init, IdleTools
<1> DEFINE r == [at |-> "none", sig |-> "term", early |-> FALSE]
<1>1. r \in HandlerState /\ r.at = "none"
  BY DEF HandlerState, Sig!Signal
<1>2. handler = [k \in Sig!Handler |-> r]
  BY DEF Sig!Init
<1> HIDE DEF r
<1>3. handler \in [Sig!Handler -> HandlerState] /\ \A k \in Sig!Handler : handler[k].at = "none"
  BY <1>1, <1>2
<1>4. Sig!TypeOK
  <2>1. Iterations \in Nat /\ MaxSignals \in Nat
    BY CountAssumption
  <2>2. 0 \in 0 .. MaxSignals /\ 0 \in 0 .. Iterations /\ 0 \in 0 .. MaxSignals + 1
    BY <2>1
  <2> QED
    BY <1>3, <2>2 DEF Sig!Init, Sig!TypeOK, HandlerState, Sig!Main
<1> QED
  BY <1>3, <1>4 DEF Sig!Init, SigInv, Sig!ExitHonest

LEMMA SigKeeps == ASSUME SigInv, [Sig!Next]_sigVars PROVE SigInv'
<1>1. /\ Iterations \in Nat /\ MaxSignals \in Nat /\ iter \in 0 .. Iterations
      /\ handler \in [Sig!Handler -> HandlerState] /\ Sig!Handler = 1 .. MaxSignals
  BY CountAssumption DEF SigInv, Sig!TypeOK, HandlerState, Sig!Handler
<1>2. CASE UNCHANGED sigVars
  BY <1>2 DEF sigVars, SigInv, Sig!TypeOK, Sig!ExitHonest
<1>3. CASE Sig!SendSignal
  BY <1>1, <1>3 DEF Sig!SendSignal, SigInv, Sig!TypeOK, Sig!ExitHonest
<1>4. CASE Sig!ReceiveSignal
  <2>1. UNCHANGED <<sigSent, cancelled, exitLock, iter, sigMain>> /\ sigCh' = "none"
    BY <1>4 DEF Sig!ReceiveSignal
  <2>2. CASE UNCHANGED handler
    BY <1>1, <2>1, <2>2 DEF SigInv, Sig!TypeOK, Sig!ExitHonest
  <2>3. ASSUME NEW k \in Sig!Handler, handler[k].at = "none",
               handler' = [handler EXCEPT ![k].at = "lock", ![k].sig = sigCh], sigCh # "none"
        PROVE  SigInv'
    <3> DEFINE r == [handler[k] EXCEPT !.at = "lock", !.sig = sigCh]
    <3>1. handler' = [handler EXCEPT ![k] = r] /\ r \in HandlerState /\ r.at = "lock"
      BY <1>1, <2>3 DEF HandlerState, SigInv, Sig!TypeOK
    <3> HIDE DEF r
    <3> QED
      BY <1>1, <2>1, <3>1 DEF SigInv, Sig!TypeOK, Sig!ExitHonest, HandlerState
  <2> QED
    BY <1>4, <2>2, <2>3 DEF Sig!ReceiveSignal, Sig!Idle
<1>5. ASSUME NEW k \in Sig!Handler, Sig!HandlerLocks(k) \/ Sig!HandlerWaited(k) \/ Sig!HandlerExits(k),
             sigMain \notin {"exit0", "exit1", "dump"}
      PROVE  SigInv'
  <2> DEFINE Moved(a, e) == [handler[k] EXCEPT !.at = a, !.early = e]
  <2>1. handler[k] \in HandlerState
    BY <1>1
  <2>2. /\ UNCHANGED <<sigSent, sigCh, iter>>
        /\ exitLock' \in 0 .. Sig!Main /\ cancelled' \in BOOLEAN /\ (cancelled => cancelled')
        /\ UNCHANGED sigMain \/ sigMain' \in {"dump", "exit1"}
    <3>1. /\ exitLock \in 0 .. Sig!Main /\ k \in 0 .. Sig!Main /\ cancelled \in BOOLEAN
      BY <1>1 DEF SigInv, Sig!TypeOK, Sig!Main
    <3>2. CASE Sig!HandlerLocks(k)
      BY <3>1, <3>2 DEF Sig!HandlerLocks
    <3>3. CASE Sig!HandlerWaited(k)
      BY <3>1, <3>3 DEF Sig!HandlerWaited
    <3>4. CASE Sig!HandlerExits(k)
      BY <3>1, <3>4 DEF Sig!HandlerExits
    <3> QED
      BY <1>5, <3>2, <3>3, <3>4
  <2>3. \E a \in {"wait", "exit", "cut"}, e \in BOOLEAN :
           /\ handler' = [handler EXCEPT ![k] = Moved(a, e)]
           /\ a = "cut" => e
           /\ a = "exit" /\ ~e => sigMain' \notin {"before", "work"}
    <3>1. CASE Sig!HandlerLocks(k)
      <4>1. handler' = [handler EXCEPT ![k] = Moved("wait", handler[k].early)]
        BY <2>1, <3>1 DEF Sig!HandlerLocks, HandlerState
      <4> QED
        BY <2>1, <4>1 DEF HandlerState
    <3>2. CASE Sig!HandlerWaited(k)
      <4>1. handler' = [handler EXCEPT ![k] = Moved("exit", sigMain = "before")]
        BY <2>1, <3>2 DEF Sig!HandlerWaited, HandlerState
      <4>2. (sigMain = "before") \in BOOLEAN /\ (sigMain # "before" => sigMain' \notin {"before", "work"})
        BY <3>2 DEF Sig!HandlerWaited
      <4> QED
        BY <4>1, <4>2
    <3>3. CASE Sig!HandlerExits(k)
      <4>1. CASE sigMain = "work"
        <5>1. handler' = [handler EXCEPT ![k] = Moved("cut", handler[k].early)]
          BY <2>1, <3>3, <4>1 DEF Sig!HandlerExits, HandlerState
        <5> QED
          BY <2>1, <3>3, <4>1, <5>1 DEF Sig!HandlerExits, HandlerState, SigInv
      <4>2. CASE sigMain # "work"
        <5>1. handler' = [handler EXCEPT ![k] = Moved("exit", handler[k].early)]
          BY <2>1, <3>3, <4>2 DEF Sig!HandlerExits, HandlerState
        <5>2. sigMain' \in {"dump", "exit1"}
          BY <3>3 DEF Sig!HandlerExits
        <5> QED
          BY <2>1, <5>1, <5>2 DEF HandlerState
      <4> QED
        BY <4>1, <4>2
    <3> QED
      BY <1>5, <3>1, <3>2, <3>3
  <2>4. PICK a \in {"wait", "exit", "cut"}, e \in BOOLEAN :
           /\ handler' = [handler EXCEPT ![k] = Moved(a, e)]
           /\ a = "cut" => e
           /\ a = "exit" /\ ~e => sigMain' \notin {"before", "work"}
    BY <2>3
  <2> DEFINE r == Moved(a, e)
  <2>5. r \in HandlerState /\ r.at = a /\ r.early = e
    BY <2>1 DEF HandlerState
  <2>6. handler' = [handler EXCEPT ![k] = r]
    BY <2>4
  <2> HIDE DEF r, Moved
  <2>7. /\ handler' \in [Sig!Handler -> HandlerState] /\ handler'[k] = r
        /\ \A j \in Sig!Handler : j # k => handler'[j] = handler[j]
    BY <1>1, <2>5, <2>6
  <2>8. \A j \in Sig!Handler : handler'[j].at = "cut" => handler'[j].early
    BY <2>4, <2>5, <2>7 DEF SigInv, Sig!ExitHonest
  <2>9. \A j \in Sig!Handler : handler'[j].at = "exit" /\ ~handler'[j].early => sigMain' \notin {"before", "work"}
    BY <2>2, <2>4, <2>5, <2>7 DEF SigInv
  <2>10. /\ sigMain' # "exit0" /\ (sigMain' = "lock" => iter' = Iterations \/ cancelled')
    BY <1>5, <2>2 DEF SigInv
  <2>11. Sig!TypeOK'
    BY <2>2, <2>7 DEF SigInv, Sig!TypeOK, HandlerState
  <2> QED
    BY <2>8, <2>9, <2>10, <2>11 DEF SigInv, Sig!ExitHonest
<1>6. CASE Sig!Begin \/ Sig!WorkReturns \/ Sig!MainLocks
  BY <1>1, <1>6 DEF Sig!Begin, Sig!WorkReturns, Sig!MainLocks, SigInv, Sig!TypeOK, Sig!ExitHonest, Sig!Main
<1>7. CASE Sig!Iterate
  BY <1>1, <1>7 DEF Sig!Iterate, SigInv, Sig!TypeOK, Sig!ExitHonest
<1> QED
  BY <1>2, <1>3, <1>4, <1>5, <1>6, <1>7 DEF Sig!Next, Sig!Steps, Sig!Ended

LEMMA SigInvStep == SigInv /\ program = "signals" /\ [Next]_vars => SigInv'
  BY SigAlone, SigKeeps

-----------------------------------------------------------------------------
(* remoteCmd and expect.                                                   *)

\* What has become of the dialogue, of the pipe and of the error, at each place
\* of expect's main.
SshInv ==
    /\ Ssh!TypeOK
    /\ copier = "done" => writer = "closed"
    /\ tool = "remoteCmd" => toolAt \in {"start", "session", "output", "return", "exit0", "exit1"}
    /\ tool = "expect" =>
        /\ toolAt \notin {"session", "output", "return"}
        /\ toolAt \in {"start", "spawn"} => writer = "none" /\ asked = "no"
        /\ toolAt \in {"prompt", "switch"} => writer = "open" /\ asked = "no"
        /\ toolAt = "answer" => writer = "open"
        /\ toolAt = "last" => writer = "open" /\ asked # "asked"
        /\ toolAt = "close" => writer = "open" /\ (asked = "asked" => failed)
        /\ toolAt = "debug" => /\ writer \in {"none", "closed"} /\ (writer = "none" \/ asked = "asked" => failed)
        /\ toolAt = "exit0" => writer = "closed" /\ asked # "asked"
        /\ toolAt \in {"exit0", "exit1"} /\ writer # "none" => copier = "done"

LEMMA SshAlone == program = "ssh" /\ [Next]_vars => [Ssh!Next]_sshVars
  BY DEF Next, AtRest, Only, Off, vars

LEMMA SshInvInit == Init /\ program = "ssh" => SshInv
  BY DEF Init, IdleTools, Ssh!Init, SshInv, Ssh!TypeOK

LEMMA SshKeeps == ASSUME SshInv, [Ssh!Next]_sshVars PROVE SshInv'
<1>1. CASE UNCHANGED sshVars
  BY <1>1 DEF sshVars, SshInv, Ssh!TypeOK
<1>2. CASE ~Ssh!Ended /\ Ssh!Refuse
  BY <1>2 DEF Ssh!Refuse, Ssh!Goto, Ssh!Fails, Ssh!Ended, SshInv, Ssh!TypeOK
<1>3. CASE ~Ssh!Ended /\ Ssh!CmdConnect
  BY <1>3 DEF Ssh!CmdConnect, Ssh!Goto, Ssh!Fails, Ssh!Ended, SshInv, Ssh!TypeOK
<1>4. CASE ~Ssh!Ended /\ Ssh!NewSession
  BY <1>4 DEF Ssh!NewSession, Ssh!Goto, Ssh!Fails, Ssh!Ended, SshInv, Ssh!TypeOK
<1>5. CASE ~Ssh!Ended /\ Ssh!DeadlinePasses
  BY <1>5 DEF Ssh!DeadlinePasses, Ssh!Goto, Ssh!Fails, Ssh!Ended, SshInv, Ssh!TypeOK
<1>6. CASE ~Ssh!Ended /\ Ssh!Watch
  BY <1>6 DEF Ssh!Watch, Ssh!Goto, Ssh!Fails, Ssh!Ended, SshInv, Ssh!TypeOK
<1>7. CASE ~Ssh!Ended /\ Ssh!OutputReturns
  BY <1>7 DEF Ssh!OutputReturns, Ssh!Goto, Ssh!Fails, Ssh!Ended, SshInv, Ssh!TypeOK
<1>8. CASE ~Ssh!Ended /\ Ssh!CmdExit
  BY <1>8 DEF Ssh!CmdExit, Ssh!Goto, Ssh!Fails, Ssh!Ended, SshInv, Ssh!TypeOK
<1>9. CASE ~Ssh!Ended /\ Ssh!RemoteEnds
  BY <1>9 DEF Ssh!RemoteEnds, Ssh!Goto, Ssh!Fails, Ssh!Ended, SshInv, Ssh!TypeOK
<1>10. CASE ~Ssh!Ended /\ Ssh!ExpectConnect
  BY <1>10 DEF Ssh!ExpectConnect, Ssh!Goto, Ssh!Fails, Ssh!Ended, SshInv, Ssh!TypeOK
<1>11. CASE ~Ssh!Ended /\ Ssh!SpawnSSH
  BY <1>11 DEF Ssh!SpawnSSH, Ssh!Goto, Ssh!Fails, Ssh!Ended, SshInv, Ssh!TypeOK
<1>12. CASE ~Ssh!Ended /\ Ssh!Dialogue
  <2>1. /\ UNCHANGED <<tool, remote, watcher, expired, done, writer, copier>>
        /\ tool = "expect" /\ toolAt \in {"prompt", "switch", "answer", "last"} /\ writer = "open"
    BY <1>12 DEF Ssh!Dialogue, SshInv, Ssh!TypeOK
  <2>2. CASE toolAt \in {"prompt", "switch"}
    BY <1>12, <2>1, <2>2 DEF Ssh!Dialogue, Ssh!Goto, Ssh!Fails, SshInv, Ssh!TypeOK
  <2>3. CASE toolAt \in {"answer", "last"}
    BY <1>12, <2>1, <2>3 DEF Ssh!Dialogue, Ssh!Goto, Ssh!Fails, SshInv, Ssh!TypeOK
  <2> QED
    BY <2>1, <2>2, <2>3
<1>13. CASE ~Ssh!Ended /\ Ssh!CloseExpect
  BY <1>13 DEF Ssh!CloseExpect, Ssh!Goto, Ssh!Fails, Ssh!Ended, SshInv, Ssh!TypeOK
<1>14. CASE ~Ssh!Ended /\ Ssh!CopyEnds
  BY <1>14 DEF Ssh!CopyEnds, Ssh!Goto, Ssh!Fails, Ssh!Ended, SshInv, Ssh!TypeOK
<1>15. CASE ~Ssh!Ended /\ Ssh!Debug
  BY <1>15 DEF Ssh!Debug, Ssh!Goto, Ssh!Fails, Ssh!Ended, SshInv, Ssh!TypeOK
<1> QED
  BY <1>1, <1>2, <1>3, <1>4, <1>5, <1>6, <1>7, <1>8, <1>9, <1>10, <1>11, <1>12, <1>13, <1>14, <1>15 DEF Ssh!Next, Ssh!Steps

LEMMA SshInvStep == SshInv /\ program = "ssh" /\ [Next]_vars => SshInv'
  BY SshAlone, SshKeeps

LEMMA SshInvGives == SshInv => Ssh!InstallHonest
  BY DEF SshInv, Ssh!TypeOK, Ssh!InstallHonest, Ssh!Ended

-----------------------------------------------------------------------------
(* ping.                                                                   *)

\* The names that the reader has handed over and main has received have a
\* goroutine.  Once the reader is gone, it has read everything.
PingInv ==
    /\ \E n \in 0 .. MaxNames : names \in [1 .. n -> Ping!Kind] /\ read \in 0 .. n
    /\ Ping!TypeOK
    /\ hostCh = <<>> \/ \E k \in 1 .. read : hostCh = <<k>>
    /\ \A k \in 1 .. read : hostCh = <<k>> => Ping!Handed(k) /\ pinger[k] = "none"
    /\ \A k \in Ping!Names : pinger[k] # "none" => names[k] = "host" /\ Ping!Handed(k) /\ k <= read
    /\ pingMain # "failed" =>
          \A k \in 1 .. read : Ping!Handed(k) /\ pinger[k] = "none" => hostCh = <<k>>
    /\ ~reader => read = Len(names)
    /\ pingMain \in {"wait", "ok"} => hostCh = <<>> /\ ~reader
    /\ pingMain = "ok" => \A k \in Ping!Names : pinger[k] # "run"

LEMMA PingAlone == program = "ping" /\ [Next]_vars => [Ping!Next]_pingVars
  BY DEF Next, AtRest, Only, Off, vars

LEMMA PingInvInit == Init /\ program = "ping" => PingInv
<1> SUFFICES ASSUME Ping!Init PROVE PingInv
  BY DEF Init, IdleTools
<1>1. PICK n \in 0 .. MaxNames : names \in [1 .. n -> Ping!Kind]
  BY DEF Ping!Init
<1>2. n \in Nat /\ Len(names) = n /\ DOMAIN names = 1 .. n
  BY <1>1, CountAssumption
<1>3. \E m \in 0 .. MaxNames : names \in [1 .. m -> Ping!Kind] /\ 0 \in 0 .. m
  BY <1>1, <1>2
<1>4. Ping!TypeOK
  BY <1>1, <1>2 DEF Ping!Init, Ping!TypeOK, Ping!Names
<1> QED
  BY <1>2, <1>3, <1>4 DEF Ping!Init, PingInv, Ping!Names

LEMMA PingKeeps == ASSUME PingInv, [Ping!Next]_pingVars PROVE PingInv'
<1>1. PICK n \in 0 .. MaxNames : names \in [1 .. n -> Ping!Kind] /\ read \in 0 .. n
  BY DEF PingInv
<1>2. n \in Nat /\ Len(names) = n /\ DOMAIN names = 1 .. n /\ Ping!Names = 1 .. n
  BY <1>1, CountAssumption DEF Ping!Names
<1>3. CASE UNCHANGED pingVars
  BY <1>3 DEF pingVars, PingInv, Ping!TypeOK, Ping!Names, Ping!Handed
<1>4. CASE Ping!Read
  <2>1. /\ read < n /\ read' = read + 1 /\ UNCHANGED <<names, stdin, unended, reader, pinger, pingMain>>
        /\ IF Ping!Handed(read + 1) THEN hostCh = <<>> /\ hostCh' = <<read + 1>> ELSE UNCHANGED hostCh
        /\ pingMain \in {"range", "wait"}
    BY <1>2, <1>4 DEF Ping!Read, Ping!Handed, Ping!Running
  <2>2. names' \in [1 .. n -> Ping!Kind] /\ read' \in 1 .. n /\ Ping!Names' = Ping!Names
        /\ \A k : Ping!Handed(k)' <=> Ping!Handed(k)
    BY <1>1, <1>2, <2>1 DEF Ping!Handed, Ping!Names
  <2>3. /\ (hostCh' = <<>> \/ \E k \in 1 .. read' : hostCh' = <<k>>) /\ Len(hostCh') <= 1
        /\ reader /\ pinger[read + 1] = "none"
    <3>1. reader
      BY <1>1, <1>2, <2>1 DEF PingInv
    <3>2. pinger[read + 1] = "none"
      BY <1>1, <1>2, <2>1 DEF PingInv, Ping!TypeOK
    <3>3. hostCh' = <<>> \/ \E k \in 1 .. read' : hostCh' = <<k>>
      BY <1>1, <1>2, <2>1 DEF PingInv
    <3>4. Len(hostCh') <= 1
      <4>1. CASE hostCh' = <<>>
        BY <4>1
      <4>2. ASSUME NEW k \in 1 .. read', hostCh' = <<k>> PROVE Len(hostCh') <= 1
        BY <4>2
      <4> QED
        BY <3>3, <4>1, <4>2
    <3> QED
      BY <3>1, <3>2, <3>3, <3>4
  <2>4. \A k \in 1 .. read' : hostCh' = <<k>> => Ping!Handed(k) /\ pinger[k] = "none"
    BY <1>1, <1>2, <2>1, <2>3 DEF PingInv
  <2>5. \A k \in 1 .. read' : Ping!Handed(k) /\ pinger[k] = "none" => hostCh' = <<k>>
    BY <1>1, <1>2, <2>1 DEF PingInv
  <2>6. Ping!TypeOK'
    BY <1>1, <1>2, <2>1, <2>2, <2>3 DEF PingInv, Ping!TypeOK
  <2> QED
    BY <1>1, <1>2, <2>1, <2>2, <2>3, <2>4, <2>5, <2>6 DEF PingInv
<1>5. CASE Ping!StartPing
  <2> DEFINE k == Head(hostCh)
  <2>1. /\ k \in 1 .. read /\ hostCh = <<k>> /\ hostCh' = <<>> /\ pingMain = "range"
        /\ UNCHANGED <<names, stdin, unended, read, reader>>
        /\ Ping!Handed(k) /\ pinger[k] = "none"
    BY <1>5 DEF Ping!StartPing, PingInv
  <2>2. /\ names' \in [1 .. n -> Ping!Kind] /\ Ping!Names' = Ping!Names
        /\ \A j : Ping!Handed(j)' <=> Ping!Handed(j)
    BY <1>1, <1>2, <2>1 DEF Ping!Handed, Ping!Names
  <2>3. \/ names[k] = "host" /\ pinger' = [pinger EXCEPT ![k] = "run"] /\ UNCHANGED pingMain
        \/ pingMain' = "failed" /\ UNCHANGED pinger
    BY <1>5 DEF Ping!StartPing
  <2> HIDE DEF k
  <2>4. Ping!TypeOK'
    BY <1>1, <1>2, <2>1, <2>2, <2>3 DEF PingInv, Ping!TypeOK
  <2>5. \A j \in Ping!Names : pinger'[j] # "none" => names[j] = "host" /\ Ping!Handed(j) /\ j <= read
    BY <1>1, <1>2, <2>1, <2>3 DEF PingInv, Ping!TypeOK
  <2>6. pingMain' # "failed" => \A j \in 1 .. read : Ping!Handed(j) /\ pinger'[j] = "none" => FALSE
    BY <1>1, <1>2, <2>1, <2>3 DEF PingInv, Ping!TypeOK
  <2> QED
    BY <1>1, <1>2, <2>1, <2>2, <2>3, <2>4, <2>5, <2>6 DEF PingInv
<1>6. ASSUME NEW k \in Ping!Names, Ping!Report(k) PROVE PingInv'
  <2>1. /\ pinger[k] = "run" /\ pinger' = [pinger EXCEPT ![k] = "reported"]
        /\ UNCHANGED <<names, stdin, unended, read, hostCh, reader, pingMain>>
    BY <1>6 DEF Ping!Report
  <2>2. Ping!Names' = Ping!Names /\ \A j : Ping!Handed(j)' <=> Ping!Handed(j)
    BY <2>1 DEF Ping!Handed, Ping!Names
  <2>3. /\ pinger' \in [Ping!Names -> {"none", "run", "reported"}]
        /\ \A j \in Ping!Names : /\ pinger'[j] = "none" <=> pinger[j] = "none"
                                 /\ pinger'[j] = "run" => pinger[j] = "run"
    BY <2>1 DEF PingInv, Ping!TypeOK
  <2>4. Ping!TypeOK'
    BY <1>1, <1>2, <2>1, <2>2, <2>3 DEF PingInv, Ping!TypeOK
  <2> QED
    BY <1>1, <1>2, <2>1, <2>2, <2>3, <2>4 DEF PingInv
<1>7. CASE Ping!ReadEnd \/ Ping!RangeEnd \/ Ping!Exit
  <2>1. UNCHANGED <<names, stdin, unended, read, hostCh, pinger>>
    BY <1>7 DEF Ping!ReadEnd, Ping!RangeEnd, Ping!Exit
  <2>2. Ping!Names' = Ping!Names /\ \A j : Ping!Handed(j)' <=> Ping!Handed(j)
    BY <2>1 DEF Ping!Handed, Ping!Names
  <2>3. /\ ~reader' => read = n
        /\ pingMain' \in {"wait", "ok"} => hostCh = <<>> /\ ~reader'
        /\ pingMain' = "ok" => \A k \in Ping!Names : pinger[k] # "run"
        /\ pingMain' \in {"range", "wait", "ok", "failed"} /\ (pingMain' # "failed" => pingMain # "failed")
    BY <1>2, <1>7 DEF Ping!ReadEnd, Ping!RangeEnd, Ping!Exit, PingInv, Ping!TypeOK, Ping!Running
  <2>4. Ping!TypeOK'
    BY <1>1, <1>2, <2>1, <2>2, <2>3 DEF PingInv, Ping!TypeOK
  <2> QED
    BY <1>1, <1>2, <2>1, <2>2, <2>3, <2>4 DEF PingInv
<1> QED
  BY <1>3, <1>4, <1>5, <1>6, <1>7 DEF Ping!Next

LEMMA PingInvStep == PingInv /\ program = "ping" /\ [Next]_vars => PingInv'
  BY PingAlone, PingKeeps

LEMMA PingInvGives == PingInv => Ping!OkMeansReported
<1> SUFFICES ASSUME PingInv, pingMain = "ok", NEW k \in Ping!Names
             PROVE  IF Ping!Handed(k) THEN names[k] = "host" /\ pinger[k] = "reported" ELSE pinger[k] = "none"
  BY DEF Ping!OkMeansReported
<1>1. k \in 1 .. read /\ hostCh # <<k>>
  BY CountAssumption DEF PingInv, Ping!Names
<1> QED
  BY <1>1 DEF PingInv, Ping!TypeOK

-----------------------------------------------------------------------------
(* The telemetry demonstrations.                                           *)

\* The server is ahead of the client by the request it has answered.  A client
\* that panics, after its setup, has pushed what it counted.
DemoInv ==
    /\ Demo!TypeOK
    /\ counted["server"] = counted["client"] + (IF handling = "answered" THEN 1 ELSE 0)
    /\ proc["client"] = "waits" <=> handling \in {"busy", "answered"}
    /\ handling # "idle" => counted["client"] < MaxRequests
    /\ proc["client"] \in {"metrics", "traces"} => counted["client"] = 0 /\ pushed["client"] = 0
    /\ proc["client"] = "panic" /\ demo.metrics => pushed["client"] = counted["client"]

LEMMA DemoAlone == program = "demo" /\ [Next]_vars => [Demo!Next]_demoVars
  BY DEF Next, AtRest, Only, Off, vars

LEMMA DemoInvInit == Init /\ program = "demo" => DemoInv
<1> SUFFICES ASSUME Demo!Init PROVE DemoInv
  BY DEF Init, IdleTools
<1>1. MaxRequests \in Nat /\ "server" \in Demo!Process /\ "client" \in Demo!Process
  BY CountAssumption DEF Demo!Process
<1>2. demo \in [metrics : BOOLEAN, listenError : {"returning", "fatal"}]
  <2>1. /\ Demo!Tracing \in [metrics : BOOLEAN, listenError : {"returning", "fatal"}]
        /\ Demo!Metrics \in [metrics : BOOLEAN, listenError : {"returning", "fatal"}]
        /\ Demo!Alerting \in [metrics : BOOLEAN, listenError : {"returning", "fatal"}]
    BY DEF Demo!Tracing, Demo!Metrics, Demo!Alerting
  <2> QED
    BY <2>1 DEF Demo!Init
<1>3. proc \in [Demo!Process -> {"metrics", "traces"}]
  BY DEF Demo!Init
<1>4. /\ counted \in [Demo!Process -> 0 .. MaxRequests] /\ pushed \in [Demo!Process -> 0 .. MaxRequests]
      /\ queued \in [Demo!Process -> Nat] /\ exported \in [Demo!Process -> Nat]
      /\ counted["server"] = 0 /\ counted["client"] = 0 /\ pushed["client"] = 0
      /\ handling = "idle" /\ otel \in BOOLEAN
  BY <1>1 DEF Demo!Init
<1>5. Demo!TypeOK
  BY <1>2, <1>3, <1>4 DEF Demo!TypeOK
<1> QED
  BY <1>1, <1>3, <1>4, <1>5 DEF DemoInv

LEMMA DemoKeeps == ASSUME DemoInv, [Demo!Next]_demoVars PROVE DemoInv'
<1>1. /\ MaxRequests \in Nat /\ "server" \in Demo!Process /\ "client" \in Demo!Process
      /\ \A p \in Demo!Process : p = "server" \/ p = "client"
  BY CountAssumption DEF Demo!Process
<1>2. CASE UNCHANGED demoVars
  BY <1>2 DEF demoVars, DemoInv, Demo!TypeOK
<1>3. CASE Demo!CollectorStarts
  BY <1>1, <1>3 DEF Demo!CollectorStarts, DemoInv, Demo!TypeOK
<1>4. CASE Demo!Listen
  BY <1>1, <1>4 DEF Demo!Listen, DemoInv, Demo!TypeOK, Demo!Dead
<1>5. CASE Demo!MakeRequest
  <2>1. CASE proc["server"] = "run"
    BY <1>1, <1>5, <2>1 DEF Demo!MakeRequest, DemoInv, Demo!TypeOK, Demo!Dead
  <2>2. CASE proc["server"] # "run"
    BY <1>1, <1>5, <2>2 DEF Demo!MakeRequest, DemoInv, Demo!TypeOK, Demo!Dead
  <2> QED
    BY <2>1, <2>2
<1>6. CASE Demo!ServerStopped
  BY <1>1, <1>6 DEF Demo!ServerStopped, DemoInv, Demo!TypeOK, Demo!Dead
<1>7. CASE Demo!RequestFails
  BY <1>1, <1>7 DEF Demo!RequestFails, DemoInv, Demo!TypeOK, Demo!Dead
<1>8. CASE Demo!Handle
  BY <1>1, <1>8 DEF Demo!Handle, DemoInv, Demo!TypeOK, Demo!Dead
<1>9. CASE Demo!Response
  BY <1>1, <1>9 DEF Demo!Response, DemoInv, Demo!TypeOK, Demo!Dead
<1>10. ASSUME NEW p \in Demo!Process, Demo!InitMetrics(p) PROVE DemoInv'
  BY <1>1, <1>10 DEF Demo!InitMetrics, DemoInv, Demo!TypeOK, Demo!Dead
<1>11. ASSUME NEW p \in Demo!Process, Demo!InitTracer(p) PROVE DemoInv'
  BY <1>1, <1>11 DEF Demo!InitTracer, DemoInv, Demo!TypeOK, Demo!Dead
<1>12. ASSUME NEW p \in Demo!Process, Demo!ExportSpans(p) PROVE DemoInv'
  BY <1>1, <1>12 DEF Demo!ExportSpans, DemoInv, Demo!TypeOK, Demo!Dead
<1>13. ASSUME NEW p \in Demo!Process, Demo!ExportCounts(p) PROVE DemoInv'
  BY <1>1, <1>13 DEF Demo!ExportCounts, DemoInv, Demo!TypeOK, Demo!Dead
<1>14. ASSUME NEW p \in Demo!Process, Demo!Shutdown(p) PROVE DemoInv'
  <2>1. CASE demo.metrics
    BY <1>1, <1>14, <2>1 DEF Demo!Shutdown, DemoInv, Demo!TypeOK, Demo!Dead
  <2>2. CASE ~demo.metrics
    BY <1>1, <1>14, <2>2 DEF Demo!Shutdown, DemoInv, Demo!TypeOK, Demo!Dead
  <2> QED
    BY <2>1, <2>2
<1> QED
  BY <1>2, <1>3, <1>4, <1>5, <1>6, <1>7, <1>8, <1>9, <1>10, <1>11, <1>12, <1>13, <1>14 DEF Demo!Next

LEMMA DemoInvStep == DemoInv /\ program = "demo" /\ [Next]_vars => DemoInv'
  BY DemoAlone, DemoKeeps

LEMMA DemoInvGives == DemoInv => Demo!CountsArePushed
<1> SUFFICES ASSUME DemoInv PROVE counted["client"] <= counted["server"]
  BY DEF DemoInv, Demo!CountsArePushed
<1>1. counted["client"] \in Nat /\ "client" \in Demo!Process
  BY CountAssumption DEF DemoInv, Demo!TypeOK, Demo!Process
<1> QED
  BY <1>1 DEF DemoInv

-----------------------------------------------------------------------------
(* remoteUname.                                                            *)

Bit(b) == IF b THEN 1 ELSE 0

Channel == {"ips", "recs", "out"}
Held(s, h) == stage[s].at \in {"limit", "pass"} /\ stage[s].rec.host = h
Runs(s, h) == worker[s][h] = "run"
Awaited(h) == nextIP <= h /\ h < LastIP
InChan(c, h) == chan[c].buf # <<>> /\ (IF c = "ips" THEN chan[c].buf[1] = h ELSE chan[c].buf[1].host = h)

\* In how many places of the pipeline an address is.
Places(h) ==
    Bit(Awaited(h)) + Bit(InChan("ips", h))
    + Bit(Held("scan", h)) + Bit(Runs("scan", h)) + Bit(InChan("recs", h))
    + Bit(Held("uname", h)) + Bit(Runs("uname", h)) + Bit(InChan("out", h)) + printed[h]

ChannelsTyped ==
    /\ chan = [c \in Channel |-> [buf |-> chan[c].buf, open |-> chan[c].open]]
    /\ \A c \in Channel : chan[c].open \in BOOLEAN /\ Len(chan[c].buf) <= 1
    /\ chan["ips"].buf # <<>> => chan["ips"].buf[1] \in Scan!IP
    /\ \A c \in {"recs", "out"} : chan[c].buf # <<>> => chan[c].buf[1] \in Scan!Record

StagesTyped ==
    /\ DOMAIN stage = Scan!Stage
    /\ \A s \in Scan!Stage :
         /\ stage[s].at \in {"range", "limit", "pass", "end"}
         /\ stage[s].at \in {"limit", "pass"} => stage[s].rec \in Scan!Record
    /\ stage["scan"].at # "pass"

ScanTypes ==
    /\ start \in 0 .. LastIP - 1 /\ nextIP \in 1 .. LastIP /\ start < nextIP
    /\ ChannelsTyped /\ StagesTyped
    /\ worker \in [Scan!Stage -> [Scan!IP -> {"none", "run", "done", "left"}]]
    /\ printed \in [Scan!IP -> Nat]

\* A channel is closed by the stage that has nothing left to send to it.
ClosedInOrder ==
    /\ ~chan["ips"].open => nextIP = LastIP
    /\ \A s \in Scan!Stage :
         /\ ~chan[Scan!Out[s]].open <=> stage[s].at = "end"
         /\ stage[s].at = "end" => /\ ~chan[Scan!In[s]].open /\ chan[Scan!In[s]].buf = <<>>
                                   /\ \A h \in Scan!IP : ~Runs(s, h)

\* Every host after the given address is in one place, printed once at most.
EachOnce == \A h \in Scan!IP : Places(h) = Bit(start < h /\ h < LastIP)

ScanInv == ScanTypes /\ ClosedInOrder /\ EachOnce

LEMMA ScanAlone == program = "scan" /\ [Next]_vars => [Scan!Next]_scanVars
  BY DEF Next, AtRest, Only, Off, vars

LEMMA ScanConstants ==
    /\ LastIP \in Nat /\ Scan!IP = 1 .. LastIP
    /\ Scan!Stage = {"scan", "uname"} /\ Channel = {"ips", "recs", "out"}
    /\ Scan!In["scan"] = "ips" /\ Scan!In["uname"] = "recs"
    /\ Scan!Out["scan"] = "recs" /\ Scan!Out["uname"] = "out"
    /\ \A r \in Scan!Record : r.host \in Scan!IP
  BY CountAssumption DEF Scan!IP, Scan!Stage, Scan!In, Scan!Out, Scan!Record, Channel

LEMMA ScanInvInit == Init /\ program = "scan" => ScanInv
<1> SUFFICES ASSUME Scan!Init PROVE ScanInv
  BY DEF Init, IdleTools
<1>1. /\ start \in 0 .. LastIP - 1 /\ nextIP = start + 1
      /\ chan = [c \in Channel |-> [buf |-> <<>>, open |-> TRUE]]
      /\ stage = [s \in Scan!Stage |-> [at |-> "range"]]
      /\ worker = [s \in Scan!Stage |-> [h \in Scan!IP |-> "none"]]
      /\ printed = [h \in Scan!IP |-> 0]
  BY DEF Scan!Init, Channel
<1>2. /\ \A c \in Channel : chan[c].buf = <<>> /\ chan[c].open /\ chan[c].open \in BOOLEAN
      /\ chan = [c \in Channel |-> [buf |-> chan[c].buf, open |-> chan[c].open]]
  BY <1>1
<1>3. \A s \in Scan!Stage : stage[s].at = "range" /\ \A h \in Scan!IP : worker[s][h] = "none"
  BY <1>1
<1>4. ScanTypes
  <2>1. start \in 0 .. LastIP - 1 /\ nextIP \in 1 .. LastIP /\ start < nextIP
    BY <1>1, ScanConstants
  <2>2. \A c \in Channel : chan[c].open \in BOOLEAN /\ Len(chan[c].buf) <= 1 /\ chan[c].buf = <<>>
    BY <1>2, Len(<<>>) = 0
  <2>3. /\ DOMAIN stage = Scan!Stage /\ worker \in [Scan!Stage -> [Scan!IP -> {"none", "run", "done", "left"}]]
        /\ printed \in [Scan!IP -> Nat]
    BY <1>1
  <2> QED
    BY <1>2, <1>3, <2>1, <2>2, <2>3, ScanConstants DEF ScanTypes, ChannelsTyped, StagesTyped
<1>5. ClosedInOrder
  BY <1>2, <1>3, ScanConstants DEF ClosedInOrder, Runs
<1>6. EachOnce
  BY <1>1, <1>2, <1>3, ScanConstants DEF EachOnce, Places, Bit, Awaited, InChan, Held, Runs
<1> QED
  BY <1>4, <1>5, <1>6 DEF ScanInv

\* What a channel is after one operation.
LEMMA ScanOne ==
    ASSUME NEW x
    PROVE  <<x>> # <<>> /\ <<x>>[1] = x /\ Len(<<x>>) = 1 /\ Len(<<>>) = 0 /\ Head(<<x>>) = x
  OBVIOUS

LEMMA ScanChannel ==
    ASSUME ScanTypes, NEW c \in Channel, NEW r, r = [buf |-> r.buf, open |-> r.open], chan' = [chan EXCEPT ![c] = r],
           r.open \in BOOLEAN, Len(r.buf) <= 1,
           c = "ips" /\ r.buf # <<>> => r.buf[1] \in Scan!IP,
           c # "ips" /\ r.buf # <<>> => r.buf[1] \in Scan!Record
    PROVE  ChannelsTyped' /\ chan'[c] = r /\ \A d \in Channel : d # c => chan'[d] = chan[d]
<1>1. DOMAIN chan = Channel /\ \A d \in Channel : chan[d] = [buf |-> chan[d].buf, open |-> chan[d].open]
  BY DEF ScanTypes, ChannelsTyped
<1>2. chan'[c] = r /\ \A d \in Channel : d # c => chan'[d] = chan[d]
  BY <1>1
<1>3. DOMAIN chan' = Channel /\ chan' = [d \in Channel |-> chan'[d]]
  BY <1>1
<1>4. \A d \in Channel : chan'[d] = [buf |-> chan'[d].buf, open |-> chan'[d].open]
  BY <1>1, <1>2
<1>5. chan' = [d \in Channel |-> [buf |-> chan'[d].buf, open |-> chan'[d].open]]
  BY <1>3, <1>4
<1>6. \A d \in Channel : chan'[d].open \in BOOLEAN /\ Len(chan'[d].buf) <= 1
  BY <1>2 DEF ScanTypes, ChannelsTyped
<1>7. /\ chan'["ips"].buf # <<>> => chan'["ips"].buf[1] \in Scan!IP
      /\ \A d \in {"recs", "out"} : chan'[d].buf # <<>> => chan'[d].buf[1] \in Scan!Record
  BY <1>2, ScanConstants DEF ScanTypes, ChannelsTyped
<1>8. ChannelsTyped'
  BY <1>5, <1>6, <1>7 DEF ChannelsTyped
<1> QED
  BY <1>2, <1>8

LEMMA ScanSends ==
    ASSUME ScanTypes, NEW c \in Channel, NEW x, c = "ips" => x \in Scan!IP, c # "ips" => x \in Scan!Record,
           chan' = Scan!Sent(chan, c, x)
    PROVE  /\ ChannelsTyped' /\ chan'[c].open = chan[c].open /\ chan'[c].buf # <<>> /\ chan'[c].buf[1] = x
           /\ \A d \in Channel : d # c => chan'[d] = chan[d]
<1> DEFINE r == [buf |-> <<x>>, open |-> chan[c].open]
<1>1. DOMAIN chan = Channel /\ chan[c] = [buf |-> chan[c].buf, open |-> chan[c].open]
  BY DEF ScanTypes, ChannelsTyped
<1>2. chan' = [chan EXCEPT ![c] = r]
  <2>1. ASSUME NEW q, NEW b, NEW o, NEW f, q = [buf |-> b, open |-> o]
        PROVE  [q EXCEPT !.buf = f] = [buf |-> f, open |-> o]
    BY <2>1
  <2>2. [chan[c] EXCEPT !.buf = <<x>>] = r
    BY <1>1, <2>1
  <2> QED
    BY <2>2 DEF Scan!Sent
<1>3. r = [buf |-> r.buf, open |-> r.open] /\ r.buf = <<x>> /\ r.open = chan[c].open
  OBVIOUS
<1> HIDE DEF r
<1>4. r.open \in BOOLEAN /\ Len(r.buf) <= 1
  BY <1>3, ScanOne DEF ScanTypes, ChannelsTyped
<1>5. /\ c = "ips" /\ r.buf # <<>> => r.buf[1] \in Scan!IP
      /\ c # "ips" /\ r.buf # <<>> => r.buf[1] \in Scan!Record
  BY <1>3, ScanConstants, ScanOne DEF ScanTypes, ChannelsTyped
<1>6. ChannelsTyped' /\ chan'[c] = r /\ \A d \in Channel : d # c => chan'[d] = chan[d]
  BY <1>2, <1>3, <1>4, <1>5, ScanChannel
<1> QED
  BY <1>3, <1>6, ScanOne

LEMMA ScanReceives ==
    ASSUME ScanTypes, NEW c \in Channel, chan' = Scan!Received(chan, c)
    PROVE  /\ ChannelsTyped' /\ chan'[c].open = chan[c].open /\ chan'[c].buf = <<>>
           /\ \A d \in Channel : d # c => chan'[d] = chan[d]
<1> DEFINE r == [buf |-> <<>>, open |-> chan[c].open]
<1>1. DOMAIN chan = Channel /\ chan[c] = [buf |-> chan[c].buf, open |-> chan[c].open]
  BY DEF ScanTypes, ChannelsTyped
<1>2. chan' = [chan EXCEPT ![c] = r]
  <2>1. ASSUME NEW q, NEW b, NEW o, NEW f, q = [buf |-> b, open |-> o]
        PROVE  [q EXCEPT !.buf = f] = [buf |-> f, open |-> o]
    BY <2>1
  <2>2. [chan[c] EXCEPT !.buf = <<>>] = r
    BY <1>1, <2>1
  <2> QED
    BY <2>2 DEF Scan!Received
<1>3. r = [buf |-> r.buf, open |-> r.open] /\ r.buf = <<>> /\ r.open = chan[c].open
  OBVIOUS
<1> HIDE DEF r
<1>4. r.open \in BOOLEAN /\ Len(r.buf) <= 1
  BY <1>3, Len(<<>>) = 0 DEF ScanTypes, ChannelsTyped
<1>5. /\ c = "ips" /\ r.buf # <<>> => r.buf[1] \in Scan!IP
      /\ c # "ips" /\ r.buf # <<>> => r.buf[1] \in Scan!Record
  BY <1>3, ScanConstants, Len(<<>>) = 0 DEF ScanTypes, ChannelsTyped
<1>6. ChannelsTyped' /\ chan'[c] = r /\ \A d \in Channel : d # c => chan'[d] = chan[d]
  BY <1>2, <1>3, <1>4, <1>5, ScanChannel
<1> QED
  BY <1>3, <1>6

LEMMA ScanCloses ==
    ASSUME ScanTypes, NEW c \in Channel, chan' = [chan EXCEPT ![c].open = FALSE]
    PROVE  /\ ChannelsTyped' /\ chan'[c].open = FALSE /\ chan'[c].buf = chan[c].buf
           /\ \A d \in Channel : d # c => chan'[d] = chan[d]
<1> DEFINE r == [buf |-> chan[c].buf, open |-> FALSE]
<1>1. DOMAIN chan = Channel /\ chan[c] = [buf |-> chan[c].buf, open |-> chan[c].open]
  BY DEF ScanTypes, ChannelsTyped
<1>2. chan' = [chan EXCEPT ![c] = r]
  <2>1. ASSUME NEW q, NEW b, NEW o, q = [buf |-> b, open |-> o]
        PROVE  [q EXCEPT !.open = FALSE] = [buf |-> b, open |-> FALSE]
    <3>1. \A f : [q EXCEPT !.open = f] = [buf |-> b, open |-> f]
      BY <2>1
    <3> QED
      BY <3>1, Zenon
  <2>2. [chan[c] EXCEPT !.open = FALSE] = r
    BY <1>1, <2>1
  <2> QED
    BY <2>2
<1>3. r = [buf |-> r.buf, open |-> r.open] /\ r.buf = chan[c].buf /\ r.open = FALSE
  OBVIOUS
<1> HIDE DEF r
<1>4. r.open \in BOOLEAN /\ Len(r.buf) <= 1
  BY <1>3 DEF ScanTypes, ChannelsTyped
<1>5. /\ c = "ips" /\ r.buf # <<>> => r.buf[1] \in Scan!IP
      /\ c # "ips" /\ r.buf # <<>> => r.buf[1] \in Scan!Record
  BY <1>3, ScanConstants DEF ScanTypes, ChannelsTyped
<1>6. ChannelsTyped' /\ chan'[c] = r /\ \A d \in Channel : d # c => chan'[d] = chan[d]
  BY <1>2, <1>3, <1>4, <1>5, ScanChannel
<1> QED
  BY <1>3, <1>6

\* What the steps of a stage have in common.
LEMMA ScanMoves ==
    ASSUME ScanTypes, NEW s \in Scan!Stage, NEW r, stage' = [stage EXCEPT ![s] = r],
           r.at \in {"range", "limit", "pass", "end"}, r.at \in {"limit", "pass"} => r.rec \in Scan!Record,
           s = "scan" => r.at # "pass"
    PROVE  StagesTyped' /\ stage'[s] = r /\ \A d \in Scan!Stage : d # s => stage'[d] = stage[d]
<1>1. DOMAIN stage' = Scan!Stage /\ stage'[s] = r /\ \A d \in Scan!Stage : d # s => stage'[d] = stage[d]
  BY DEF ScanTypes, StagesTyped
<1>2. StagesTyped'
  BY <1>1, ScanConstants DEF ScanTypes, StagesTyped
<1> QED
  BY <1>1, <1>2

LEMMA ScanWorks ==
    ASSUME ScanTypes, NEW s \in Scan!Stage, NEW g \in Scan!IP, NEW v \in {"run", "done", "left"},
           worker' = [worker EXCEPT ![s][g] = v]
    PROVE  /\ worker' \in [Scan!Stage -> [Scan!IP -> {"none", "run", "done", "left"}]]
           /\ worker'[s][g] = v
           /\ \A d \in Scan!Stage, h \in Scan!IP : d # s \/ h # g => worker'[d][h] = worker[d][h]
<1> DEFINE f == [worker[s] EXCEPT ![g] = v]
<1>1. worker' = [worker EXCEPT ![s] = f] /\ worker \in [Scan!Stage -> [Scan!IP -> {"none", "run", "done", "left"}]]
  BY DEF ScanTypes
<1>2. /\ f \in [Scan!IP -> {"none", "run", "done", "left"}] /\ f[g] = v
      /\ \A h \in Scan!IP : h # g => f[h] = worker[s][h]
  BY <1>1
<1> HIDE DEF f
<1> QED
  BY <1>1, <1>2

\* The producer and the printer.
LEMMA ScanEmits == ASSUME ScanInv, Scan!Emit PROVE ScanInv'
<1>1. /\ nextIP < LastIP /\ nextIP' = nextIP + 1 /\ UNCHANGED <<start, stage, worker, printed>>
      /\ chan["ips"].buf = <<>> /\ chan' = Scan!Sent(chan, "ips", nextIP) /\ nextIP \in Scan!IP
  BY ScanConstants DEF Scan!Emit, Scan!Room, ScanInv, ScanTypes
<1>2. /\ ChannelsTyped' /\ chan'["ips"].buf # <<>> /\ chan'["ips"].buf[1] = nextIP
      /\ chan'["ips"].open = chan["ips"].open
      /\ chan'["recs"] = chan["recs"] /\ chan'["out"] = chan["out"]
  BY <1>1, ScanSends, ScanConstants DEF ScanInv
<1>3. ScanTypes'
  BY <1>1, <1>2, ScanConstants DEF ScanInv, ScanTypes, StagesTyped
<1>4. ClosedInOrder'
  BY <1>1, <1>2, ScanConstants DEF ScanInv, ScanTypes, ClosedInOrder, Runs
<1>5. ASSUME NEW h \in Scan!IP PROVE Places(h)' = Places(h)
  <2>1. h \in Nat /\ nextIP \in Nat /\ printed[h] \in Nat
    BY ScanConstants DEF ScanInv, ScanTypes
  <2>2. /\ InChan("ips", h)' <=> h = nextIP
        /\ ~InChan("ips", h) /\ (Awaited(h) <=> Awaited(h)' \/ h = nextIP) /\ ~(Awaited(h)' /\ h = nextIP)
        /\ (InChan("recs", h)' <=> InChan("recs", h)) /\ (InChan("out", h)' <=> InChan("out", h))
    BY <1>1, <1>2, <2>1, ScanConstants DEF InChan, Awaited
  <2>3. /\ (Held("scan", h)' <=> Held("scan", h)) /\ (Runs("scan", h)' <=> Runs("scan", h))
        /\ (Held("uname", h)' <=> Held("uname", h)) /\ (Runs("uname", h)' <=> Runs("uname", h))
    BY <1>1 DEF Held, Runs
  <2> QED
    BY <1>1, <2>1, <2>2, <2>3 DEF Places, Bit
<1> QED
  BY <1>1, <1>3, <1>4, <1>5 DEF ScanInv, EachOnce

LEMMA ScanEmitEnds == ASSUME ScanInv, Scan!EmitEnd PROVE ScanInv'
<1>1. /\ nextIP = LastIP /\ chan' = [chan EXCEPT !["ips"].open = FALSE]
      /\ UNCHANGED <<start, nextIP, stage, worker, printed>>
  BY DEF Scan!EmitEnd
<1>2. /\ ChannelsTyped' /\ chan'["ips"].buf = chan["ips"].buf /\ chan'["ips"].open = FALSE
      /\ chan'["recs"] = chan["recs"] /\ chan'["out"] = chan["out"]
  BY <1>1, ScanCloses, ScanConstants DEF ScanInv
<1>3. ScanTypes'
  BY <1>1, <1>2 DEF ScanInv, ScanTypes, StagesTyped
<1>4. ClosedInOrder'
  BY <1>1, <1>2, ScanConstants DEF ScanInv, ClosedInOrder, Runs
<1>5. \A h : Places(h)' = Places(h)
  BY <1>1, <1>2 DEF Places, Bit, Awaited, InChan, Held, Runs
<1> QED
  BY <1>1, <1>3, <1>4, <1>5 DEF ScanInv, EachOnce

LEMMA ScanReports == ASSUME ScanInv, Scan!Report PROVE ScanInv'
<1> DEFINE g == chan["out"].buf[1].host
<1>1. /\ chan["out"].buf # <<>> /\ chan' = Scan!Received(chan, "out")
      /\ printed' = [printed EXCEPT ![g] = @ + 1] /\ g \in Scan!IP
      /\ UNCHANGED <<start, nextIP, stage, worker>>
  <2>1. /\ chan["out"].buf # <<>> /\ chan' = Scan!Received(chan, "out") /\ UNCHANGED <<start, nextIP, stage, worker>>
        /\ printed' = [printed EXCEPT ![Head(chan["out"].buf).host] = @ + 1]
    BY DEF Scan!Report, Scan!Room, Scan!Item
  <2>2. Head(chan["out"].buf) = chan["out"].buf[1]
    OBVIOUS
  <2>3. chan["out"].buf[1] \in Scan!Record
    BY <2>1 DEF ScanInv, ScanTypes, ChannelsTyped
  <2> QED
    BY <2>1, <2>2, <2>3, ScanConstants
<1>2. /\ ChannelsTyped' /\ chan'["out"].buf = <<>> /\ chan'["out"].open = chan["out"].open
      /\ chan'["recs"] = chan["recs"] /\ chan'["ips"] = chan["ips"]
  BY <1>1, ScanReceives, ScanConstants DEF ScanInv
<1>3. \A h \in Scan!IP : InChan("out", h) <=> h = g
  BY <1>1 DEF InChan
<1> HIDE DEF g
<1>4. ScanTypes'
  BY <1>1, <1>2 DEF ScanInv, ScanTypes, StagesTyped
<1>5. ClosedInOrder'
  BY <1>1, <1>2, ScanConstants DEF ScanInv, ClosedInOrder, Runs
<1>6. ASSUME NEW h \in Scan!IP PROVE Places(h)' = Places(h)
  <2>1. h \in Nat /\ printed[h] \in Nat /\ printed'[h] = IF h = g THEN printed[h] + 1 ELSE printed[h]
    BY <1>1, ScanConstants DEF ScanInv, ScanTypes
  <2>2. /\ ~InChan("out", h)' /\ (InChan("out", h) <=> h = g) /\ (Awaited(h)' <=> Awaited(h))
        /\ (InChan("recs", h)' <=> InChan("recs", h)) /\ (InChan("ips", h)' <=> InChan("ips", h))
    BY <1>1, <1>2, <1>3 DEF InChan, Awaited
  <2>3. /\ (Held("scan", h)' <=> Held("scan", h)) /\ (Runs("scan", h)' <=> Runs("scan", h))
        /\ (Held("uname", h)' <=> Held("uname", h)) /\ (Runs("uname", h)' <=> Runs("uname", h))
    BY <1>1 DEF Held, Runs
  <2> QED
    BY <2>1, <2>2, <2>3 DEF Places, Bit
<1> QED
  BY <1>1, <1>4, <1>5, <1>6 DEF ScanInv, EachOnce

\* The loop takes an item out of the channel in front of it.
LEMMA ScanTakes == ASSUME ScanInv, NEW s \in Scan!Stage, Scan!Take(s) PROVE ScanInv'
<1> DEFINE c == Scan!In[s]
           x == chan[c].buf[1]
           r == IF s = "scan" THEN [at |-> "limit", rec |-> [host |-> x, reachable |-> FALSE, login |-> FALSE]]
                ELSE [at |-> IF x.reachable THEN "limit" ELSE "pass", rec |-> x]
<1>1. /\ stage[s].at = "range" /\ chan[c].buf # <<>> /\ chan' = Scan!Received(chan, c) /\ c \in Channel
      /\ stage' = [stage EXCEPT ![s] = r] /\ UNCHANGED <<start, nextIP, worker, printed>>
  BY ScanConstants DEF Scan!Take, Scan!Room, Scan!Item
<1>2. /\ r.at \in {"limit", "pass"} /\ r.rec \in Scan!Record /\ (s = "scan" => r.at = "limit")
      /\ \A h \in Scan!IP : r.rec.host = h <=> InChan(c, h)
  <2>1. CASE s = "scan"
    <3>1. x \in Scan!IP /\ c = "ips"
      BY <1>1, <2>1, ScanConstants DEF ScanInv, ScanTypes, ChannelsTyped
    <3> QED
      BY <1>1, <2>1, <3>1 DEF Scan!Record, InChan
  <2>2. CASE s = "uname"
    <3>1. x \in Scan!Record /\ c = "recs"
      BY <1>1, <2>2, ScanConstants DEF ScanInv, ScanTypes, ChannelsTyped
    <3> QED
      BY <1>1, <2>2, <3>1 DEF InChan
  <2> QED
    BY <2>1, <2>2, ScanConstants
<1> HIDE DEF r, x
<1>3. /\ ChannelsTyped' /\ chan'[c].open = chan[c].open /\ chan'[c].buf = <<>>
      /\ \A d \in Channel : d # c => chan'[d] = chan[d]
  BY <1>1, ScanReceives DEF ScanInv
<1>4. StagesTyped' /\ stage'[s] = r /\ \A d \in Scan!Stage : d # s => stage'[d] = stage[d]
  BY <1>1, <1>2, ScanMoves DEF ScanInv
<1>5. ScanTypes'
  BY <1>1, <1>3, <1>4 DEF ScanInv, ScanTypes
<1>6. ClosedInOrder'
  <2>1. /\ \A d \in Channel : chan'[d].open = chan[d].open /\ (chan[d].buf = <<>> => chan'[d].buf = <<>>)
        /\ \A d \in Scan!Stage : stage'[d].at = "end" <=> stage[d].at = "end"
    BY <1>1, <1>2, <1>3, <1>4
  <2> QED
    BY <1>1, <2>1, ScanConstants DEF ScanInv, ClosedInOrder, Runs
<1>7. ASSUME NEW h \in Scan!IP PROVE Places(h)' = Places(h)
  <2>1. h \in Nat /\ printed[h] \in Nat /\ printed'[h] = printed[h] /\ (Awaited(h)' <=> Awaited(h))
    BY <1>1, ScanConstants DEF ScanInv, ScanTypes, Awaited
  <2>2. CASE s = "scan"
    <3>1. /\ ~InChan("ips", h)' /\ ~Held("scan", h) /\ (Held("scan", h)' <=> InChan("ips", h))
          /\ (Runs("scan", h)' <=> Runs("scan", h)) /\ (InChan("recs", h)' <=> InChan("recs", h))
          /\ (Held("uname", h)' <=> Held("uname", h)) /\ (Runs("uname", h)' <=> Runs("uname", h))
          /\ (InChan("out", h)' <=> InChan("out", h))
      BY <1>1, <1>2, <1>3, <1>4, <2>2, ScanConstants DEF InChan, Held, Runs
    <3> QED
      BY <2>1, <3>1 DEF Places, Bit
  <2>3. CASE s = "uname"
    <3>1. /\ ~InChan("recs", h)' /\ ~Held("uname", h) /\ (Held("uname", h)' <=> InChan("recs", h))
          /\ (InChan("ips", h)' <=> InChan("ips", h)) /\ (Held("scan", h)' <=> Held("scan", h))
          /\ (Runs("scan", h)' <=> Runs("scan", h)) /\ (Runs("uname", h)' <=> Runs("uname", h))
          /\ (InChan("out", h)' <=> InChan("out", h))
      BY <1>1, <1>2, <1>3, <1>4, <2>3, ScanConstants DEF InChan, Held, Runs
    <3> QED
      BY <2>1, <3>1 DEF Places, Bit
  <2> QED
    BY <2>2, <2>3, ScanConstants
<1> QED
  BY <1>1, <1>5, <1>6, <1>7 DEF ScanInv, EachOnce

\* It passes on what needs no worker.
LEMMA ScanPasses == ASSUME ScanInv, NEW s \in Scan!Stage, Scan!Pass(s) PROVE ScanInv'
<1> DEFINE c == Scan!Out[s]
           x == stage[s].rec
           r == [at |-> "range"]
<1>1. /\ stage[s].at = "pass" /\ chan[c].buf = <<>> /\ chan' = Scan!Sent(chan, c, x) /\ c \in Channel
      /\ x \in Scan!Record /\ c # "ips" /\ s = "uname"
      /\ stage' = [stage EXCEPT ![s] = r] /\ UNCHANGED <<start, nextIP, worker, printed>>
  BY ScanConstants DEF Scan!Pass, Scan!Room, ScanInv, ScanTypes, StagesTyped
<1>2. r.at = "range"
  OBVIOUS
<1> HIDE DEF r
<1>3. /\ ChannelsTyped' /\ chan'[c].open = chan[c].open /\ chan'[c].buf # <<>> /\ chan'[c].buf[1] = x
      /\ \A d \in Channel : d # c => chan'[d] = chan[d]
  BY <1>1, ScanSends DEF ScanInv
<1>4. StagesTyped' /\ stage'[s] = r /\ \A d \in Scan!Stage : d # s => stage'[d] = stage[d]
  BY <1>1, <1>2, ScanMoves DEF ScanInv
<1>5. ScanTypes'
  BY <1>1, <1>3, <1>4 DEF ScanInv, ScanTypes
<1>6. ClosedInOrder'
  <2>1. /\ \A d \in Channel : chan'[d].open = chan[d].open
        /\ chan'["ips"] = chan["ips"] /\ chan'["recs"] = chan["recs"]
        /\ \A d \in Scan!Stage : stage'[d].at = "end" <=> stage[d].at = "end"
    BY <1>1, <1>2, <1>3, <1>4, ScanConstants
  <2> QED
    BY <1>1, <2>1, ScanConstants DEF ScanInv, ClosedInOrder, Runs
<1>7. ASSUME NEW h \in Scan!IP PROVE Places(h)' = Places(h)
  <2>1. h \in Nat /\ printed[h] \in Nat /\ printed'[h] = printed[h] /\ (Awaited(h)' <=> Awaited(h))
    BY <1>1, ScanConstants DEF ScanInv, ScanTypes, Awaited
  <2>2. CASE s = "scan"
    <3>1. /\ ~Held("scan", h)' /\ ~InChan("recs", h) /\ (InChan("recs", h)' <=> Held("scan", h))
          /\ (InChan("ips", h)' <=> InChan("ips", h)) /\ (Runs("scan", h)' <=> Runs("scan", h))
          /\ (Held("uname", h)' <=> Held("uname", h)) /\ (Runs("uname", h)' <=> Runs("uname", h))
          /\ (InChan("out", h)' <=> InChan("out", h))
      BY <1>1, <1>2, <1>3, <1>4, <2>2, ScanConstants DEF InChan, Held, Runs
    <3> QED
      BY <2>1, <3>1 DEF Places, Bit
  <2>3. CASE s = "uname"
    <3>1. /\ ~Held("uname", h)' /\ ~InChan("out", h) /\ (InChan("out", h)' <=> Held("uname", h))
          /\ (InChan("ips", h)' <=> InChan("ips", h)) /\ (Held("scan", h)' <=> Held("scan", h))
          /\ (Runs("scan", h)' <=> Runs("scan", h)) /\ (InChan("recs", h)' <=> InChan("recs", h))
          /\ (Runs("uname", h)' <=> Runs("uname", h))
      BY <1>1, <1>2, <1>3, <1>4, <2>3, ScanConstants DEF InChan, Held, Runs
    <3> QED
      BY <2>1, <3>1 DEF Places, Bit
  <2> QED
    BY <2>2, <2>3, ScanConstants
<1> QED
  BY <1>1, <1>5, <1>6, <1>7 DEF ScanInv, EachOnce

\* It starts a worker for the address it holds, which has none yet.
LEMMA ScanStarts == ASSUME ScanInv, NEW s \in Scan!Stage, Scan!Start(s) PROVE ScanInv'
<1> DEFINE g == stage[s].rec.host
           r == [at |-> "range"]
<1>1. /\ stage[s].at = "limit" /\ g \in Scan!IP /\ worker' = [worker EXCEPT ![s][g] = "run"]
      /\ stage' = [stage EXCEPT ![s] = r] /\ UNCHANGED <<start, nextIP, chan, printed>>
  BY ScanConstants DEF Scan!Start, ScanInv, ScanTypes, StagesTyped
<1>2. r.at = "range" /\ \A h \in Scan!IP : Held(s, h) <=> h = g
  BY <1>1 DEF Held
<1> HIDE DEF r, g
<1>3. /\ worker' \in [Scan!Stage -> [Scan!IP -> {"none", "run", "done", "left"}]] /\ worker'[s][g] = "run"
      /\ \A d \in Scan!Stage, h \in Scan!IP : d # s \/ h # g => worker'[d][h] = worker[d][h]
  BY <1>1, ScanWorks DEF ScanInv
<1>4. StagesTyped' /\ stage'[s] = r /\ \A d \in Scan!Stage : d # s => stage'[d] = stage[d]
  BY <1>1, <1>2, ScanMoves DEF ScanInv
<1>5. ScanTypes'
  BY <1>1, <1>3, <1>4 DEF ScanInv, ScanTypes, ChannelsTyped
<1>6. ClosedInOrder'
  BY <1>1, <1>2, <1>3, <1>4, ScanConstants DEF ScanInv, ClosedInOrder, Runs
<1>7. ASSUME NEW h \in Scan!IP PROVE ~(Held(s, h) /\ Runs(s, h))
  <2>1. /\ h \in Nat /\ printed[h] \in Nat /\ Places(h) = Bit(start < h /\ h < LastIP)
    BY ScanConstants DEF ScanInv, ScanTypes, EachOnce
  <2>2. CASE s = "scan"
    BY <2>1, <2>2 DEF Places, Bit
  <2>3. CASE s = "uname"
    BY <2>1, <2>3 DEF Places, Bit
  <2> QED
    BY <2>2, <2>3, ScanConstants
<1>8. ASSUME NEW h \in Scan!IP PROVE Places(h)' = Places(h)
  <2>1. h \in Nat /\ printed[h] \in Nat /\ printed'[h] = printed[h] /\ (Awaited(h)' <=> Awaited(h))
    BY <1>1, ScanConstants DEF ScanInv, ScanTypes, Awaited
  <2>2. CASE s = "scan"
    <3>1. /\ ~Held("scan", h)' /\ ~(Held("scan", h) /\ Runs("scan", h)) /\ (Runs("scan", h)' <=> Held("scan", h) \/ Runs("scan", h))
          /\ (InChan("ips", h)' <=> InChan("ips", h)) /\ (InChan("recs", h)' <=> InChan("recs", h))
          /\ (Held("uname", h)' <=> Held("uname", h)) /\ (Runs("uname", h)' <=> Runs("uname", h))
          /\ (InChan("out", h)' <=> InChan("out", h))
      BY <1>1, <1>2, <1>3, <1>4, <1>7, <2>2, ScanConstants DEF InChan, Held, Runs
    <3> QED
      BY <2>1, <3>1 DEF Places, Bit
  <2>3. CASE s = "uname"
    <3>1. /\ ~Held("uname", h)' /\ ~(Held("uname", h) /\ Runs("uname", h)) /\ (Runs("uname", h)' <=> Held("uname", h) \/ Runs("uname", h))
          /\ (InChan("ips", h)' <=> InChan("ips", h)) /\ (Held("scan", h)' <=> Held("scan", h))
          /\ (Runs("scan", h)' <=> Runs("scan", h)) /\ (InChan("recs", h)' <=> InChan("recs", h))
          /\ (InChan("out", h)' <=> InChan("out", h))
      BY <1>1, <1>2, <1>3, <1>4, <1>7, <2>3, ScanConstants DEF InChan, Held, Runs
    <3> QED
      BY <2>1, <3>1 DEF Places, Bit
  <2> QED
    BY <2>2, <2>3, ScanConstants
<1> QED
  BY <1>1, <1>5, <1>6, <1>8 DEF ScanInv, EachOnce

\* A worker sends its record, and leaves.
LEMMA ScanWorkerSends == ASSUME ScanInv, NEW s \in Scan!Stage, NEW g \in Scan!IP, Scan!Work(s, g) PROVE ScanInv'
<1> DEFINE c == Scan!Out[s]
<1>1. PICK x \in Scan!Outcome(s, g) : chan' = Scan!Sent(chan, c, x)
  BY DEF Scan!Work
<1>2. /\ worker[s][g] = "run" /\ chan[c].buf = <<>> /\ worker' = [worker EXCEPT ![s][g] = "done"]
      /\ c \in Channel /\ c # "ips" /\ x \in Scan!Record /\ x.host = g
      /\ UNCHANGED <<start, nextIP, stage, printed>>
  <2>1. /\ worker[s][g] = "run" /\ chan[c].buf = <<>> /\ worker' = [worker EXCEPT ![s][g] = "done"]
        /\ UNCHANGED <<start, nextIP, stage, printed>>
    BY DEF Scan!Work, Scan!Room
  <2>2. c \in Channel /\ c # "ips"
    BY ScanConstants
  <2>3. x \in Scan!Record /\ x.host = g
    <3>1. \A b, f \in BOOLEAN : [host |-> g, reachable |-> b, login |-> f] \in Scan!Record
      BY DEF Scan!Record
    <3>2. \A b \in BOOLEAN : /\ [host |-> g, reachable |-> b, login |-> FALSE] \in Scan!Record
                             /\ [host |-> g, reachable |-> TRUE, login |-> b] \in Scan!Record
      BY <3>1, Zenon
    <3>3. CASE s = "scan"
      <4>1. PICK b \in BOOLEAN : x = [host |-> g, reachable |-> b, login |-> FALSE]
        BY <1>1, <3>3 DEF Scan!Outcome
      <4>2. [host |-> g, reachable |-> b, login |-> FALSE] \in Scan!Record
        BY <3>2
      <4> QED
        BY <4>1, <4>2
    <3>4. CASE s = "uname"
      <4>1. PICK b \in BOOLEAN : x = [host |-> g, reachable |-> TRUE, login |-> b]
        BY <1>1, <3>4 DEF Scan!Outcome
      <4>2. [host |-> g, reachable |-> TRUE, login |-> b] \in Scan!Record
        BY <3>2
      <4> QED
        BY <4>1, <4>2
    <3> QED
      BY <3>3, <3>4, ScanConstants
  <2> QED
    BY <2>1, <2>2, <2>3
<1>3. /\ ChannelsTyped' /\ chan'[c].open = chan[c].open /\ chan'[c].buf # <<>> /\ chan'[c].buf[1] = x
      /\ \A d \in Channel : d # c => chan'[d] = chan[d]
  BY <1>1, <1>2, ScanSends DEF ScanInv
<1>4. /\ worker' \in [Scan!Stage -> [Scan!IP -> {"none", "run", "done", "left"}]] /\ worker'[s][g] = "done"
      /\ \A d \in Scan!Stage, h \in Scan!IP : d # s \/ h # g => worker'[d][h] = worker[d][h]
  <2>1. ScanTypes /\ worker' = [worker EXCEPT ![s][g] = "done"] /\ "done" \in {"run", "done", "left"}
    BY <1>2 DEF ScanInv
  <2> QED
    BY <2>1, ScanWorks
<1>5. ScanTypes'
  BY <1>2, <1>3, <1>4 DEF ScanInv, ScanTypes, StagesTyped
<1>6. ClosedInOrder'
  <2>1. /\ \A d \in Channel : chan'[d].open = chan[d].open /\ (d # c => chan'[d].buf = chan[d].buf)
        /\ \A d \in Scan!Stage, h \in Scan!IP : worker'[d][h] = "run" => worker[d][h] = "run"
    BY <1>3, <1>4
  <2>2. stage[s].at # "end"
    BY <1>2 DEF ScanInv, ClosedInOrder, Runs
  <2>3. s = "scan" => stage["uname"].at # "end"
    BY <2>2, ScanConstants DEF ScanInv, ClosedInOrder
  <2> QED
    BY <1>2, <2>1, <2>2, <2>3, ScanConstants DEF ScanInv, ClosedInOrder, Runs
<1>7. ASSUME NEW h \in Scan!IP PROVE Places(h)' = Places(h)
  <2>1. h \in Nat /\ printed[h] \in Nat /\ printed'[h] = printed[h] /\ (Awaited(h)' <=> Awaited(h))
    BY <1>2, ScanConstants DEF ScanInv, ScanTypes, Awaited
  <2>2. CASE s = "scan"
    <3>1. /\ (h = g <=> InChan("recs", h)') /\ ~InChan("recs", h) /\ (h = g => Runs("scan", h)) /\ (Runs("scan", h)' <=> Runs("scan", h) /\ h # g)
          /\ (InChan("ips", h)' <=> InChan("ips", h)) /\ (Held("scan", h)' <=> Held("scan", h))
          /\ (Held("uname", h)' <=> Held("uname", h)) /\ (Runs("uname", h)' <=> Runs("uname", h))
          /\ (InChan("out", h)' <=> InChan("out", h))
      BY <1>2, <1>3, <1>4, <2>2, ScanConstants DEF InChan, Held, Runs
    <3> QED
      BY <2>1, <3>1 DEF Places, Bit
  <2>3. CASE s = "uname"
    <3>1. /\ (h = g <=> InChan("out", h)') /\ ~InChan("out", h) /\ (h = g => Runs("uname", h)) /\ (Runs("uname", h)' <=> Runs("uname", h) /\ h # g)
          /\ (InChan("ips", h)' <=> InChan("ips", h)) /\ (Held("scan", h)' <=> Held("scan", h))
          /\ (Runs("scan", h)' <=> Runs("scan", h)) /\ (InChan("recs", h)' <=> InChan("recs", h))
          /\ (Held("uname", h)' <=> Held("uname", h))
      BY <1>2, <1>3, <1>4, <2>3, ScanConstants DEF InChan, Held, Runs
    <3> QED
      BY <2>1, <3>1 DEF Places, Bit
  <2> QED
    BY <2>2, <2>3, ScanConstants
<1> QED
  BY <1>2, <1>5, <1>6, <1>7 DEF ScanInv, EachOnce

LEMMA ScanWorkerLeaves == ASSUME ScanInv, NEW s \in Scan!Stage, NEW g \in Scan!IP, Scan!Leave(s, g) PROVE ScanInv'
<1>1. /\ worker[s][g] = "done" /\ worker' = [worker EXCEPT ![s][g] = "left"]
      /\ UNCHANGED <<start, nextIP, chan, stage, printed>>
  BY DEF Scan!Leave
<1>2. /\ worker' \in [Scan!Stage -> [Scan!IP -> {"none", "run", "done", "left"}]] /\ worker'[s][g] = "left"
      /\ \A d \in Scan!Stage, h \in Scan!IP : d # s \/ h # g => worker'[d][h] = worker[d][h]
  BY <1>1, ScanWorks DEF ScanInv
<1>3. \A d \in Scan!Stage, h \in Scan!IP : worker'[d][h] = "run" <=> worker[d][h] = "run"
  BY <1>1, <1>2
<1>4. ScanTypes'
  BY <1>1, <1>2 DEF ScanInv, ScanTypes, StagesTyped, ChannelsTyped
<1>5. ClosedInOrder'
  BY <1>1, <1>3, ScanConstants DEF ScanInv, ClosedInOrder, Runs
<1>6. ASSUME NEW h \in Scan!IP PROVE Places(h)' = Places(h)
  BY <1>1, <1>3, ScanConstants DEF Places, Bit, Awaited, InChan, Held, Runs
<1> QED
  BY <1>1, <1>4, <1>5, <1>6 DEF ScanInv, EachOnce

\* The loop is over, and closes the channel behind it.
LEMMA ScanStageEnds == ASSUME ScanInv, NEW s \in Scan!Stage, Scan!Close(s) PROVE ScanInv'
<1> DEFINE c == Scan!Out[s]
           r == [at |-> "end"]
<1>1. /\ stage[s].at = "range" /\ chan[Scan!In[s]].buf = <<>> /\ ~chan[Scan!In[s]].open
      /\ \A h \in Scan!IP : worker[s][h] # "run"
      /\ chan' = [chan EXCEPT ![c].open = FALSE] /\ c \in Channel /\ c # "ips"
      /\ stage' = [stage EXCEPT ![s] = r] /\ UNCHANGED <<start, nextIP, worker, printed>>
  BY ScanConstants DEF Scan!Close, Scan!Exhausted, Scan!Room
<1>2. r.at = "end"
  OBVIOUS
<1> HIDE DEF r
<1>3. /\ ChannelsTyped' /\ chan'[c].open = FALSE /\ chan'[c].buf = chan[c].buf
      /\ \A d \in Channel : d # c => chan'[d] = chan[d]
  BY <1>1, ScanCloses DEF ScanInv
<1>4. StagesTyped' /\ stage'[s] = r /\ \A d \in Scan!Stage : d # s => stage'[d] = stage[d]
  BY <1>1, <1>2, ScanMoves DEF ScanInv
<1>5. ScanTypes'
  BY <1>1, <1>3, <1>4 DEF ScanInv, ScanTypes
<1>6. ClosedInOrder'
  <2>1. \A d \in Channel : chan'[d].buf = chan[d].buf /\ (d # c => chan'[d].open = chan[d].open)
    BY <1>3
  <2> QED
    BY <1>1, <1>2, <1>3, <1>4, <2>1, ScanConstants DEF ScanInv, ClosedInOrder, Runs
<1>7. ASSUME NEW h \in Scan!IP PROVE Places(h)' = Places(h)
  <2>1. \A d \in Channel : chan'[d].buf = chan[d].buf
    BY <1>3
  <2>2. \A d \in Scan!Stage : (d = s => stage[d].at = "range" /\ stage'[d].at = "end") /\ (d # s => stage'[d] = stage[d])
    BY <1>1, <1>2, <1>4
  <2> QED
    BY <1>1, <2>1, <2>2, ScanConstants DEF Places, Bit, Awaited, InChan, Held, Runs
<1> QED
  BY <1>1, <1>5, <1>6, <1>7 DEF ScanInv, EachOnce

LEMMA ScanInvStep == ScanInv /\ program = "scan" /\ [Next]_vars => ScanInv'
<1> SUFFICES ASSUME ScanInv, [Scan!Next]_scanVars PROVE ScanInv'
  BY ScanAlone
<1>1. CASE UNCHANGED scanVars
  BY <1>1 DEF scanVars, ScanInv, ScanTypes, ChannelsTyped, StagesTyped, ClosedInOrder, EachOnce, Places, Bit, Awaited,
     InChan, Held, Runs
<1>2. CASE Scan!Emit \/ Scan!EmitEnd \/ Scan!Report
  BY <1>2, ScanEmits, ScanEmitEnds, ScanReports
<1>3. ASSUME NEW s \in Scan!Stage, Scan!Take(s) \/ Scan!Pass(s) \/ Scan!Start(s) \/ Scan!Close(s) PROVE ScanInv'
  BY <1>3, ScanTakes, ScanPasses, ScanStarts, ScanStageEnds
<1>4. ASSUME NEW s \in Scan!Stage, NEW h \in Scan!IP, Scan!Work(s, h) \/ Scan!Leave(s, h) PROVE ScanInv'
  BY <1>4, ScanWorkerSends, ScanWorkerLeaves
<1> QED
  BY <1>1, <1>2, <1>3, <1>4 DEF Scan!Next

LEMMA ScanInvGives == ScanInv => Scan!HostsReportedOnce
<1> SUFFICES ASSUME ScanInv PROVE Scan!HostsReportedOnce
  OBVIOUS
<1>1. \A s \in Scan!Stage, h \in Scan!IP : worker[s][h] = "run" => chan[Scan!Out[s]].open
  BY DEF ScanInv, ClosedInOrder, Runs
<1>2. ASSUME Scan!Ended PROVE \A h \in Scan!IP : printed[h] = IF start < h /\ h < LastIP THEN 1 ELSE 0
  <2>1. /\ chan["out"].buf = <<>> /\ ~chan["out"].open
        /\ stage["uname"].at = "end" /\ ~chan["recs"].open /\ chan["recs"].buf = <<>>
        /\ stage["scan"].at = "end" /\ ~chan["ips"].open /\ chan["ips"].buf = <<>> /\ nextIP = LastIP
        /\ \A s \in Scan!Stage, h \in Scan!IP : ~Runs(s, h)
    BY <1>2, ScanConstants DEF Scan!Ended, Scan!Room, ScanInv, ClosedInOrder
  <2>2. ASSUME NEW h \in Scan!IP PROVE printed[h] = IF start < h /\ h < LastIP THEN 1 ELSE 0
    <3>1. h \in Nat /\ printed[h] \in Nat /\ Places(h) = Bit(start < h /\ h < LastIP)
      BY ScanConstants DEF ScanInv, ScanTypes, EachOnce
    <3>2. /\ ~Awaited(h) /\ ~InChan("ips", h) /\ ~Held("scan", h) /\ ~Runs("scan", h)
          /\ ~InChan("recs", h) /\ ~Held("uname", h) /\ ~Runs("uname", h) /\ ~InChan("out", h)
      BY <2>1, <3>1, ScanConstants DEF Awaited, InChan, Held
    <3> QED
      BY <3>1, <3>2 DEF Places, Bit
  <2> QED
    BY <2>2
<1>3. /\ start \in Nat /\ LastIP \in Scan!IP
      /\ \A h \in start + 1 .. LastIP - 1 : h \in Scan!IP /\ start < h /\ h < LastIP
  BY ScanConstants, CountAssumption DEF ScanInv, ScanTypes
<1> QED
  BY <1>1, <1>2, <1>3, ScanConstants DEF Scan!HostsReportedOnce

LEMMA ScanTyped == ScanInv => Scan!TypeOK
<1> SUFFICES ASSUME ScanInv PROVE Scan!TypeOK
  OBVIOUS
<1>1. DOMAIN chan = Channel /\ \A c \in Channel : chan[c].open \in BOOLEAN /\ Len(chan[c].buf) <= 1
  BY DEF ScanInv, ScanTypes, ChannelsTyped
<1>2. start \in 0 .. LastIP - 1 /\ nextIP \in Scan!IP
  BY ScanConstants DEF ScanInv, ScanTypes
<1>3. \A s \in Scan!Stage :
        /\ stage[s].at \in {"range", "limit", "pass", "end"}
        /\ stage[s].at \in {"limit", "pass"} => stage[s].rec \in Scan!Record
  BY DEF ScanInv, ScanTypes, StagesTyped
<1> QED
  BY <1>1, <1>2, <1>3 DEF ScanInv, ScanTypes, Scan!TypeOK

-----------------------------------------------------------------------------
(* The circuit breaker.                                                    *)

\* The counts were cleared at most once since the row of failures began, with at
\* most one failure uncounted: until they may be cleared again, the breaker sees
\* a success or trips.
RetryInv ==
    /\ Retry!TypeOK
    /\ breaker = "closed" => \/ failures <= 5 /\ inRow = failures
                             \/ failures <= 5 /\ age = failures /\ inRow <= failures + 6
    /\ breaker = "closed" /\ fetch \in {"wait", "sent"} => age < FastRounds
    /\ breaker # "closed" => wrapper = "breaker"
    /\ breaker = "open" => inRow = 0 /\ age = 0 /\ fetch \notin {"wait", "sent"}
    /\ breaker = "halfOpen" => failures = 0 /\ inRow = 0 /\ age = 0

LEMMA RetryAlone == program = "retry" /\ [Next]_vars => [Retry!Next]_retryVars
  BY DEF Next, AtRest, Only, Off, vars

LEMMA RetryConstants ==
    /\ SlowRounds \in Nat /\ SlowRounds > 5 /\ FastRounds \in Nat
    /\ Retry!Threshold = 5 /\ Retry!MaxInterval = 10
  BY CountAssumption, RoundsAssumption DEF Retry!Threshold, Retry!MaxInterval

LEMMA RetryInvInit == Init /\ program = "retry" => RetryInv
  BY RetryConstants DEF Init, IdleTools, Retry!Init, RetryInv, Retry!TypeOK

LEMMA RetryKeeps == ASSUME RetryInv, [Retry!Next]_retryVars PROVE RetryInv'
<1>1. /\ failures \in 0 .. 6 /\ age \in 0 .. FastRounds /\ inRow \in Nat
      /\ breaker \in {"closed", "open", "halfOpen"}
  BY RetryConstants DEF RetryInv, Retry!TypeOK
<1>2. CASE UNCHANGED retryVars
  BY <1>2 DEF retryVars, RetryInv, Retry!TypeOK
<1>3. CASE Retry!Ask
  BY <1>1, <1>3, RetryConstants DEF Retry!Ask, Retry!MustClear, RetryInv, Retry!TypeOK
<1>4. CASE Retry!Attempt
  <2>1. Retry!NextDelay \in {0, 2, 4, 8, 10}
    BY RetryConstants DEF Retry!NextDelay, RetryInv, Retry!TypeOK
  <2> QED
    BY <1>1, <1>4, <2>1 DEF Retry!Attempt, RetryInv, Retry!TypeOK
<1>5. CASE Retry!Waited
  BY <1>1, <1>5 DEF Retry!Waited, RetryInv, Retry!TypeOK
<1>6. CASE Retry!Clear
  BY <1>1, <1>6, RetryConstants DEF Retry!Clear, Retry!MayClear, RetryInv, Retry!TypeOK
<1>7. CASE Retry!Execute
  <2>1. CASE backend = "fails"
    BY <1>1, <1>7, <2>1, RetryConstants DEF Retry!Execute, Retry!ReadyToTrip, RetryInv, Retry!TypeOK
  <2>2. CASE backend # "fails"
    BY <1>1, <1>7, <2>2, RetryConstants DEF Retry!Execute, Retry!ReadyToTrip, RetryInv, Retry!TypeOK
  <2> QED
    BY <2>1, <2>2
<1>8. CASE Retry!Outdated
  BY <1>1, <1>8, RetryConstants DEF Retry!Outdated, Retry!MayClear, RetryInv, Retry!TypeOK
<1>9. CASE Retry!HalfOpen \/ Retry!GoOn \/ Retry!BackendChanges
  BY <1>1, <1>9, RetryConstants DEF Retry!HalfOpen, Retry!GoOn, Retry!BackendChanges, RetryInv, Retry!TypeOK
<1> QED
  BY <1>2, <1>3, <1>4, <1>5, <1>6, <1>7, <1>8, <1>9 DEF Retry!Next, Retry!Steps

LEMMA RetryInvStep == RetryInv /\ program = "retry" /\ [Next]_vars => RetryInv'
  BY RetryAlone, RetryKeeps

LEMMA RetryInvGives == RetryInv => Retry!FailuresAreBounded
  BY RetryConstants DEF RetryInv, Retry!TypeOK, Retry!FailuresAreBounded

-----------------------------------------------------------------------------
(* The quote of the day server.                                            *)

Slotted == Quotes!TypeOK /\ slots = Cardinality(Quotes!InService)
Undialled == \A c \in Conn : client[c] = "dial" => conn[c] = "none"

QuotesInv == Slotted /\ Undialled

LEMMA QuotesAlone == program = "quotes" /\ [Next]_vars => [Quotes!Next]_qotdVars
  BY DEF Next, AtRest, Only, Off, vars

Said == Quotes!Author \cup {"nothing", "stdin"}

LEMMA QuotesSaid ==
    ASSUME NEW a \in Quotes!Given
    PROVE  Quotes!UsingOs(a) \in Said /\ Quotes!UsingFlags(a) \in Said /\ Quotes!Both(a) \in Said /\ Quotes!Get(a) \in Said
<1>1. CASE a \in {"none", "absent"}
  BY <1>1 DEF Quotes!UsingOs, Quotes!UsingFlags, Quotes!Both, Quotes!Get, Said
<1>2. CASE a = "stdin"
  BY <1>2 DEF Quotes!UsingOs, Quotes!UsingFlags, Quotes!Both, Quotes!Get, Said, Quotes!Author
<1>3. CASE a \in Quotes!Author
  <2>1. a \notin {"none", "absent", "stdin"} /\ a \in Said
    BY <1>3 DEF Quotes!Author, Said
  <2> QED
    BY <2>1 DEF Quotes!UsingOs, Quotes!UsingFlags, Quotes!Both, Quotes!Get, Said
<1> QED
  BY <1>1, <1>2, <1>3 DEF Quotes!Given

LEMMA QuotesInvInit == Init /\ program = "quotes" => QuotesInv
<1> SUFFICES ASSUME Quotes!Init PROVE QuotesInv
  BY DEF Init, IdleTools
<1>1. asks \in [Conn -> Said]
  <2>1. PICK a \in [Conn -> Quotes!Given], how \in [Conn -> 1 .. 4] :
           asks = [c \in Conn |-> CASE how[c] = 1 -> Quotes!UsingOs(a[c]) [] how[c] = 2 -> Quotes!UsingFlags(a[c])
                                    [] how[c] = 3 -> Quotes!Both(a[c]) [] OTHER -> Quotes!Get(a[c])]
    BY DEF Quotes!Init
  <2> DEFINE said(c) == CASE how[c] = 1 -> Quotes!UsingOs(a[c]) [] how[c] = 2 -> Quotes!UsingFlags(a[c])
                          [] how[c] = 3 -> Quotes!Both(a[c]) [] OTHER -> Quotes!Get(a[c])
  <2>2. ASSUME NEW c \in Conn PROVE said(c) \in Said
    <3>1. a[c] \in Quotes!Given /\ how[c] \in 1 .. 4
      BY <2>1
    <3>2. CASE how[c] = 1
      BY <3>1, <3>2, QuotesSaid
    <3>3. CASE how[c] = 2
      BY <3>1, <3>3, QuotesSaid
    <3>4. CASE how[c] = 3
      BY <3>1, <3>4, QuotesSaid
    <3>5. CASE how[c] = 4
      BY <3>1, <3>5, QuotesSaid
    <3> QED
      BY <3>1, <3>2, <3>3, <3>4, <3>5
  <2>3. asks = [c \in Conn |-> said(c)]
    BY <2>1
  <2> HIDE DEF said
  <2> QED
    BY <2>2, <2>3
<1>2. \A c \in Conn : conn[c] = "none"
  BY DEF Quotes!Init
<1>3. Quotes!InService = {}
  BY <1>2 DEF Quotes!InService
<1>4. slots = 0 /\ slots = Cardinality(Quotes!InService)
  BY <1>3, FS_EmptySet DEF Quotes!Init
<1>5. Undialled /\ Quotes!TypeOK
  BY <1>1, <1>4, CountAssumption DEF Quotes!Init, Quotes!TypeOK, Said, Quotes!Message, Undialled
<1> QED
  BY <1>4, <1>5 DEF QuotesInv, Slotted

LEMMA QuotesServed ==
    /\ IsFiniteSet(Quotes!InService) /\ Cardinality(Quotes!InService) \in Nat
    /\ \A c \in Conn : c \notin Quotes!InService =>
          /\ IsFiniteSet(Quotes!InService \cup {c})
          /\ Cardinality(Quotes!InService \cup {c}) = Cardinality(Quotes!InService) + 1
    /\ \A c \in Quotes!InService : Cardinality(Quotes!InService \ {c}) = Cardinality(Quotes!InService) - 1
<1>1. IsFiniteSet(Quotes!InService)
  BY FiniteAssumption, FS_Subset DEF Quotes!InService
<1> QED
  BY <1>1, FS_CardinalityType, FS_AddElement, FS_RemoveElement

LEMMA QuotesSlots ==
    ASSUME QuotesInv, NEW c \in Conn, Quotes!Step(c) \/ Quotes!UserStep(c)
    PROVE  Slotted'
<1>1. /\ MaxConn \in Nat /\ slots \in 0 .. MaxConn
      /\ conn \in [Conn -> {"none", "accepted", "reading", "served", "closing", "close", "closed"}]
  BY CountAssumption DEF QuotesInv, Slotted, Quotes!TypeOK
<1>2. ASSUME UNCHANGED <<conn, slots>>, Quotes!TypeOK' PROVE Slotted'
  BY <1>2 DEF QuotesInv, Slotted, Quotes!InService
<1>3. ASSUME NEW v, conn' = [conn EXCEPT ![c] = v], UNCHANGED slots, Quotes!TypeOK',
             conn[c] \in {"reading", "served"} <=> v \in {"reading", "served"}
      PROVE  Slotted'
  <2>1. Quotes!InService' = Quotes!InService
    BY <1>1, <1>3 DEF Quotes!InService
  <2> QED
    BY <1>3, <2>1 DEF QuotesInv, Slotted
<1>4. CASE Quotes!Dial(c)
  <2>1. Quotes!TypeOK'
    BY <1>4 DEF Quotes!Dial, QuotesInv, Slotted, Quotes!TypeOK
  <2>2. conn[c] = "none" /\ conn' = [conn EXCEPT ![c] = "accepted"] /\ UNCHANGED slots
    BY <1>4 DEF Quotes!Dial, QuotesInv, Undialled
  <2> QED
    BY <1>3, <2>1, <2>2
<1>5. CASE Quotes!Send(c)
  <2>1. asks[c] \in Quotes!Message
    BY <1>5 DEF Quotes!Send, QuotesInv, Slotted, Quotes!TypeOK, Quotes!Message
  <2>2. line' \in [Conn -> Quotes!Message]
    BY <1>5, <2>1 DEF Quotes!Send, QuotesInv, Slotted, Quotes!TypeOK
  <2>3. Quotes!TypeOK'
    BY <1>5, <2>2 DEF Quotes!Send, QuotesInv, Slotted, Quotes!TypeOK
  <2> QED
    BY <1>2, <1>5, <2>3 DEF Quotes!Send
<1>11. CASE Quotes!UserStep(c)
  <2>1. line' \in [Conn -> Quotes!Message] /\ UNCHANGED <<asks, conn, slots, reply, serverUp>>
    BY <1>11 DEF Quotes!UserStep, Quotes!TypeInput, Quotes!EndInput, QuotesInv, Slotted, Quotes!TypeOK
  <2>2. client' \in [Conn -> {"dial", "send", "read", "ended", "fatal"}]
    BY <1>11 DEF Quotes!UserStep, Quotes!TypeInput, Quotes!EndInput, QuotesInv, Slotted, Quotes!TypeOK
  <2> QED
    BY <1>2, <2>1, <2>2 DEF QuotesInv, Slotted, Quotes!TypeOK
<1>6. CASE Quotes!ReadReply(c)
  BY <1>2, <1>6 DEF Quotes!ReadReply, QuotesInv, Slotted, Quotes!TypeOK
<1>7. CASE Quotes!TakeSlot(c)
  <2>1. conn[c] = "accepted" /\ UNCHANGED <<asks, client, line, reply, serverUp>>
    BY <1>7 DEF Quotes!TakeSlot
  <2>2. CASE slots < MaxConn
    <3>1. slots' = slots + 1 /\ conn' = [conn EXCEPT ![c] = "reading"]
      BY <1>7, <2>2 DEF Quotes!TakeSlot
    <3>2. Quotes!TypeOK'
      BY <1>1, <2>1, <2>2, <3>1 DEF QuotesInv, Slotted, Quotes!TypeOK
    <3>3. c \notin Quotes!InService /\ Quotes!InService' = Quotes!InService \cup {c}
      BY <1>1, <2>1, <3>1 DEF Quotes!InService
    <3>4. Cardinality(Quotes!InService') = slots + 1
      BY <3>3, QuotesServed DEF QuotesInv, Slotted
    <3> QED
      BY <3>1, <3>2, <3>4 DEF QuotesInv, Slotted
  <2>3. CASE ~(slots < MaxConn)
    <3>1. UNCHANGED slots /\ conn' = [conn EXCEPT ![c] = "closing"]
      BY <1>7, <2>3 DEF Quotes!TakeSlot
    <3>2. Quotes!TypeOK'
      BY <1>1, <2>1, <3>1 DEF QuotesInv, Slotted, Quotes!TypeOK
    <3> QED
      BY <1>3, <2>1, <3>1, <3>2
  <2> QED
    BY <2>2, <2>3
<1>8. CASE Quotes!Read(c)
  <2>1. conn[c] = "reading" /\ UNCHANGED <<asks, client, slots, line>>
    BY <1>8 DEF Quotes!Read
  <2>2. \/ serverUp' = FALSE /\ UNCHANGED <<conn, reply>>
        \/ /\ \E r \in {"quote", "notFound", "random"} : reply' = [reply EXCEPT ![c] = r]
           /\ conn' = [conn EXCEPT ![c] = "served"] /\ UNCHANGED serverUp
    <3>1. PICK text \in {line[c], "nothing"} :
            IF text = "blank" THEN serverUp' = FALSE /\ UNCHANGED <<conn, reply>>
            ELSE /\ reply' = [reply EXCEPT ![c] = CASE text = "known" -> "quote"
                                                    [] text \in {"unknown", "letter"} -> "notFound"
                                                    [] OTHER -> "random"]
                 /\ conn' = [conn EXCEPT ![c] = "served"] /\ UNCHANGED serverUp
      BY <1>8 DEF Quotes!Read
    <3>2. CASE text = "known"
      BY <3>1, <3>2
    <3>3. CASE text \in {"unknown", "letter"}
      BY <3>1, <3>3
    <3>4. CASE text \notin {"known", "unknown", "letter", "blank"}
      BY <3>1, <3>4
    <3>5. CASE text = "blank"
      BY <3>1, <3>5
    <3> QED
      BY <3>2, <3>3, <3>4, <3>5
  <2>3. CASE UNCHANGED <<conn, reply>> /\ serverUp' = FALSE
    <3>1. Quotes!TypeOK'
      BY <2>1, <2>3 DEF QuotesInv, Slotted, Quotes!TypeOK
    <3> QED
      BY <1>2, <2>1, <2>3, <3>1
  <2>4. ASSUME NEW r \in {"quote", "notFound", "random"}, reply' = [reply EXCEPT ![c] = r],
               conn' = [conn EXCEPT ![c] = "served"], UNCHANGED serverUp
        PROVE  Slotted'
    <3>1. Quotes!TypeOK'
      BY <2>1, <2>4 DEF QuotesInv, Slotted, Quotes!TypeOK
    <3> QED
      BY <1>3, <2>1, <2>4, <3>1
  <2> QED
    BY <2>2, <2>3, <2>4
<1>9. CASE Quotes!Release(c)
  <2>1. /\ conn[c] = "served" /\ slots' = slots - 1 /\ conn' = [conn EXCEPT ![c] = "close"]
        /\ UNCHANGED <<asks, client, line, reply, serverUp>>
    BY <1>9 DEF Quotes!Release
  <2>2. c \in Quotes!InService /\ Quotes!InService' = Quotes!InService \ {c}
    BY <1>1, <2>1 DEF Quotes!InService
  <2>3. Cardinality(Quotes!InService') = slots - 1 /\ slots - 1 \in Nat
    <3>1. Cardinality(Quotes!InService \ {c}) = slots - 1
      BY <2>2, QuotesServed DEF QuotesInv, Slotted
    <3>2. IsFiniteSet(Quotes!InService \ {c})
      BY QuotesServed, FS_Subset
    <3>3. Cardinality(Quotes!InService \ {c}) \in Nat
      BY <3>2, FS_CardinalityType
    <3> QED
      BY <2>2, <3>1, <3>3
  <2>4. Quotes!TypeOK'
    BY <1>1, <2>1, <2>3 DEF QuotesInv, Slotted, Quotes!TypeOK
  <2> QED
    BY <2>1, <2>3, <2>4 DEF QuotesInv, Slotted
<1>10. CASE Quotes!Close(c)
  <2>1. conn[c] \in {"close", "closing"} /\ conn' = [conn EXCEPT ![c] = "closed"] /\ UNCHANGED slots
    BY <1>10 DEF Quotes!Close
  <2>2. Quotes!TypeOK'
    BY <1>10 DEF Quotes!Close, QuotesInv, Slotted, Quotes!TypeOK
  <2> QED
    BY <1>3, <2>1, <2>2
<1> QED
  BY <1>4, <1>5, <1>6, <1>7, <1>8, <1>9, <1>10, <1>11 DEF Quotes!Step

LEMMA QuotesKeeps ==
    ASSUME QuotesInv, NEW c \in Conn, Quotes!Step(c) \/ Quotes!UserStep(c)
    PROVE  QuotesInv'
<1>1. /\ conn \in [Conn -> {"none", "accepted", "reading", "served", "closing", "close", "closed"}]
      /\ client \in [Conn -> {"dial", "send", "read", "ended", "fatal"}]
  BY DEF QuotesInv, Slotted, Quotes!TypeOK
<1>2. CASE Quotes!Dial(c) \/ Quotes!Send(c) \/ Quotes!ReadReply(c)
  <2>1. client'[c] # "dial" /\ \A d \in Conn : d # c => client'[d] = client[d] /\ conn'[d] = conn[d]
    BY <1>1, <1>2 DEF Quotes!Dial, Quotes!Send, Quotes!ReadReply
  <2> QED
    BY <2>1, QuotesSlots DEF QuotesInv, Undialled
<1>3. CASE Quotes!TakeSlot(c) \/ Quotes!Read(c) \/ Quotes!Release(c) \/ Quotes!Close(c)
  <2>1. conn[c] # "none" /\ UNCHANGED client /\ \A d \in Conn : d # c => conn'[d] = conn[d]
    BY <1>1, <1>3 DEF Quotes!TakeSlot, Quotes!Read, Quotes!Release, Quotes!Close
  <2> QED
    BY <2>1, QuotesSlots DEF QuotesInv, Undialled
<1>4. CASE Quotes!UserStep(c)
  <2>1. client'[c] # "dial" /\ UNCHANGED conn /\ \A d \in Conn : d # c => client'[d] = client[d]
    BY <1>1, <1>4 DEF Quotes!UserStep, Quotes!TypeInput, Quotes!EndInput
  <2> QED
    BY <2>1, QuotesSlots DEF QuotesInv, Undialled
<1> QED
  BY <1>2, <1>3, <1>4 DEF Quotes!Step

LEMMA QuotesInvStep == QuotesInv /\ program = "quotes" /\ [Next]_vars => QuotesInv'
<1>1. UNCHANGED qotdVars /\ QuotesInv => QuotesInv'
  BY DEF qotdVars, QuotesInv, Slotted, Quotes!TypeOK, Quotes!InService, Undialled
<1> QED
  BY <1>1, QuotesAlone, QuotesKeeps DEF Quotes!Next

LEMMA QuotesInvGives == QuotesInv => Quotes!SlotsAreServed
<1>1. Quotes!Cardinality(Quotes!InService) = Cardinality(Quotes!InService)
  BY DEF Quotes!Cardinality, Cardinality
<1> QED
  BY <1>1, CountAssumption DEF QuotesInv, Slotted, Quotes!TypeOK, Quotes!SlotsAreServed

-----------------------------------------------------------------------------
(* The calls to the pet store.                                             *)

\* The calls of a method that came in, that are at work and that failed.
Came    == [m \in Rpc!Measured |-> {c \in Call : rpc[c].method = m
                                       /\ rpc[c].at \in {"work", "metrics", "end", "answered"}}]
Working == [m \in Rpc!Measured |-> {c \in Call : rpc[c].method = m /\ rpc[c].at \in {"work", "metrics"}}]
Failing == [m \in Rpc!Measured |-> {c \in Call : rpc[c].method = m /\ rpc[c].at \in {"end", "answered"} /\ rpc[c].err}]

Accounted ==
    \A m \in Rpc!Measured :
        /\ requests[m] = Cardinality(Came[m])
        /\ current[m] = Cardinality(Working[m])
        /\ errors[m] = Cardinality(Failing[m])

\* Only the measured methods go through the counters, and the span of one that
\* was answered is closed.
Spanned ==
    \A c \in Call :
        /\ rpc[c].at \in {"sent", "work", "metrics", "end"} => rpc[c].method \in Rpc!Measured
        /\ rpc[c].at = "switch" => rpc[c].method \notin Rpc!Measured
        /\ rpc[c].at = "answered" /\ rpc[c].method \in Rpc!Measured => span[c] = IF rpc[c].err THEN "error" ELSE "ok"

RpcInv == Rpc!TypeOK /\ Accounted /\ Spanned

LEMMA RpcAlone == program = "rpc" /\ [Next]_vars => [Rpc!Next]_rpcVars
  BY DEF Next, AtRest, Only, Off, vars

LEMMA RpcInvInit == Init /\ program = "rpc" => RpcInv
<1> SUFFICES ASSUME Rpc!Init PROVE RpcInv
  BY DEF Init, IdleServers
<1>1. \A c \in Call : rpc[c].at = "client" /\ rpc[c].err = FALSE
  BY DEF Rpc!Init
<1>2. Rpc!TypeOK
  BY DEF Rpc!Init, Rpc!TypeOK, Rpc!Sampling, Rpc!Sampler
<1>3. \A m \in Rpc!Measured : Came[m] = {} /\ Working[m] = {} /\ Failing[m] = {}
  BY <1>1 DEF Came, Working, Failing
<1>4. \A m \in Rpc!Measured : requests[m] = 0 /\ current[m] = 0 /\ errors[m] = 0
  BY DEF Rpc!Init
<1>5. Accounted
  BY <1>3, <1>4, FS_EmptySet DEF Accounted
<1> QED
  BY <1>1, <1>2, <1>5 DEF RpcInv, Spanned

\* One call joins a set of calls, leaves it or does neither.
LEMMA OneMoves ==
    ASSUME NEW S \in SUBSET Call, NEW T \in SUBSET Call, NEW c \in Call,
           \A d \in Call : d # c => (d \in T <=> d \in S)
    PROVE  /\ Cardinality(S) \in Nat /\ Cardinality(T) \in Nat
           /\ (c \in S <=> c \in T) => Cardinality(T) = Cardinality(S)
           /\ c \in S /\ c \notin T => Cardinality(T) = Cardinality(S) - 1
           /\ c \notin S /\ c \in T => Cardinality(T) = Cardinality(S) + 1
<1>1. IsFiniteSet(S) /\ IsFiniteSet(T)
  BY FiniteAssumption, FS_Subset
<1>2. Cardinality(S) \in Nat /\ Cardinality(T) \in Nat
  BY <1>1, FS_CardinalityType
<1>3. (c \in S <=> c \in T) => T = S
  OBVIOUS
<1>4. ASSUME c \in S, c \notin T PROVE Cardinality(T) = Cardinality(S) - 1
  <2>1. T = S \ {c}
    BY <1>4
  <2> QED
    BY <1>1, <1>4, <2>1, FS_RemoveElement
<1>5. ASSUME c \notin S, c \in T PROVE Cardinality(T) = Cardinality(S) + 1
  <2>1. T = S \cup {c}
    BY <1>5
  <2> QED
    BY <1>1, <1>5, <2>1, FS_AddElement
<1> QED
  BY <1>2, <1>3, <1>4, <1>5

\* What a step of one call does to the three sets.
LEMMA CallMoves ==
    ASSUME NEW c \in Call, NEW m \in Rpc!Measured,
           rpc'[c].method = rpc[c].method, \A d \in Call : d # c => rpc'[d] = rpc[d]
    PROVE  /\ Came[m] \in SUBSET Call /\ Came'[m] \in SUBSET Call
           /\ Working[m] \in SUBSET Call /\ Working'[m] \in SUBSET Call
           /\ Failing[m] \in SUBSET Call /\ Failing'[m] \in SUBSET Call
           /\ \A d \in Call : d # c => /\ d \in Came'[m] <=> d \in Came[m]
                                       /\ d \in Working'[m] <=> d \in Working[m]
                                       /\ d \in Failing'[m] <=> d \in Failing[m]
  BY DEF Came, Working, Failing

LEMMA RpcKeeps == ASSUME RpcInv, [Rpc!Next]_rpcVars PROVE RpcInv'
<1>1. CASE UNCHANGED rpcVars
  <2>1. UNCHANGED <<Came, Working, Failing>>
    BY <1>1 DEF rpcVars, Came, Working, Failing
  <2>2. Rpc!TypeOK'
    BY <1>1 DEF rpcVars, RpcInv, Rpc!TypeOK
  <2>3. Accounted'
    BY <1>1, <2>1 DEF rpcVars, RpcInv, Accounted
  <2>4. Spanned'
    BY <1>1 DEF rpcVars, RpcInv, Spanned
  <2> QED
    BY <2>2, <2>3, <2>4 DEF RpcInv
<1>2. ASSUME NEW c \in Call, Rpc!ClientReturns(c) \/ Rpc!ClientPanics(c) \/ Rpc!Send(c) PROVE RpcInv'
  <2>1. /\ rpc[c].at = "client" /\ UNCHANGED <<requests, current, errors, span, child>>
        /\ rpc'[c].at \in {"skipped", "refused", "panicked", "sent", "switch"}
        /\ rpc'[c].at = "sent" => rpc[c].method \in Rpc!Measured
        /\ rpc'[c].at = "switch" => rpc[c].method \notin Rpc!Measured
        /\ rpc'[c].method = rpc[c].method /\ \A d \in Call : d # c => rpc'[d] = rpc[d]
    BY <1>2 DEF Rpc!ClientReturns, Rpc!ClientPanics, Rpc!Send, Rpc!Goto, RpcInv, Rpc!TypeOK, Rpc!Measured, Rpc!Method
  <2>2. Rpc!TypeOK'
    BY <1>2 DEF Rpc!ClientReturns, Rpc!ClientPanics, Rpc!Send, Rpc!Goto, RpcInv, Rpc!TypeOK, Rpc!Sampling, Rpc!Sampler, Rpc!Arrived
  <2>3. Accounted'
    <3> SUFFICES ASSUME NEW m \in Rpc!Measured
                 PROVE  /\ Cardinality(Came'[m]) = Cardinality(Came[m])
                        /\ Cardinality(Working'[m]) = Cardinality(Working[m])
                        /\ Cardinality(Failing'[m]) = Cardinality(Failing[m])
      BY <2>1 DEF RpcInv, Accounted
    <3>1. c \notin Came[m] \cup Came'[m] \cup Working[m] \cup Working'[m] \cup Failing[m] \cup Failing'[m]
      BY <2>1 DEF Came, Working, Failing
    <3> QED
      BY <2>1, <3>1, CallMoves, OneMoves
  <2> QED
    BY <2>1, <2>2, <2>3 DEF RpcInv, Spanned
<1>3. ASSUME NEW c \in Call, Rpc!Enter(c) PROVE RpcInv'
  <2> DEFINE M == rpc[c].method
  <2>1. /\ rpc[c].at = "sent" /\ rpc'[c].at = "work" /\ M \in Rpc!Measured
        /\ rpc'[c].method = M /\ \A d \in Call : d # c => rpc'[d] = rpc[d] /\ span'[d] = span[d]
        /\ requests' = [requests EXCEPT ![M] = @ + 1] /\ current' = [current EXCEPT ![M] = @ + 1] /\ UNCHANGED errors
    BY <1>3 DEF Rpc!Enter, RpcInv, Rpc!TypeOK, Spanned
  <2>2. rpc' \in [Call -> [method : Rpc!Method, trace : BOOLEAN, to : Rpc!Sampling,
                         at : {"client", "skipped", "refused", "panicked", "gone"} \cup Rpc!Arrived,
                         err : BOOLEAN, sampled : BOOLEAN]]
    <3>1. PICK s \in Rpc!Decisions(c) : rpc' = [rpc EXCEPT ![c].at = "work", ![c].sampled = s]
      BY <1>3 DEF Rpc!Enter
    <3>2. s \in BOOLEAN
      <4>1. CASE rpc[c].trace
        BY <3>1, <4>1 DEF Rpc!Decisions
      <4>2. CASE ~rpc[c].trace /\ child = "never"
        BY <3>1, <4>2 DEF Rpc!Decisions
      <4>3. CASE ~rpc[c].trace /\ child = "always"
        BY <3>1, <4>3 DEF Rpc!Decisions
      <4>4. CASE ~rpc[c].trace /\ child = "ratio"
        BY <3>1, <4>4 DEF Rpc!Decisions
      <4> QED
        BY <4>1, <4>2, <4>3, <4>4 DEF RpcInv, Rpc!TypeOK, Rpc!Sampler
    <3>3. rpc[c] \in [method : Rpc!Method, trace : BOOLEAN, to : Rpc!Sampling,
                      at : {"client", "skipped", "refused", "panicked", "gone"} \cup Rpc!Arrived,
                      err : BOOLEAN, sampled : BOOLEAN]
      BY DEF RpcInv, Rpc!TypeOK
    <3>4. [rpc[c] EXCEPT !.at = "work", !.sampled = s]
             \in [method : Rpc!Method, trace : BOOLEAN, to : Rpc!Sampling,
                  at : {"client", "skipped", "refused", "panicked", "gone"} \cup Rpc!Arrived,
                  err : BOOLEAN, sampled : BOOLEAN]
      BY <3>2, <3>3 DEF Rpc!Arrived
    <3>5. rpc' = [rpc EXCEPT ![c] = [rpc[c] EXCEPT !.at = "work", !.sampled = s]]
      BY <3>1
    <3> QED
      BY <3>4, <3>5 DEF RpcInv, Rpc!TypeOK
  <2>3. Rpc!TypeOK'
    BY <1>3, <2>1, <2>2 DEF Rpc!Enter, RpcInv, Rpc!TypeOK
  <2>4. Accounted'
    <3> SUFFICES ASSUME NEW m \in Rpc!Measured
                 PROVE  /\ Cardinality(Came'[m]) = Cardinality(Came[m]) + (IF m = M THEN 1 ELSE 0)
                        /\ Cardinality(Working'[m]) = Cardinality(Working[m]) + (IF m = M THEN 1 ELSE 0)
                        /\ Cardinality(Failing'[m]) = Cardinality(Failing[m])
      BY <2>1 DEF RpcInv, Accounted, Rpc!TypeOK
    <3>1. /\ c \notin Came[m] \cup Working[m] \cup Failing[m] \cup Failing'[m]
          /\ c \in Came'[m] <=> m = M
          /\ c \in Working'[m] <=> m = M
      BY <2>1 DEF Came, Working, Failing
    <3>2. /\ c \in Came'[m] => Cardinality(Came'[m]) = Cardinality(Came[m]) + 1
          /\ c \notin Came'[m] => Cardinality(Came'[m]) = Cardinality(Came[m])
          /\ Cardinality(Came[m]) \in Nat
      BY <2>1, <3>1, CallMoves, OneMoves
    <3>3. /\ c \in Working'[m] => Cardinality(Working'[m]) = Cardinality(Working[m]) + 1
          /\ c \notin Working'[m] => Cardinality(Working'[m]) = Cardinality(Working[m])
          /\ Cardinality(Working[m]) \in Nat
      BY <2>1, <3>1, CallMoves, OneMoves
    <3>4. Cardinality(Failing'[m]) = Cardinality(Failing[m])
      BY <2>1, <3>1, CallMoves, OneMoves
    <3> QED
      BY <3>1, <3>2, <3>3, <3>4
  <2> QED
    BY <2>1, <2>3, <2>4 DEF RpcInv, Spanned
<1>4. ASSUME NEW c \in Call, Rpc!Work(c) PROVE RpcInv'
  <2>1. /\ rpc[c].at = "work" /\ rpc'[c].at = "metrics" /\ UNCHANGED <<requests, current, errors, span>>
        /\ rpc'[c].method = rpc[c].method /\ \A d \in Call : d # c => rpc'[d] = rpc[d]
    BY <1>4 DEF Rpc!Work, RpcInv, Rpc!TypeOK
  <2>2. Rpc!TypeOK'
    <3>1. PICK e \in BOOLEAN : rpc' = [rpc EXCEPT ![c].at = "metrics", ![c].err = e]
      BY <1>4 DEF Rpc!Work
    <3>2. rpc[c] \in [method : Rpc!Method, trace : BOOLEAN, to : Rpc!Sampling,
                      at : {"client", "skipped", "refused", "panicked", "gone"} \cup Rpc!Arrived,
                      err : BOOLEAN, sampled : BOOLEAN]
      BY DEF RpcInv, Rpc!TypeOK
    <3>3. [rpc[c] EXCEPT !.at = "metrics", !.err = e]
             \in [method : Rpc!Method, trace : BOOLEAN, to : Rpc!Sampling,
                  at : {"client", "skipped", "refused", "panicked", "gone"} \cup Rpc!Arrived,
                  err : BOOLEAN, sampled : BOOLEAN]
      BY <3>1, <3>2 DEF Rpc!Arrived
    <3>4. rpc' = [rpc EXCEPT ![c] = [rpc[c] EXCEPT !.at = "metrics", !.err = e]]
      BY <3>1
    <3> QED
      BY <1>4, <3>3, <3>4 DEF Rpc!Work, RpcInv, Rpc!TypeOK
  <2>3. Accounted'
    <3> SUFFICES ASSUME NEW m \in Rpc!Measured
                 PROVE  /\ Cardinality(Came'[m]) = Cardinality(Came[m])
                        /\ Cardinality(Working'[m]) = Cardinality(Working[m])
                        /\ Cardinality(Failing'[m]) = Cardinality(Failing[m])
      BY <2>1 DEF RpcInv, Accounted
    <3>1. /\ c \in Came'[m] <=> c \in Came[m]
          /\ c \in Working'[m] <=> c \in Working[m]
          /\ c \notin Failing[m] \cup Failing'[m]
      BY <2>1 DEF Came, Working, Failing
    <3> QED
      BY <2>1, <3>1, CallMoves, OneMoves
  <2> QED
    BY <2>1, <2>2, <2>3 DEF RpcInv, Spanned
<1>5. ASSUME NEW c \in Call, Rpc!Measure(c) PROVE RpcInv'
  <2> DEFINE M == rpc[c].method
  <2>1. /\ rpc[c].at = "metrics" /\ rpc'[c].at = "end" /\ M \in Rpc!Measured /\ rpc'[c].err = rpc[c].err
        /\ rpc'[c].method = M /\ \A d \in Call : d # c => rpc'[d] = rpc[d]
        /\ current' = [current EXCEPT ![M] = @ - 1] /\ UNCHANGED <<requests, span, child>>
        /\ errors' = [errors EXCEPT ![M] = IF rpc[c].err THEN @ + 1 ELSE @]
    BY <1>5 DEF Rpc!Measure, Rpc!Goto, RpcInv, Rpc!TypeOK, Spanned
  <2>2. rpc' \in [Call -> [method : Rpc!Method, trace : BOOLEAN, to : Rpc!Sampling,
                         at : {"client", "skipped", "refused", "panicked", "gone"} \cup Rpc!Arrived,
                         err : BOOLEAN, sampled : BOOLEAN]]
    BY <1>5 DEF Rpc!Measure, Rpc!Goto, RpcInv, Rpc!TypeOK, Rpc!Arrived
  <2>3. ASSUME NEW m \in Rpc!Measured
        PROVE  /\ Cardinality(Came'[m]) = Cardinality(Came[m])
               /\ Cardinality(Working'[m]) = Cardinality(Working[m]) - (IF m = M THEN 1 ELSE 0)
               /\ Cardinality(Failing'[m]) = Cardinality(Failing[m]) + (IF m = M /\ rpc[c].err THEN 1 ELSE 0)
               /\ Cardinality(Working'[m]) \in Nat
    <3>1. /\ c \in Came'[m] <=> c \in Came[m]
          /\ c \in Working[m] <=> m = M
          /\ c \notin Working'[m] \cup Failing[m]
          /\ c \in Failing'[m] <=> m = M /\ rpc[c].err
      BY <2>1 DEF Came, Working, Failing
    <3>2. Cardinality(Came'[m]) = Cardinality(Came[m])
      BY <2>1, <3>1, CallMoves, OneMoves
    <3>3. /\ c \in Working[m] => Cardinality(Working'[m]) = Cardinality(Working[m]) - 1
          /\ c \notin Working[m] => Cardinality(Working'[m]) = Cardinality(Working[m])
          /\ Cardinality(Working[m]) \in Nat /\ Cardinality(Working'[m]) \in Nat
      BY <2>1, <3>1, CallMoves, OneMoves
    <3>4. /\ c \in Failing'[m] => Cardinality(Failing'[m]) = Cardinality(Failing[m]) + 1
          /\ c \notin Failing'[m] => Cardinality(Failing'[m]) = Cardinality(Failing[m])
          /\ Cardinality(Failing[m]) \in Nat
      BY <2>1, <3>1, CallMoves, OneMoves
    <3> QED
      BY <3>1, <3>2, <3>3, <3>4
  <2>4. Accounted'
    BY <2>1, <2>3 DEF RpcInv, Accounted, Rpc!TypeOK
  <2>5. current[M] - 1 \in Nat
    BY <2>1, <2>3 DEF RpcInv, Accounted
  <2>6. Rpc!TypeOK'
    BY <2>1, <2>2, <2>5 DEF RpcInv, Rpc!TypeOK
  <2> QED
    BY <2>1, <2>4, <2>6 DEF RpcInv, Spanned
<1>6. ASSUME NEW c \in Call, Rpc!EndSpan(c) PROVE RpcInv'
  <2>1. /\ rpc[c].at = "end" /\ rpc'[c].at = "answered" /\ rpc'[c].err = rpc[c].err
        /\ UNCHANGED <<requests, current, errors>> /\ span' = [span EXCEPT ![c] = IF rpc[c].err THEN "error" ELSE "ok"]
        /\ rpc'[c].method = rpc[c].method /\ \A d \in Call : d # c => rpc'[d] = rpc[d]
    BY <1>6 DEF Rpc!EndSpan, Rpc!Goto, RpcInv, Rpc!TypeOK
  <2>2. Rpc!TypeOK'
    BY <1>6 DEF Rpc!EndSpan, Rpc!Goto, RpcInv, Rpc!TypeOK, Rpc!Arrived
  <2>3. Accounted'
    <3> SUFFICES ASSUME NEW m \in Rpc!Measured
                 PROVE  /\ Cardinality(Came'[m]) = Cardinality(Came[m])
                        /\ Cardinality(Working'[m]) = Cardinality(Working[m])
                        /\ Cardinality(Failing'[m]) = Cardinality(Failing[m])
      BY <2>1 DEF RpcInv, Accounted
    <3>1. /\ c \in Came'[m] <=> c \in Came[m]
          /\ c \notin Working[m] \cup Working'[m]
          /\ c \in Failing'[m] <=> c \in Failing[m]
      BY <2>1 DEF Came, Working, Failing
    <3> QED
      BY <2>1, <3>1, CallMoves, OneMoves
  <2>4. Spanned'
    BY <2>1 DEF RpcInv, Rpc!TypeOK, Spanned
  <2> QED
    BY <2>2, <2>3, <2>4 DEF RpcInv
<1>7. ASSUME NEW c \in Call, Rpc!ChangeSampler(c) PROVE RpcInv'
  <2>1. /\ rpc[c].at = "switch" /\ rpc'[c].at = "answered" /\ UNCHANGED <<requests, current, errors, span>>
        /\ rpc[c].method \notin Rpc!Measured
        /\ rpc'[c].method = rpc[c].method /\ \A d \in Call : d # c => rpc'[d] = rpc[d]
    BY <1>7 DEF Rpc!ChangeSampler, RpcInv, Rpc!TypeOK, Spanned
  <2>2. Rpc!TypeOK'
    <3> DEFINE e == rpc[c].to = "invalid"
    <3>1. rpc[c] \in [method : Rpc!Method, trace : BOOLEAN, to : Rpc!Sampling,
                      at : {"client", "skipped", "refused", "panicked", "gone"} \cup Rpc!Arrived,
                      err : BOOLEAN, sampled : BOOLEAN]
      BY DEF RpcInv, Rpc!TypeOK
    <3>2. rpc' = [rpc EXCEPT ![c] = [rpc[c] EXCEPT !.at = "answered", !.err = e]]
      BY <1>7 DEF Rpc!ChangeSampler
    <3>3. child' \in Rpc!Sampler
      BY <1>7, <3>1 DEF Rpc!ChangeSampler, Rpc!Sampling, RpcInv, Rpc!TypeOK
    <3>4. e \in BOOLEAN
      OBVIOUS
    <3> HIDE DEF e
    <3>5. [rpc[c] EXCEPT !.at = "answered", !.err = e]
             \in [method : Rpc!Method, trace : BOOLEAN, to : Rpc!Sampling,
                  at : {"client", "skipped", "refused", "panicked", "gone"} \cup Rpc!Arrived,
                  err : BOOLEAN, sampled : BOOLEAN]
      BY <3>1, <3>4 DEF Rpc!Arrived
    <3> QED
      BY <2>1, <3>2, <3>3, <3>5 DEF RpcInv, Rpc!TypeOK
  <2>3. Accounted'
    <3> SUFFICES ASSUME NEW m \in Rpc!Measured
                 PROVE  /\ Cardinality(Came'[m]) = Cardinality(Came[m])
                        /\ Cardinality(Working'[m]) = Cardinality(Working[m])
                        /\ Cardinality(Failing'[m]) = Cardinality(Failing[m])
      BY <2>1 DEF RpcInv, Accounted
    <3>1. c \notin Came[m] \cup Came'[m] \cup Working[m] \cup Working'[m] \cup Failing[m] \cup Failing'[m]
      BY <2>1 DEF Came, Working, Failing
    <3> QED
      BY <2>1, <3>1, CallMoves, OneMoves
  <2> QED
    BY <2>1, <2>2, <2>3 DEF RpcInv, Spanned
<1>8. ASSUME NEW c \in Call, Rpc!ServerPanics(c) PROVE RpcInv'
  <2>1. \A d \in Call : rpc'[d] = IF rpc[d].at \in Rpc!Arrived THEN [rpc[d] EXCEPT !.at = "gone"] ELSE rpc[d]
    BY <1>8 DEF Rpc!ServerPanics
  <2>2. \A d \in Call : /\ rpc[d] \in [method : Rpc!Method, trace : BOOLEAN, to : Rpc!Sampling,
                             at : {"client", "skipped", "refused", "panicked", "gone"} \cup Rpc!Arrived,
                             err : BOOLEAN, sampled : BOOLEAN]
                        /\ [rpc[d] EXCEPT !.at = "gone"] \in [method : Rpc!Method, trace : BOOLEAN, to : Rpc!Sampling,
                             at : {"client", "skipped", "refused", "panicked", "gone"} \cup Rpc!Arrived,
                             err : BOOLEAN, sampled : BOOLEAN]
                        /\ [rpc[d] EXCEPT !.at = "gone"].at = "gone"
    BY DEF RpcInv, Rpc!TypeOK
  <2>3. Rpc!TypeOK'
    BY <1>8, <2>2 DEF Rpc!ServerPanics, RpcInv, Rpc!TypeOK
  <2>4. \A d \in Call : rpc'[d].at \notin Rpc!Arrived
    BY <2>1, <2>2 DEF Rpc!Arrived
  <2>5. ASSUME NEW m \in Rpc!Measured
        PROVE  /\ Came'[m] = {} /\ Working'[m] = {} /\ Failing'[m] = {}
               /\ requests'[m] = 0 /\ current'[m] = 0 /\ errors'[m] = 0
    BY <1>8, <2>4 DEF Came, Working, Failing, Rpc!Arrived, Rpc!ServerPanics
  <2>6. Accounted'
    BY <2>5, FS_EmptySet DEF Accounted
  <2>7. Spanned'
    BY <2>4 DEF Spanned, Rpc!Arrived
  <2> QED
    BY <2>3, <2>6, <2>7 DEF RpcInv
<1> QED
  BY <1>1, <1>2, <1>3, <1>4, <1>5, <1>6, <1>7, <1>8 DEF Rpc!Next

LEMMA RpcInvStep == RpcInv /\ program = "rpc" /\ [Next]_vars => RpcInv'
  BY RpcAlone, RpcKeeps

LEMMA RpcInvGives == RpcInv => Rpc!CallsAccounted
<1>1. \A S : Rpc!Cardinality(S) = Cardinality(S)
  BY DEF Rpc!Cardinality, Cardinality
<1>2. \A m \in Rpc!Measured :
         /\ Rpc!Of(m, {"work", "metrics", "end", "answered"}) = Came[m]
         /\ Rpc!Of(m, {"work", "metrics"}) = Working[m]
         /\ {c \in Rpc!Of(m, {"end", "answered"}) : rpc[c].err} = Failing[m]
  BY DEF Rpc!Of, Came, Working, Failing
<1>3. ASSUME RpcInv, NEW m \in Rpc!Measured, NEW c \in Rpc!Of(m, {"answered"})
      PROVE  span[c] = IF rpc[c].err THEN "error" ELSE "ok"
  BY <1>3 DEF RpcInv, Spanned, Rpc!Of
<1> QED
  BY <1>1, <1>2, <1>3 DEF RpcInv, Accounted, Rpc!CallsAccounted

-----------------------------------------------------------------------------
(* The stream of a search.                                                 *)

\* The items that have left the stream.
Received == Len(got) + Len(out) + (IF forwarder.at = "send" THEN 1 ELSE 0)

\* The goroutine passed the error on and went to the end.
Failed == forwarder.at \in {"close", "done"} /\ wire.end = "error"

StreamTypes ==
    /\ found \in 0 .. MaxPets /\ sent \in 0 .. found
    /\ wire \in [items : Seq(Nat), end : {"open", "eof", "error"}]
    /\ forwarder \in [at : {"recv", "send", "close", "done"}, item : 1 .. (MaxPets + 1)]
    /\ out \in Seq(1 .. (MaxPets + 1)) /\ Len(out) <= 1
    /\ got \in Seq(1 .. (MaxPets + 1))
    /\ outOpen \in BOOLEAN /\ reading \in BOOLEAN

\* Pets are in order wherever they are, and none is lost while the stream is
\* whole.
InOrder ==
    /\ \A k \in DOMAIN wire.items : wire.items[k] = Received + k
    /\ wire.end = "error" => wire.items = <<>> \/ Received + Len(wire.items) <= sent
    /\ wire.end # "error" => Received + Len(wire.items) = sent
    /\ forwarder.at = "send" =>
         forwarder.item = Received \/ (forwarder.item = MaxPets + 1 /\ wire.items = <<>> /\ wire.end = "error")
    /\ ~Failed => (\A k \in DOMAIN got : got[k] = k) /\ (out # <<>> => out[1] = Len(got) + 1)

\* The end is that of the stream: all pets, or the error last.
EndsRight ==
    /\ wire.end = "eof" => sent = found
    /\ forwarder.at \in {"close", "done"} => wire.items = <<>> /\ wire.end # "open"
    /\ outOpen <=> forwarder.at # "done"
    /\ Failed => IF out = <<>> THEN got # <<>> /\ got[Len(got)] = MaxPets + 1 ELSE out[1] = MaxPets + 1

StreamInv == StreamTypes /\ InOrder /\ EndsRight

LEMMA StreamAlone == program = "stream" /\ [Next]_vars => [Stream!Next]_streamVars
  BY DEF Next, AtRest, Only, Off, vars

LEMMA StreamBound == MaxPets \in Nat /\ Stream!Broken = MaxPets + 1 /\ Stream!Pets = 1 .. MaxPets
  BY CountAssumption DEF Stream!Broken, Stream!Pets

LEMMA OneItem ==
    ASSUME NEW S, NEW s \in Seq(S), s # <<>>, Len(s) <= 1
    PROVE  Len(s) = 1 /\ Head(s) = s[1] /\ s[1] \in S
<1>1. Len(s) \in Nat \ {0} /\ DOMAIN s = 1 .. Len(s)
  OBVIOUS
<1> QED
  BY <1>1

LEMMA StreamInvInit == Init /\ program = "stream" => StreamInv
<1> SUFFICES ASSUME Stream!Init PROVE StreamInv
  BY DEF Init, IdleServers
<1>1. Len(<<>>) = 0 /\ DOMAIN <<>> = {}
  OBVIOUS
<1> QED
  BY <1>1, StreamBound DEF Stream!Init, StreamInv, StreamTypes, InOrder, EndsRight, Received, Failed

LEMMA StreamKeeps == ASSUME StreamInv, [Stream!Next]_streamVars PROVE StreamInv'
<1>0. /\ sent \in Nat /\ found \in Nat /\ sent <= found /\ Received \in Nat
      /\ wire.items \in Seq(Nat) /\ Len(wire.items) \in Nat /\ DOMAIN wire.items = 1 .. Len(wire.items)
      /\ wire = [items |-> wire.items, end |-> wire.end]
  BY StreamBound DEF StreamInv, StreamTypes, Received
<1>1. CASE UNCHANGED streamVars
  BY <1>1 DEF streamVars, StreamInv, StreamTypes, InOrder, EndsRight, Received, Failed
<1>2. CASE Stream!ServerSends
  <2>1. /\ wire.end = "open" /\ sent < found /\ sent' = sent + 1
        /\ UNCHANGED <<found, forwarder, out, outOpen, got, reading>>
        /\ wire' = [items |-> Append(wire.items, sent + 1), end |-> "open"]
    <3>1. wire' = [wire EXCEPT !.items = Append(wire.items, sent + 1)] /\ wire.end = "open"
      BY <1>2 DEF Stream!ServerSends
    <3>2. wire' = [items |-> Append(wire.items, sent + 1), end |-> "open"]
      BY <1>0, <3>1
    <3> QED
      BY <1>2, <3>2 DEF Stream!ServerSends
  <2>0. wire' \in [items : Seq(Nat), end : {"open", "eof", "error"}]
        /\ wire'.items = Append(wire.items, sent + 1) /\ wire'.end = "open"
    <3>1. Append(wire.items, sent + 1) \in Seq(Nat)
      BY <1>0
    <3> QED
      BY <2>1, <3>1
  <2>2. Received' = Received /\ Received \in Nat
    BY <1>0, <2>1 DEF Received, StreamInv, StreamTypes
  <2>3. /\ Len(wire'.items) = Len(wire.items) + 1
        /\ \A k \in DOMAIN wire'.items : wire'.items[k] = IF k = Len(wire.items) + 1 THEN sent + 1 ELSE wire.items[k]
        /\ \A k \in DOMAIN wire'.items : k # Len(wire.items) + 1 => k \in DOMAIN wire.items
    BY <1>0, <2>0
  <2>4. Received + Len(wire.items) = sent /\ \A k \in DOMAIN wire.items : wire.items[k] = Received + k
    BY <2>1 DEF StreamInv, InOrder
  <2>5. \A k \in DOMAIN wire'.items : wire'.items[k] = Received + k
    <3>1. Received + (Len(wire.items) + 1) = sent + 1
      BY <1>0, <2>4
    <3> QED
      BY <2>3, <2>4, <3>1
  <2>6. Received' + Len(wire'.items) = sent'
    BY <1>0, <2>1, <2>2, <2>3, <2>4
  <2>7. forwarder.at \in {"recv", "send"}
    BY <2>1 DEF StreamInv, StreamTypes, EndsRight
  <2>8. StreamTypes'
    BY <1>0, <2>0, <2>1 DEF StreamInv, StreamTypes
  <2>9. InOrder'
    BY <2>0, <2>1, <2>2, <2>5, <2>6, <2>7 DEF StreamInv, InOrder, Failed
  <2> QED
    BY <2>0, <2>1, <2>7, <2>8, <2>9 DEF StreamInv, EndsRight, Failed
<1>3. CASE Stream!ServerEnds
  <2>1. /\ wire.end = "open" /\ sent = found /\ wire'.items = wire.items /\ wire'.end = "eof"
        /\ wire' \in [items : Seq(Nat), end : {"open", "eof", "error"}]
        /\ UNCHANGED <<found, sent, forwarder, out, outOpen, got, reading>>
    BY <1>3 DEF Stream!ServerEnds, StreamInv, StreamTypes
  <2> QED
    BY <2>1 DEF StreamInv, StreamTypes, InOrder, EndsRight, Failed, Received
<1>4. CASE Stream!StreamBreaks
  <2>1. PICK n \in 0 .. Len(wire.items) : wire' = [items |-> SubSeq(wire.items, 1, n), end |-> "error"]
    BY <1>4 DEF Stream!StreamBreaks
  <2>2. wire.end = "open" /\ UNCHANGED <<found, sent, forwarder, out, outOpen, got, reading>>
    BY <1>4 DEF Stream!StreamBreaks
  <2>3. /\ wire'.items \in Seq(Nat) /\ Len(wire'.items) = n /\ n \in Nat /\ wire'.end = "error"
        /\ \A k \in DOMAIN wire'.items : k \in DOMAIN wire.items /\ wire'.items[k] = wire.items[k]
    BY <2>1 DEF StreamInv, StreamTypes
  <2>4. Received' = Received /\ Received \in Nat
    BY <2>2 DEF Received, StreamInv, StreamTypes
  <2>5. wire' \in [items : Seq(Nat), end : {"open", "eof", "error"}]
    BY <2>1, <2>3
  <2>6. Received + Len(wire'.items) <= sent
    BY <2>2, <2>3, <2>4 DEF StreamInv, StreamTypes, InOrder
  <2>7. forwarder.at \in {"recv", "send"}
    BY <2>2 DEF StreamInv, StreamTypes, EndsRight
  <2> QED
    BY <2>2, <2>3, <2>4, <2>5, <2>6, <2>7 DEF StreamInv, StreamTypes, InOrder, EndsRight, Failed
<1>5. CASE Stream!Recv
  <2>1. forwarder.at = "recv" /\ UNCHANGED <<found, sent, out, outOpen, got, reading>>
    BY <1>5 DEF Stream!Recv
  <2>2. CASE wire.items # <<>> /\ forwarder' = [at |-> "send", item |-> Head(wire.items)]
             /\ wire' = [wire EXCEPT !.items = Tail(@)]
    <3>1. /\ wire'.items \in Seq(Nat) /\ Len(wire'.items) = Len(wire.items) - 1 /\ wire'.end = wire.end
          /\ \A k \in DOMAIN wire'.items : k + 1 \in DOMAIN wire.items /\ wire'.items[k] = wire.items[k + 1]
          /\ Head(wire.items) = wire.items[1] /\ 1 \in DOMAIN wire.items
      BY <2>2 DEF StreamInv, StreamTypes
    <3>2. Received' = Received + 1 /\ Received \in Nat
      BY <2>1, <2>2 DEF Received, StreamInv, StreamTypes
    <3>3. wire.items[1] = Received + 1 /\ Received + 1 <= sent
      BY <2>2, <3>1, <3>2 DEF StreamInv, StreamTypes, InOrder
    <3>4. wire' \in [items : Seq(Nat), end : {"open", "eof", "error"}]
      BY <2>2, <3>1 DEF StreamInv, StreamTypes
    <3>5. forwarder'.at = "send" /\ forwarder'.item = Received + 1
          /\ forwarder' \in [at : {"recv", "send", "close", "done"}, item : 1 .. (MaxPets + 1)]
      BY <2>2, <3>1, <3>2, <3>3, StreamBound DEF StreamInv, StreamTypes
    <3>6. \A k \in DOMAIN wire'.items : wire'.items[k] = Received' + k
      <4>1. \A k \in DOMAIN wire.items : wire.items[k] = Received + k
        BY DEF StreamInv, InOrder
      <4>2. \A k \in DOMAIN wire'.items : k \in Nat
        BY <3>1
      <4> QED
        BY <3>1, <3>2, <4>1, <4>2
    <3>7. /\ wire'.end = "error" => Received' + Len(wire'.items) <= sent'
          /\ wire'.end # "error" => Received' + Len(wire'.items) = sent'
      <4>1. /\ wire.end = "error" => Received + Len(wire.items) <= sent
            /\ wire.end # "error" => Received + Len(wire.items) = sent
        BY <2>2 DEF StreamInv, InOrder
      <4> QED
        BY <1>0, <2>1, <3>1, <3>2, <4>1
    <3>8. StreamTypes'
      BY <2>1, <3>4, <3>5 DEF StreamInv, StreamTypes
    <3>9. InOrder'
      BY <2>1, <3>2, <3>5, <3>6, <3>7 DEF StreamInv, InOrder, Failed
    <3> QED
      BY <2>1, <3>1, <3>5, <3>8, <3>9 DEF StreamInv, EndsRight, Failed
  <2>3. CASE Stream!Over("eof") /\ forwarder' = [forwarder EXCEPT !.at = "close"] /\ UNCHANGED wire
    <3>1. wire.items = <<>> /\ wire.end = "eof" /\ forwarder'.at = "close"
          /\ forwarder' \in [at : {"recv", "send", "close", "done"}, item : 1 .. (MaxPets + 1)]
      BY <2>3 DEF Stream!Over, StreamInv, StreamTypes
    <3>2. Received' = Received
      BY <2>1, <3>1 DEF Received
    <3> QED
      BY <2>1, <2>3, <3>1, <3>2 DEF StreamInv, StreamTypes, InOrder, EndsRight, Failed
  <2>4. CASE Stream!Over("error") /\ forwarder' = [at |-> "send", item |-> Stream!Broken] /\ UNCHANGED wire
    <3>1. wire.items = <<>> /\ wire.end = "error" /\ forwarder'.at = "send" /\ forwarder'.item = MaxPets + 1
          /\ forwarder' \in [at : {"recv", "send", "close", "done"}, item : 1 .. (MaxPets + 1)]
      BY <2>4, StreamBound DEF Stream!Over
    <3>2. DOMAIN wire.items = {}
      BY <3>1
    <3> QED
      BY <2>1, <2>4, <3>1, <3>2 DEF StreamInv, StreamTypes, InOrder, EndsRight, Failed
  <2> QED
    BY <1>5, <2>2, <2>3, <2>4 DEF Stream!Recv
<1>6. CASE Stream!Forward
  <2>1. /\ forwarder.at = "send" /\ out = <<>> /\ out' = <<forwarder.item>>
        /\ forwarder'.at = (IF forwarder.item = MaxPets + 1 THEN "close" ELSE "recv")
        /\ forwarder' \in [at : {"recv", "send", "close", "done"}, item : 1 .. (MaxPets + 1)]
        /\ UNCHANGED <<found, sent, wire, outOpen, got, reading>>
    BY <1>6, StreamBound DEF Stream!Forward, StreamInv, StreamTypes
  <2>2. /\ out' \in Seq(1 .. (MaxPets + 1)) /\ Len(out') = 1 /\ out'[1] = forwarder.item /\ out' # <<>> /\ Len(out) = 0
    BY <2>1 DEF StreamInv, StreamTypes
  <2>3. Received' = Received /\ Received = Len(got) + 1
    BY <2>1, <2>2 DEF Received, StreamInv, StreamTypes
  <2>4. StreamTypes'
    BY <2>1, <2>2 DEF StreamInv, StreamTypes
  <2>5. CASE forwarder.item = MaxPets + 1
    <3>1. Received <= sent \/ (wire.items = <<>> /\ wire.end = "error")
      BY <2>1, <2>3 DEF StreamInv, StreamTypes, InOrder
    <3>2. wire.items = <<>> /\ wire.end = "error"
      BY <2>1, <2>3, <2>5, <3>1, StreamBound DEF StreamInv, StreamTypes, InOrder
    <3> QED
      BY <2>1, <2>2, <2>3, <2>4, <2>5, <3>2 DEF StreamInv, InOrder, EndsRight, Failed
  <2>6. CASE forwarder.item # MaxPets + 1
    BY <2>1, <2>2, <2>3, <2>4, <2>6 DEF StreamInv, InOrder, EndsRight, Failed
  <2> QED
    BY <2>5, <2>6
<1>7. CASE Stream!Close
  <2>1. /\ forwarder.at = "close" /\ forwarder'.at = "done" /\ outOpen' = FALSE
        /\ forwarder' \in [at : {"recv", "send", "close", "done"}, item : 1 .. (MaxPets + 1)]
        /\ UNCHANGED <<found, sent, wire, out, got, reading>>
    BY <1>7 DEF Stream!Close, StreamInv, StreamTypes
  <2>2. Received' = Received
    BY <2>1 DEF Received
  <2> QED
    BY <2>1, <2>2 DEF StreamInv, StreamTypes, InOrder, EndsRight, Failed
<1>8. CASE Stream!Receive
  <2>1. /\ out # <<>> /\ got' = Append(got, Head(out)) /\ out' = <<>>
        /\ UNCHANGED <<found, sent, wire, forwarder, outOpen, reading>>
    BY <1>8 DEF Stream!Receive
  <2>2. Len(out) = 1 /\ Head(out) = out[1] /\ out[1] \in 1 .. (MaxPets + 1) /\ Len(out') = 0
    <3>1. out \in Seq(1 .. (MaxPets + 1)) /\ Len(out) <= 1 /\ out # <<>> /\ out' = <<>>
      BY <2>1 DEF StreamInv, StreamTypes
    <3>2. Len(<<>>) = 0
      OBVIOUS
    <3> QED
      BY <3>1, <3>2, OneItem
  <2>3. /\ got' \in Seq(1 .. (MaxPets + 1)) /\ Len(got') = Len(got) + 1 /\ got' # <<>> /\ got'[Len(got')] = out[1]
        /\ \A k \in DOMAIN got' : k = Len(got) + 1 \/ (k \in DOMAIN got /\ got'[k] = got[k])
        /\ Len(got) \in Nat
    <3>1. got \in Seq(1 .. (MaxPets + 1)) /\ got' = Append(got, out[1])
      BY <2>1, <2>2 DEF StreamInv, StreamTypes
    <3>2. got' \in Seq(1 .. (MaxPets + 1)) /\ Len(got') = Len(got) + 1 /\ got'[Len(got) + 1] = out[1] /\ Len(got) \in Nat
      BY <2>2, <3>1
    <3>3. \A k \in DOMAIN got' : k = Len(got) + 1 \/ (k \in DOMAIN got /\ got'[k] = got[k])
      BY <3>1, <3>2
    <3> QED
      BY <3>2, <3>3
  <2>4. Received' = Received
    BY <2>1, <2>2, <2>3 DEF Received, StreamInv, StreamTypes
  <2>5. StreamTypes'
    BY <2>1, <2>2, <2>3 DEF StreamInv, StreamTypes
  <2>6. ~Failed => \A k \in DOMAIN got' : got'[k] = k
    BY <2>1, <2>3 DEF StreamInv, InOrder
  <2> QED
    BY <2>1, <2>3, <2>4, <2>5, <2>6 DEF StreamInv, InOrder, EndsRight, Failed
<1>9. CASE Stream!StopReading
  BY <1>9 DEF Stream!StopReading, StreamInv, StreamTypes, InOrder, EndsRight, Failed, Received
<1> QED
  BY <1>1, <1>2, <1>3, <1>4, <1>5, <1>6, <1>7, <1>8, <1>9 DEF Stream!Next, Stream!Steps

LEMMA StreamInvStep == StreamInv /\ program = "stream" /\ [Next]_vars => StreamInv'
  BY StreamAlone, StreamKeeps

LEMMA StreamInvGives == StreamInv => Stream!TypeOK /\ Stream!StreamIsHonest
<1> SUFFICES ASSUME StreamInv PROVE Stream!TypeOK /\ Stream!StreamIsHonest
  OBVIOUS
<1>1. Stream!TypeOK
  <2>1. Len(wire.items) <= MaxPets
    <3>1. Received \in Nat /\ Len(wire.items) \in Nat
      BY DEF Received, StreamInv, StreamTypes
    <3>2. CASE wire.items = <<>>
      BY <3>2, StreamBound
    <3>3. CASE wire.items # <<>>
      BY <3>1, <3>3, StreamBound DEF StreamInv, StreamTypes, InOrder
    <3> QED
      BY <3>2, <3>3
  <2> QED
    BY <2>1, StreamBound DEF StreamInv, StreamTypes, Stream!TypeOK
<1>2. ASSUME Stream!CallerSawEnd PROVE wire.end = "eof" => got = [k \in 1 .. found |-> k]
  <2>1. out = <<>> /\ forwarder.at = "done" /\ wire.items = <<>>
    BY <1>2 DEF Stream!CallerSawEnd, StreamInv, StreamTypes, EndsRight
  <2>2. ASSUME wire.end = "eof" PROVE Len(got) = found /\ \A k \in DOMAIN got : got[k] = k
    <3>1. Received = Len(got) /\ Len(wire.items) = 0
      BY <2>1 DEF Received, StreamInv, StreamTypes
    <3>2. Len(got) = found
      BY <2>2, <3>1 DEF StreamInv, StreamTypes, InOrder, EndsRight
    <3> QED
      BY <2>2, <3>2 DEF StreamInv, InOrder, Failed
  <2>3. ASSUME wire.end = "eof" PROVE got = [k \in 1 .. found |-> k]
    <3>1. DOMAIN got = 1 .. found /\ got = [k \in DOMAIN got |-> got[k]]
      BY <2>2, <2>3 DEF StreamInv, StreamTypes
    <3> QED
      BY <2>2, <2>3, <3>1
  <2> QED
    BY <2>3
<1>3. ASSUME Stream!CallerSawEnd, wire.end # "eof" PROVE wire.end = "error" /\ got # <<>> /\ got[Len(got)] = Stream!Broken
  BY <1>3, StreamBound DEF Stream!CallerSawEnd, StreamInv, StreamTypes, EndsRight, Failed
<1> QED
  BY <1>1, <1>2, <1>3 DEF Stream!StreamIsHonest

-----------------------------------------------------------------------------
(* The event log.                                                          *)

LogTypes ==
    /\ event \in Seq([name : Events!Tag \cup {<<>>}, attrs : Seq(Events!Tag), nil : BOOLEAN]) /\ Len(event) <= MaxEvents
    /\ buf \in Seq(Nat) /\ Len(buf) <= BufSize /\ \A k \in DOMAIN buf : buf[k] \in 1 .. Len(event)
    /\ overflow \in [1 .. MaxEvents -> Nat] /\ \A e \in 1 .. MaxEvents : overflow[e] > 0 => e <= Len(event)
    /\ user \in [User -> [at : {"idle", "name", "open", "put"}, uses : 0 .. MaxUses, added : {0, 1}, ev : Nat]]
    /\ \A u \in User : user[u].at # "idle" => user[u].ev \in 1 .. Len(event) /\ user[u].uses \in 1 .. MaxUses
    /\ shared \subseteq User /\ DOMAIN rendered = User

\* Nothing is left in an object that nobody uses.
Clean ==
    \A e \in 1 .. Len(event) :
        (\A u \in User : user[u].at = "idle" \/ user[u].ev # e) => event[e].name = <<>> /\ event[e].attrs = <<>>

\* Who shares with nobody is alone with the object.
Alone ==
    \A u, v \in User : u \notin shared /\ user[u].at # "idle" /\ user[v].at # "idle" /\ user[v].ev = user[u].ev => v = u

\* And the object, or what was rendered of it, is as far as its user is.
UpTo(u) ==
    /\ user[u].at = "name" =>
         user[u].added = 0 /\ event[user[u].ev].name = <<>> /\ event[user[u].ev].attrs = <<>>
    /\ user[u].at = "open" =>
         /\ event[user[u].ev].name = <<u, user[u].uses>>
         /\ user[u].added = 0 => event[user[u].ev].attrs = <<>>
         /\ user[u].added = 1 => event[user[u].ev].attrs = << <<u, user[u].uses>> >> /\ ~event[user[u].ev].nil
    /\ user[u].at = "put" =>
         \/ user[u].added = 0 /\ rendered[u] = [name |-> <<>>, attrs |-> <<>>]
         \/ user[u].added = 0 /\ rendered[u] = [name |-> <<u, user[u].uses>>, attrs |-> <<>>]
         \/ user[u].added = 1 /\ rendered[u] = [name |-> <<u, user[u].uses>>, attrs |-> << <<u, user[u].uses>> >>]

Progress == \A u \in User : u \notin shared => UpTo(u)

LogInv == LogTypes /\ Clean /\ Alone /\ Progress

LEMMA LogAlone == program = "events" /\ [Next]_vars => [Events!Next]_logVars
  BY DEF Next, AtRest, Only, Off, vars

LEMMA LogBounds == MaxEvents \in Nat /\ BufSize \in Nat /\ MaxUses \in Nat
  BY CountAssumption

LEMMA Tags ==
    ASSUME NEW u \in User, NEW n \in 1 .. MaxUses
    PROVE  <<u, n>> \in Events!Tag /\ <<u, n>> # <<>> /\ << <<u, n>> >> \in Seq(Events!Tag)
           /\ Append(<<>>, <<u, n>>) = << <<u, n>> >>
  BY DEF Events!Tag

LEMMA LogInvInit == Init /\ program = "events" => LogInv
<1> SUFFICES ASSUME Events!Init PROVE LogInv
  BY DEF Init, IdleServers
<1>1. event = <<>> /\ buf = <<>> /\ Len(<<>>) = 0 /\ DOMAIN <<>> = {}
  BY DEF Events!Init
<1>2. LogTypes
  BY <1>1, LogBounds DEF Events!Init, Events!Object, LogTypes
<1> QED
  BY <1>1, <1>2 DEF Events!Init, LogInv, Clean, Alone, Progress, UpTo

\* A step of one that uses an object, which changes that object alone.
LEMMA UserKeeps ==
    ASSUME LogInv, NEW u \in User, user[u].at # "idle",
           event' \in Seq([name : Events!Tag \cup {<<>>}, attrs : Seq(Events!Tag), nil : BOOLEAN]),
           Len(event') = Len(event), \A k \in 1 .. Len(event) : k # user[u].ev => event'[k] = event[k],
           user' \in [User -> [at : {"idle", "name", "open", "put"}, uses : 0 .. MaxUses, added : {0, 1}, ev : Nat]],
           user'[u].ev = user[u].ev, user'[u].uses = user[u].uses, UNCHANGED shared, DOMAIN rendered' = User,
           \A d \in User : d # u => user'[d] = user[d] /\ rendered'[d] = rendered[d],
           user'[u].at = "idle" => event'[user[u].ev].name = <<>> /\ event'[user[u].ev].attrs = <<>>
    PROVE  /\ Clean' /\ Alone'
           /\ (\A w \in User : user[w].at # "idle" => user[w].ev \in 1 .. Len(event) /\ user[w].uses \in 1 .. MaxUses)'
           /\ \A d \in User : d # u /\ d \notin shared /\ user[d].at # "idle" => event'[user[d].ev] = event[user[d].ev]
<1>1. user[u].ev \in 1 .. Len(event) /\ user[u].uses \in 1 .. MaxUses
  BY DEF LogInv, LogTypes
<1>2. \A w \in User : user'[w].ev = user[w].ev /\ (user'[w].at # "idle" => user[w].at # "idle")
  OBVIOUS
<1>3. Alone'
  BY <1>2 DEF LogInv, Alone
<1>4. \A d \in User : d # u /\ d \notin shared /\ user[d].at # "idle" => event'[user[d].ev] = event[user[d].ev]
  BY DEF LogInv, LogTypes, Alone
<1>5. Clean'
  <2> SUFFICES ASSUME NEW e \in 1 .. Len(event), \A w \in User : user'[w].at = "idle" \/ user'[w].ev # e
               PROVE  event'[e].name = <<>> /\ event'[e].attrs = <<>>
    BY DEF Clean
  <2>1. CASE e = user[u].ev
    BY <2>1
  <2>2. CASE e # user[u].ev
    <3>1. \A w \in User : user[w].at = "idle" \/ user[w].ev # e
      BY <2>2
    <3> QED
      BY <2>2, <3>1 DEF LogInv, Clean
  <2> QED
    BY <2>1, <2>2
<1>6. (\A w \in User : user[w].at # "idle" => user[w].ev \in 1 .. Len(event) /\ user[w].uses \in 1 .. MaxUses)'
  <2> SUFFICES ASSUME NEW w \in User, user'[w].at # "idle"
               PROVE  user'[w].ev \in 1 .. Len(event) /\ user'[w].uses \in 1 .. MaxUses
    OBVIOUS
  <2>1. user[w].at # "idle" /\ user'[w].ev = user[w].ev /\ user'[w].uses = user[w].uses
    OBVIOUS
  <2> QED
    BY <2>1 DEF LogInv, LogTypes
<1> QED
  BY <1>3, <1>4, <1>5, <1>6

\* What nobody else touches stays as far as it was.
LEMMA UpToKept ==
    ASSUME LogInv, NEW d \in User, d \notin shared, user'[d] = user[d], rendered'[d] = rendered[d],
           user[d].at # "idle" => event'[user[d].ev] = event[user[d].ev]
    PROVE  UpTo(d)'
<1>1. UpTo(d)
  BY DEF LogInv, Progress, UpTo
<1>2. CASE user[d].at = "idle"
  BY <1>2 DEF UpTo
<1>3. CASE user[d].at # "idle"
  <2>1. event'[user'[d].ev] = event[user[d].ev]
    BY <1>3
  <2> QED
    BY <1>1, <2>1 DEF UpTo
<1> QED
  BY <1>2, <1>3

LEMMA NewKeeps == ASSUME LogInv, NEW u \in User, Events!NewEvent(u) PROVE LogInv'
<1>1. PICK e \in 1 .. MaxEvents :
         /\ Events!Gets(e)
         /\ user' = [user EXCEPT ![u] = [at |-> "name", uses |-> @.uses + 1, added |-> 0, ev |-> e]]
         /\ shared' = IF Events!Holders(e) = {} THEN shared \ {u} ELSE shared \cup {u} \cup Events!Holders(e)
  BY DEF Events!NewEvent, Events!Object
<1>2. user[u].at = "idle" /\ user[u].uses < MaxUses /\ UNCHANGED rendered
  BY DEF Events!NewEvent
<1>3. /\ user'[u].at = "name" /\ user'[u].added = 0 /\ user'[u].ev = e /\ user'[u].uses \in 1 .. MaxUses
      /\ \A d \in User : d # u => user'[d] = user[d]
      /\ user' \in [User -> [at : {"idle", "name", "open", "put"}, uses : 0 .. MaxUses, added : {0, 1}, ev : Nat]]
  <2>1. user[u].uses + 1 \in 1 .. MaxUses /\ e \in Nat
    BY <1>2, LogBounds DEF LogInv, LogTypes
  <2> QED
    BY <1>1, <2>1, LogBounds DEF LogInv, LogTypes
<1>4. /\ e \in 1 .. Len(event') /\ Len(event') <= MaxEvents
      /\ event' \in Seq([name : Events!Tag \cup {<<>>}, attrs : Seq(Events!Tag), nil : BOOLEAN])
      /\ Len(event) \in Nat /\ Len(event') \in Nat /\ Len(event) <= Len(event')
      /\ \A k \in 1 .. Len(event') : \/ k \in 1 .. Len(event) /\ event'[k] = event[k]
                                     \/ k = e /\ event'[k].name = <<>> /\ event'[k].attrs = <<>>
      /\ buf' \in Seq(Nat) /\ Len(buf') <= BufSize /\ \A k \in DOMAIN buf' : buf'[k] \in 1 .. Len(event')
      /\ overflow' \in [1 .. MaxEvents -> Nat] /\ \A k \in 1 .. MaxEvents : overflow'[k] > 0 => k <= Len(event')
  <2>0. /\ event \in Seq([name : Events!Tag \cup {<<>>}, attrs : Seq(Events!Tag), nil : BOOLEAN])
        /\ Len(event) \in Nat /\ Len(event) <= MaxEvents
    BY DEF LogInv, LogTypes
  <2>1. CASE buf # <<>>
    <3>1. e = Head(buf) /\ buf' = Tail(buf) /\ UNCHANGED <<event, overflow>>
      BY <1>1, <2>1 DEF Events!Gets
    <3>2. /\ Head(buf) = buf[1] /\ 1 \in DOMAIN buf /\ Tail(buf) \in Seq(Nat) /\ Len(Tail(buf)) <= BufSize
          /\ \A k \in DOMAIN Tail(buf) : k + 1 \in DOMAIN buf /\ Tail(buf)[k] = buf[k + 1]
      BY <2>1, LogBounds DEF LogInv, LogTypes
    <3> QED
      BY <2>0, <3>1, <3>2 DEF LogInv, LogTypes
  <2>2. CASE buf = <<>> /\ overflow[e] > 0 /\ overflow' = [overflow EXCEPT ![e] = @ - 1] /\ UNCHANGED <<event, buf>>
    BY <2>0, <2>2 DEF LogInv, LogTypes
  <2>3. CASE buf = <<>> /\ e = Len(event) + 1 /\ event' = Append(event, Events!Blank) /\ UNCHANGED <<overflow, buf>>
    <3>1. /\ Events!Blank \in [name : Events!Tag \cup {<<>>}, attrs : Seq(Events!Tag), nil : BOOLEAN]
          /\ Events!Blank.name = <<>> /\ Events!Blank.attrs = <<>>
      BY DEF Events!Blank
    <3> HIDE DEF Events!Blank
    <3>2. /\ event' \in Seq([name : Events!Tag \cup {<<>>}, attrs : Seq(Events!Tag), nil : BOOLEAN])
          /\ Len(event') = Len(event) + 1 /\ event'[e] = Events!Blank
          /\ \A k \in 1 .. Len(event) : event'[k] = event[k]
      BY <2>0, <2>3, <3>1
    <3>3. DOMAIN buf' = {} /\ Len(buf') = 0 /\ buf' \in Seq(Nat)
      BY <2>3
    <3> QED
      BY <2>0, <2>3, <3>1, <3>2, <3>3, LogBounds DEF LogInv, LogTypes
  <2> QED
    BY <1>1, <2>1, <2>2, <2>3 DEF Events!Gets
<1>5. \A d \in User : d # u /\ user[d].at # "idle" =>
         user[d].ev \in 1 .. Len(event) /\ event'[user[d].ev].name = event[user[d].ev].name
            /\ (user[d].ev # e => event'[user[d].ev] = event[user[d].ev])
  <2>1. \A d \in User : user[d].at # "idle" => user[d].ev \in 1 .. Len(event)
    BY DEF LogInv, LogTypes
  <2>2. ASSUME NEW k \in 1 .. Len(event) PROVE event'[k] = event[k]
    <3>1. CASE UNCHANGED event
      BY <3>1
    <3>2. CASE event' = Append(event, Events!Blank)
      BY <3>2 DEF LogInv, LogTypes
    <3> QED
      BY <1>1, <3>1, <3>2 DEF Events!Gets
  <2> QED
    BY <2>1, <2>2
<1>6. Events!Holders(e) = {w \in User : user[w].at # "idle" /\ user[w].ev = e}
  BY DEF Events!Holders
<1>7. LogTypes'
  <2>1. shared' \subseteq User
    BY <1>1, <1>6 DEF LogInv, LogTypes
  <2>2. ASSUME NEW w \in User, user'[w].at # "idle" PROVE user'[w].ev \in 1 .. Len(event') /\ user'[w].uses \in 1 .. MaxUses
    <3>1. CASE w = u
      BY <1>3, <1>4, <3>1
    <3>2. CASE w # u
      BY <1>3, <1>4, <2>2, <3>2 DEF LogInv, LogTypes
    <3> QED
      BY <3>1, <3>2
  <2> QED
    BY <1>2, <1>3, <1>4, <2>1, <2>2 DEF LogInv, LogTypes
<1>8. Clean'
  <2> SUFFICES ASSUME NEW k \in 1 .. Len(event'), \A w \in User : user'[w].at = "idle" \/ user'[w].ev # k
               PROVE  event'[k].name = <<>> /\ event'[k].attrs = <<>>
    BY DEF Clean
  <2>1. k # e
    BY <1>3
  <2>2. k \in 1 .. Len(event) /\ event'[k] = event[k]
    BY <1>4, <2>1
  <2>3. \A w \in User : user[w].at = "idle" \/ user[w].ev # k
    BY <1>2, <1>3
  <2> QED
    BY <2>2, <2>3 DEF LogInv, Clean
<1>9. Alone'
  <2> SUFFICES ASSUME NEW v \in User, NEW w \in User, v \notin shared', user'[v].at # "idle", user'[w].at # "idle",
                      user'[w].ev = user'[v].ev
               PROVE  w = v
    BY DEF Alone
  <2>1. CASE v = u
    <3>1. Events!Holders(e) = {}
      BY <1>1, <2>1
    <3> QED
      BY <1>3, <1>6, <2>1, <3>1
  <2>2. CASE v # u
    <3>1. v \notin shared /\ user[v].at # "idle" /\ user'[v] = user[v] /\ user[v].ev # e
      BY <1>1, <1>3, <1>6, <2>2
    <3>2. w # u
      BY <1>3, <3>1
    <3> QED
      BY <1>3, <3>1, <3>2 DEF LogInv, Alone
  <2> QED
    BY <2>1, <2>2
<1>10. Progress'
  <2>1. ASSUME NEW d \in User, d # u, d \notin shared', user[d].at # "idle"
        PROVE  d \notin shared /\ user'[d] = user[d] /\ rendered'[d] = rendered[d] /\ event'[user[d].ev] = event[user[d].ev]
    <3>1. d \notin shared /\ user[d].ev # e
      BY <1>1, <1>6, <2>1
    <3> QED
      BY <1>2, <1>3, <1>5, <2>1, <3>1
  <2>2. u \notin shared' => event'[e].name = <<>> /\ event'[e].attrs = <<>>
    <3> SUFFICES ASSUME u \notin shared' PROVE event'[e].name = <<>> /\ event'[e].attrs = <<>>
      OBVIOUS
    <3>1. \A w \in User : user[w].at = "idle" \/ user[w].ev # e
      BY <1>1, <1>6
    <3>2. \A k \in 1 .. Len(event) :
            (\A w \in User : user[w].at = "idle" \/ user[w].ev # k) => event[k].name = <<>> /\ event[k].attrs = <<>>
      BY DEF LogInv, Clean
    <3> QED
      BY <1>4, <3>1, <3>2
  <2> SUFFICES ASSUME NEW d \in User, d \notin shared' PROVE UpTo(d)'
    BY DEF Progress, UpTo
  <2>3. CASE d = u
    BY <1>3, <2>2, <2>3 DEF UpTo
  <2>4. CASE d # u /\ user[d].at = "idle"
    BY <1>3, <2>4 DEF UpTo
  <2>5. CASE d # u /\ user[d].at # "idle"
    BY <2>1, <2>5, UpToKept
  <2> QED
    BY <2>3, <2>4, <2>5
<1> QED
  BY <1>7, <1>8, <1>9, <1>10 DEF LogInv

\* The step of a user, and how far it comes.
LEMMA UserStep ==
    ASSUME LogInv, NEW u \in User, user[u].at # "idle", NEW r,
           r \in [name : Events!Tag \cup {<<>>}, attrs : Seq(Events!Tag), nil : BOOLEAN],
           event' = [event EXCEPT ![user[u].ev] = r],
           user' \in [User -> [at : {"idle", "name", "open", "put"}, uses : 0 .. MaxUses, added : {0, 1}, ev : Nat]],
           user'[u].ev = user[u].ev, user'[u].uses = user[u].uses, UNCHANGED shared, DOMAIN rendered' = User,
           \A d \in User : d # u => user'[d] = user[d] /\ rendered'[d] = rendered[d],
           user'[u].at = "idle" => r.name = <<>> /\ r.attrs = <<>>,
           buf' \in Seq(Nat), Len(buf') <= BufSize, \A k \in DOMAIN buf' : buf'[k] \in 1 .. Len(event),
           overflow' \in [1 .. MaxEvents -> Nat], \A k \in 1 .. MaxEvents : overflow'[k] > 0 => k <= Len(event),
           u \notin shared => UpTo(u)'
    PROVE  LogInv'
<1>1. /\ user[u].ev \in 1 .. Len(event)
      /\ event \in Seq([name : Events!Tag \cup {<<>>}, attrs : Seq(Events!Tag), nil : BOOLEAN])
  BY DEF LogInv, LogTypes
<1>2. /\ event' \in Seq([name : Events!Tag \cup {<<>>}, attrs : Seq(Events!Tag), nil : BOOLEAN])
      /\ Len(event') = Len(event) /\ event'[user[u].ev] = r
      /\ \A k \in 1 .. Len(event) : k # user[u].ev => event'[k] = event[k]
  BY <1>1, ExceptSeq
<1>3. /\ Clean' /\ Alone'
      /\ (\A w \in User : user[w].at # "idle" => user[w].ev \in 1 .. Len(event) /\ user[w].uses \in 1 .. MaxUses)'
      /\ \A d \in User : d # u /\ d \notin shared /\ user[d].at # "idle" => event'[user[d].ev] = event[user[d].ev]
  BY <1>2, UserKeeps
<1>4. LogTypes'
  BY <1>2, <1>3 DEF LogInv, LogTypes
<1>5. Progress'
  <2> SUFFICES ASSUME NEW d \in User, d \notin shared' PROVE UpTo(d)'
    BY DEF Progress, UpTo
  <2>1. CASE d = u
    BY <2>1
  <2>2. CASE d # u
    <3>1. /\ d \notin shared /\ user'[d] = user[d] /\ rendered'[d] = rendered[d]
          /\ user[d].at # "idle" => event'[user[d].ev] = event[user[d].ev]
      BY <1>3, <2>2
    <3> QED
      BY <3>1, UpToKept
  <2> QED
    BY <2>1, <2>2
<1> QED
  BY <1>3, <1>4, <1>5 DEF LogInv

LEMMA UsersKeep ==
    ASSUME LogInv, NEW u \in User, Events!SetName(u) \/ Events!Add(u) \/ Events!Render(u) \/ Events!Put(u)
    PROVE  LogInv'
<1> DEFINE o == event[user[u].ev]
           R == [name : Events!Tag \cup {<<>>}, attrs : Seq(Events!Tag), nil : BOOLEAN]
           U == [at : {"idle", "name", "open", "put"}, uses : 0 .. MaxUses, added : {0, 1}, ev : Nat]
           t == <<u, user[u].uses>>
<1>1. user[u].at # "idle"
  BY DEF Events!SetName, Events!Add, Events!Render, Events!Put
<1>0. event \in Seq(R) /\ user \in [User -> U]
  BY DEF LogInv, LogTypes
<1>2. /\ user[u].ev \in 1 .. Len(event) /\ user[u].uses \in 1 .. MaxUses /\ user[u] \in U /\ user \in [User -> U]
      /\ event \in Seq(R) /\ o \in R /\ Len(event) \in Nat /\ Len(event) <= MaxEvents
      /\ buf \in Seq(Nat) /\ Len(buf) <= BufSize /\ \A k \in DOMAIN buf : buf[k] \in 1 .. Len(event)
      /\ overflow \in [1 .. MaxEvents -> Nat] /\ \A e \in 1 .. MaxEvents : overflow[e] > 0 => e <= Len(event)
      /\ DOMAIN rendered = User
  <2> HIDE DEF R, U
  <2>1. user[u].ev \in 1 .. Len(event) /\ user[u].uses \in 1 .. MaxUses
    BY <1>1 DEF LogInv, LogTypes
  <2>2. user[u] \in U /\ o \in R /\ Len(event) \in Nat
    BY <1>0, <2>1
  <2> QED
    BY <1>0, <2>1, <2>2 DEF LogInv, LogTypes
<1>3. t \in Events!Tag /\ t # <<>> /\ <<t>> \in Seq(Events!Tag) /\ Append(<<>>, t) = <<t>> /\ Events!MyTag(u) = t
  BY <1>2, Tags DEF Events!MyTag
<1>4. u \notin shared => UpTo(u)
  BY DEF LogInv, Progress, UpTo
<1>5. event = [event EXCEPT ![user[u].ev] = o]
  BY <1>2
<1>6. DOMAIN event = 1 .. Len(event)
  BY <1>2
<1> HIDE DEF o, R, U, t
<1>7. CASE Events!SetName(u)
  <2> DEFINE r == [o EXCEPT !.name = t]
  <2>1. user[u].at = "name" /\ UNCHANGED <<buf, overflow, shared, rendered>>
    BY <1>7 DEF Events!SetName
  <2>2. event' = [event EXCEPT ![user[u].ev] = r]
    BY <1>3, <1>7 DEF Events!SetName, o
  <2>3. r \in R /\ r.name = t /\ r.attrs = o.attrs
    BY <1>2, <1>3 DEF R
  <2>4. /\ user' \in [User -> U] /\ user'[u].ev = user[u].ev /\ user'[u].uses = user[u].uses
        /\ user'[u].added = user[u].added /\ user'[u].at = "open" /\ \A d \in User : d # u => user'[d] = user[d]
    BY <1>2, <1>7 DEF Events!SetName, U
  <2>5. event'[user'[u].ev] = r
    BY <1>2, <2>2, <2>4, <1>6
  <2>6. u \notin shared => UpTo(u)'
    BY <1>4, <2>1, <2>3, <2>4, <2>5 DEF UpTo, t, o
  <2> HIDE DEF r
  <2> QED
    BY <1>1, <1>2, <2>1, <2>2, <2>3, <2>4, <2>6, UserStep DEF R, U
<1>8. CASE Events!Add(u)
  <2> DEFINE q == [o EXCEPT !.attrs = Append(@, t), !.nil = FALSE]
             r == IF o.name = <<>> THEN o ELSE q
  <2>1. user[u].at = "open" /\ user[u].added = 0 /\ UNCHANGED <<buf, overflow, shared, rendered>>
    BY <1>8 DEF Events!Add
  <2>2. event' = [event EXCEPT ![user[u].ev] = r]
    <3>1. CASE o.name = <<>>
      BY <1>5, <1>8, <3>1 DEF Events!Add, o
    <3>2. CASE o.name # <<>>
      BY <1>3, <1>8, <3>2 DEF Events!Add, o
    <3> QED
      BY <3>1, <3>2
  <2>3. q \in R /\ q.name = o.name /\ q.attrs = Append(o.attrs, t) /\ q.nil = FALSE
    <3>1. Append(o.attrs, t) \in Seq(Events!Tag)
      BY <1>2, <1>3 DEF R
    <3>2. \A s \in Seq(Events!Tag), f \in BOOLEAN :
             /\ [o EXCEPT !.attrs = s, !.nil = f] \in R /\ [o EXCEPT !.attrs = s, !.nil = f].name = o.name
             /\ [o EXCEPT !.attrs = s, !.nil = f].attrs = s /\ [o EXCEPT !.attrs = s, !.nil = f].nil = f
      BY <1>2 DEF R
    <3> QED
      BY <3>1, <3>2, Zenon
  <2>4. /\ user' \in [User -> U] /\ user'[u].ev = user[u].ev /\ user'[u].uses = user[u].uses
        /\ user'[u].added = 1 /\ user'[u].at = "open" /\ \A d \in User : d # u => user'[d] = user[d]
    BY <1>2, <1>8, <2>1 DEF Events!Add, U
  <2>5. event'[user'[u].ev] = r
    BY <1>2, <2>2, <2>4, <1>6
  <2> HIDE DEF q
  <2>6. u \notin shared => UpTo(u)'
    <3> SUFFICES ASSUME u \notin shared PROVE UpTo(u)'
      OBVIOUS
    <3>1. o.name = t /\ o.attrs = <<>>
      BY <1>4, <2>1 DEF UpTo, t, o
    <3>2. r = q /\ q.attrs = <<t>>
      BY <1>3, <2>3, <3>1
    <3> QED
      BY <2>3, <2>4, <2>5, <3>1, <3>2 DEF UpTo, t
  <2>7. r \in R
    BY <1>2, <2>3
  <2> HIDE DEF r
  <2> QED
    BY <1>1, <1>2, <2>1, <2>2, <2>4, <2>6, <2>7, UserStep DEF R, U
<1>9. CASE Events!Render(u)
  <2>1. user[u].at = "open" /\ UNCHANGED <<event, buf, overflow, shared>>
    BY <1>9 DEF Events!Render
  <2>2. /\ user' \in [User -> U] /\ user'[u].ev = user[u].ev /\ user'[u].uses = user[u].uses
        /\ user'[u].added = user[u].added /\ user'[u].at = "put" /\ \A d \in User : d # u => user'[d] = user[d]
    BY <1>2, <1>9 DEF Events!Render, U
  <2>3. /\ rendered'[u] = (IF o.name = <<>> \/ o.nil THEN [name |-> <<>>, attrs |-> <<>>]
                           ELSE [name |-> o.name, attrs |-> o.attrs])
        /\ DOMAIN rendered' = User /\ \A d \in User : d # u => rendered'[d] = rendered[d]
    BY <1>2, <1>9 DEF Events!Render, Events!Nothing, o
  <2>4. u \notin shared => UpTo(u)'
    <3> SUFFICES ASSUME u \notin shared PROVE UpTo(u)'
      OBVIOUS
    <3>1. o.name = t /\ (user[u].added = 0 => o.attrs = <<>>) /\ (user[u].added = 1 => o.attrs = <<t>> /\ ~o.nil)
      BY <1>4, <2>1 DEF UpTo, t, o
    <3>2. user[u].added \in {0, 1}
      BY <1>2 DEF U
    <3> QED
      BY <1>3, <2>2, <2>3, <3>1, <3>2 DEF UpTo, t
  <2>5. event' = [event EXCEPT ![user[u].ev] = o]
    BY <1>5, <2>1
  <2>6. /\ buf' \in Seq(Nat) /\ Len(buf') <= BufSize /\ \A k \in DOMAIN buf' : buf'[k] \in 1 .. Len(event)
        /\ overflow' \in [1 .. MaxEvents -> Nat] /\ \A k \in 1 .. MaxEvents : overflow'[k] > 0 => k <= Len(event)
        /\ UNCHANGED shared /\ user'[u].at # "idle" /\ DOMAIN rendered' = User
        /\ \A d \in User : d # u => user'[d] = user[d] /\ rendered'[d] = rendered[d]
    BY <1>2, <2>1, <2>2, <2>3
  <2> QED
    BY <1>1, <1>2, <2>2, <2>4, <2>5, <2>6, UserStep DEF R, U
<1>10. CASE Events!Put(u)
  <2> DEFINE r == [o EXCEPT !.name = <<>>, !.attrs = <<>>]
  <2>1. UNCHANGED <<shared, rendered>>
    BY <1>10 DEF Events!Put
  <2>2. event' = [event EXCEPT ![user[u].ev] = r]
    BY <1>10 DEF Events!Put, o
  <2>3. r \in R /\ r.name = <<>> /\ r.attrs = <<>>
    <3>1. \A s \in Seq(Events!Tag) : [o EXCEPT !.name = <<>>, !.attrs = s] \in R
                                       /\ [o EXCEPT !.name = <<>>, !.attrs = s].name = <<>>
                                       /\ [o EXCEPT !.name = <<>>, !.attrs = s].attrs = s
      BY <1>2 DEF R
    <3>2. <<>> \in Seq(Events!Tag)
      OBVIOUS
    <3> QED
      BY <3>1, <3>2
  <2>4. /\ user' \in [User -> U] /\ user'[u].ev = user[u].ev /\ user'[u].uses = user[u].uses
        /\ user'[u].at = "idle" /\ \A d \in User : d # u => user'[d] = user[d]
    BY <1>2, <1>10 DEF Events!Put, U
  <2>5. u \notin shared => UpTo(u)'
    BY <2>4 DEF UpTo
  <2>6. buf' \in Seq(Nat) /\ Len(buf') <= BufSize /\ \A k \in DOMAIN buf' : buf'[k] \in 1 .. Len(event)
    <3>1. CASE UNCHANGED buf
      BY <1>2, <3>1
    <3>2. CASE Len(buf) < BufSize /\ buf' = Append(buf, user[u].ev)
      <4>1. user[u].ev \in Nat /\ Len(buf) \in Nat
        BY <1>2
      <4> QED
        BY <1>2, <3>2, <4>1, LogBounds
    <3> QED
      BY <1>10, <3>1, <3>2 DEF Events!Put
  <2>7. overflow' \in [1 .. MaxEvents -> Nat] /\ \A k \in 1 .. MaxEvents : overflow'[k] > 0 => k <= Len(event)
    BY <1>2, <1>10, LogBounds DEF Events!Put
  <2> HIDE DEF r
  <2> QED
    BY <1>1, <1>2, <2>1, <2>2, <2>3, <2>4, <2>5, <2>6, <2>7, UserStep DEF R, U
<1> QED
  BY <1>7, <1>8, <1>9, <1>10

LEMMA LogInvStep == LogInv /\ program = "events" /\ [Next]_vars => LogInv'
<1>1. UNCHANGED logVars /\ LogInv => LogInv'
  BY DEF logVars, LogInv, LogTypes, Clean, Alone, Progress, UpTo
<1> QED
  BY <1>1, LogAlone, NewKeeps, UsersKeep DEF Events!Next

LEMMA LogInvGives == LogInv => Events!TypeOK /\ Events!RendersOwnUnlessShared
<1> SUFFICES ASSUME LogInv PROVE Events!TypeOK /\ Events!RendersOwnUnlessShared
  OBVIOUS
<1>1. Events!TypeOK
  <2>1. /\ DOMAIN event = 1 .. Len(event)
        /\ \A k \in DOMAIN event : event[k].name \in Events!Tag \cup {<<>>} /\ event[k].nil \in BOOLEAN
    <3> DEFINE R == [name : Events!Tag \cup {<<>>}, attrs : Seq(Events!Tag), nil : BOOLEAN]
    <3>1. event \in Seq(R)
      BY DEF LogInv, LogTypes
    <3>2. \A r \in R : r.name \in Events!Tag \cup {<<>>} /\ r.nil \in BOOLEAN
      OBVIOUS
    <3> HIDE DEF R
    <3>3. DOMAIN event = 1 .. Len(event) /\ \A k \in DOMAIN event : event[k] \in R
      BY <3>1
    <3> QED
      BY <3>2, <3>3
  <2> QED
    BY <2>1 DEF LogInv, LogTypes, Events!TypeOK, Events!Object
<1>2. ASSUME NEW u \in User \ shared, user[u].at = "put"
      PROVE  IF user[u].added = 1 THEN rendered[u] = Events!Own(u) ELSE rendered[u].attrs = <<>>
  <2>1. UpTo(u)
    BY DEF LogInv, Progress, UpTo
  <2>2. CASE user[u].added = 1
    BY <1>2, <2>1, <2>2 DEF UpTo, Events!Own, Events!MyTag
  <2>3. CASE user[u].added # 1
    BY <1>2, <2>1, <2>3 DEF UpTo
  <2> QED
    BY <2>2, <2>3
<1> QED
  BY <1>1, <1>2 DEF Events!RendersOwnUnlessShared

-----------------------------------------------------------------------------
(* The search.                                                             *)

\* The indexes name each pet under its name, its type and its birthday, and
\* nothing else; a list of the filter repeats nothing.
SearchInv ==
    /\ DOMAIN pets \subseteq Id /\ \A id \in DOMAIN pets : pets[id] \in Search!Pet
    /\ index \in Search!Index
    /\ \A n \in Name : index.names[n] = {id \in DOMAIN pets : pets[id].name = n}
    /\ \A t \in Type : index.types[t] = {id \in DOMAIN pets : pets[id].type = t}
    /\ \A d \in Day : index.birthday[d] = {id \in DOMAIN pets : pets[id].birthday = d}
    /\ filter \in [names : UNION {[1 .. k -> Name] : k \in 0 .. MaxLength},
                   types : UNION {[1 .. k -> Type] : k \in 0 .. MaxLength}, born : Search!DateRange]
    /\ Search!Distinct(filter.names) /\ Search!Distinct(filter.types)

LEMMA SearchAlone == program = "search" /\ [Next]_vars => [Search!Next]_searchVars
  BY DEF Next, AtRest, Only, Off, vars

LEMMA NoFilterIsOne ==
    /\ Search!NoFilter \in [names : UNION {[1 .. k -> Name] : k \in 0 .. MaxLength},
                            types : UNION {[1 .. k -> Type] : k \in 0 .. MaxLength}, born : Search!DateRange]
    /\ Search!Distinct(Search!NoFilter.names) /\ Search!Distinct(Search!NoFilter.types)
<1>1. 0 \in 0 .. MaxLength /\ 1 .. 0 = {}
  BY CountAssumption
<1>2. <<>> \in [1 .. 0 -> Name] /\ <<>> \in [1 .. 0 -> Type] /\ DOMAIN <<>> = {}
  BY <1>1
<1>3. /\ <<>> \in UNION {[1 .. k -> Name] : k \in 0 .. MaxLength}
      /\ <<>> \in UNION {[1 .. k -> Type] : k \in 0 .. MaxLength}
  BY <1>1, <1>2
<1>4. <<>> \in Search!DateRange
  BY DEF Search!DateRange
<1> QED
  BY <1>2, <1>3, <1>4 DEF Search!NoFilter, Search!Distinct

LEMMA SearchInvInit == Init /\ program = "search" => SearchInv
<1> SUFFICES ASSUME Search!Init PROVE SearchInv
  BY DEF Init, IdleServers
<1>1. DOMAIN pets = {} /\ index = Search!EmptyIndex /\ filter = Search!NoFilter
  BY DEF Search!Init
<1>2. /\ index \in Search!Index
      /\ \A n \in Name : index.names[n] = {}
      /\ \A t \in Type : index.types[t] = {}
      /\ \A d \in Day : index.birthday[d] = {}
  BY <1>1 DEF Search!EmptyIndex, Search!Index
<1> QED
  BY <1>1, <1>2, NoFilterIsOne DEF SearchInv

LEMMA SearchKeeps == ASSUME SearchInv, [Search!Next]_searchVars PROVE SearchInv'
<1>1. CASE UNCHANGED searchVars
  BY <1>1 DEF searchVars, SearchInv, Search!Distinct
<1>2. CASE Search!Ask
  <2>1. /\ filter' \in Search!Filter(MaxLength) /\ Search!Distinct(filter'.names) /\ Search!Distinct(filter'.types)
        /\ UNCHANGED <<pets, index>>
    BY <1>2 DEF Search!Ask
  <2> QED
    BY <2>1 DEF SearchInv, Search!Filter, Search!Distinct
<1>3. ASSUME NEW id \in Id, NEW p \in Search!Pet, Search!AddPet(id, p) PROVE SearchInv'
  <2>1. /\ id \notin DOMAIN pets /\ DOMAIN pets' = DOMAIN pets \cup {id} /\ pets'[id] = p
        /\ \A k \in DOMAIN pets : pets'[k] = pets[k]
        /\ index' = Search!Enter(index, id, p) /\ filter' = Search!NoFilter
    BY <1>3 DEF Search!AddPet
  <2>2. p.name \in Name /\ p.type \in Type /\ p.birthday \in Day
    BY DEF Search!Pet
  <2>3. /\ index'.names = [index.names EXCEPT ![p.name] = @ \cup {id}]
        /\ index'.types = [index.types EXCEPT ![p.type] = @ \cup {id}]
        /\ index'.birthday = [index.birthday EXCEPT ![p.birthday] = @ \cup {id}]
        /\ index' = [names |-> index'.names, types |-> index'.types, birthday |-> index'.birthday]
    BY <2>1 DEF Search!Enter
  <2>4. /\ index.names \in [Name -> SUBSET Id] /\ index.types \in [Type -> SUBSET Id]
        /\ index.birthday \in [Day -> SUBSET Id]
    BY DEF SearchInv, Search!Index
  <2>5. ASSUME NEW n \in Name PROVE index'.names[n] = {k \in DOMAIN pets' : pets'[k].name = n}
    <3>1. index.names[n] = {k \in DOMAIN pets : pets[k].name = n}
      BY DEF SearchInv
    <3> QED
      BY <2>1, <2>2, <2>3, <2>4, <3>1
  <2>6. ASSUME NEW t \in Type PROVE index'.types[t] = {k \in DOMAIN pets' : pets'[k].type = t}
    <3>1. index.types[t] = {k \in DOMAIN pets : pets[k].type = t}
      BY DEF SearchInv
    <3> QED
      BY <2>1, <2>2, <2>3, <2>4, <3>1
  <2>7. ASSUME NEW d \in Day PROVE index'.birthday[d] = {k \in DOMAIN pets' : pets'[k].birthday = d}
    <3>1. index.birthday[d] = {k \in DOMAIN pets : pets[k].birthday = d}
      BY DEF SearchInv
    <3> QED
      BY <2>1, <2>2, <2>3, <2>4, <3>1
  <2>8. index' \in Search!Index
    <3>0. ASSUME NEW S, NEW f \in [S -> SUBSET Id], NEW x \in S
          PROVE  [f EXCEPT ![x] = @ \cup {id}] \in [S -> SUBSET Id]
      OBVIOUS
    <3>1. /\ index'.names \in [Name -> SUBSET Id] /\ index'.types \in [Type -> SUBSET Id]
          /\ index'.birthday \in [Day -> SUBSET Id]
      BY <2>2, <2>3, <2>4, <3>0
    <3> QED
      BY <2>3, <3>1 DEF Search!Index
  <2>9. DOMAIN pets' \subseteq Id /\ \A k \in DOMAIN pets' : pets'[k] \in Search!Pet
    BY <2>1 DEF SearchInv
  <2> QED
    BY <2>1, <2>5, <2>6, <2>7, <2>8, <2>9, NoFilterIsOne DEF SearchInv, Search!Distinct
<1> QED
  BY <1>1, <1>2, <1>3 DEF Search!Next

LEMMA SearchInvStep == SearchInv /\ program = "search" /\ [Next]_vars => SearchInv'
  BY SearchAlone, SearchKeeps

\* A set whose elements are the same has one, or none.
LEMMA AtMostOne ==
    ASSUME NEW K, \A j, k \in K : j = k
    PROVE  (K = {} => Search!Cardinality(K) = 0) /\ (K # {} => Search!Cardinality(K) = 1)
<1>1. \A S : Search!Cardinality(S) = Cardinality(S)
  BY DEF Search!Cardinality, Cardinality
<1>2. CASE K = {}
  BY <1>1, <1>2, FS_EmptySet
<1>3. CASE K # {}
  <2>1. PICK k \in K : TRUE
    BY <1>3
  <2>2. K = {k}
    BY <2>1
  <2> QED
    BY <1>1, <1>3, <2>2, FS_Singleton
<1> QED
  BY <1>2, <1>3

\* A search counts an id once when its filter matches the pet, and else not.
LEMMA CountsOnce ==
    ASSUME SearchInv, NEW id \in Id
    PROVE  /\ Search!ByNames(index, filter, id) =
                IF id \in DOMAIN pets /\ (\E k \in DOMAIN filter.names : filter.names[k] = pets[id].name) THEN 1 ELSE 0
           /\ Search!ByTypes(index, filter, id) =
                IF id \in DOMAIN pets /\ (\E k \in DOMAIN filter.types : filter.types[k] = pets[id].type) THEN 1 ELSE 0
           /\ Search!ByBirthdays(index, filter, id) =
                IF id \in DOMAIN pets /\ filter.born # <<>>
                     /\ filter.born[1] <= pets[id].birthday /\ pets[id].birthday < filter.born[2] THEN 1 ELSE 0
<1>1. ASSUME TRUE
      PROVE  Search!ByNames(index, filter, id) =
                IF id \in DOMAIN pets /\ (\E k \in DOMAIN filter.names : filter.names[k] = pets[id].name) THEN 1 ELSE 0
  <2> DEFINE K == {k \in DOMAIN filter.names : id \in index.names[filter.names[k]]}
  <2>1. \A k \in DOMAIN filter.names : filter.names[k] \in Name
    BY DEF SearchInv
  <2>2. \A k \in DOMAIN filter.names : k \in K <=> id \in DOMAIN pets /\ pets[id].name = filter.names[k]
    BY <2>1 DEF SearchInv
  <2>3. \A j, k \in K : j = k
    BY <2>2 DEF SearchInv, Search!Distinct
  <2>4. Search!ByNames(index, filter, id) = Search!Cardinality(K)
    BY DEF Search!ByNames
  <2>5. K # {} <=> id \in DOMAIN pets /\ (\E k \in DOMAIN filter.names : filter.names[k] = pets[id].name)
    BY <2>2
  <2> HIDE DEF K
  <2>6. (K = {} => Search!Cardinality(K) = 0) /\ (K # {} => Search!Cardinality(K) = 1)
    BY <2>3, AtMostOne
  <2> QED
    BY <2>4, <2>5, <2>6
<1>2. ASSUME TRUE
      PROVE  Search!ByTypes(index, filter, id) =
                IF id \in DOMAIN pets /\ (\E k \in DOMAIN filter.types : filter.types[k] = pets[id].type) THEN 1 ELSE 0
  <2> DEFINE K == {k \in DOMAIN filter.types : id \in index.types[filter.types[k]]}
  <2>1. \A k \in DOMAIN filter.types : filter.types[k] \in Type
    BY DEF SearchInv
  <2>2. \A k \in DOMAIN filter.types : k \in K <=> id \in DOMAIN pets /\ pets[id].type = filter.types[k]
    BY <2>1 DEF SearchInv
  <2>3. \A j, k \in K : j = k
    BY <2>2 DEF SearchInv, Search!Distinct
  <2>4. Search!ByTypes(index, filter, id) = Search!Cardinality(K)
    BY DEF Search!ByTypes
  <2>5. K # {} <=> id \in DOMAIN pets /\ (\E k \in DOMAIN filter.types : filter.types[k] = pets[id].type)
    BY <2>2
  <2> HIDE DEF K
  <2>6. (K = {} => Search!Cardinality(K) = 0) /\ (K # {} => Search!Cardinality(K) = 1)
    BY <2>3, AtMostOne
  <2> QED
    BY <2>4, <2>5, <2>6
<1>3. CASE filter.born = <<>>
  BY <1>1, <1>2, <1>3 DEF Search!ByBirthdays
<1>4. CASE filter.born # <<>>
  <2> DEFINE K == {d \in Day : filter.born[1] <= d /\ d < filter.born[2] /\ id \in index.birthday[d]}
  <2>1. id \in DOMAIN pets => pets[id].birthday \in Day
    BY DEF SearchInv, Search!Pet
  <2>2. \A d \in K : id \in DOMAIN pets /\ d = pets[id].birthday
    BY DEF SearchInv
  <2>3. \A j, k \in K : j = k
    BY <2>2
  <2>4. Search!ByBirthdays(index, filter, id) = Search!Cardinality(K)
    BY <1>4 DEF Search!ByBirthdays
  <2>5. K # {} <=> id \in DOMAIN pets /\ filter.born[1] <= pets[id].birthday /\ pets[id].birthday < filter.born[2]
    <3>1. ASSUME id \in DOMAIN pets PROVE id \in index.birthday[pets[id].birthday]
      BY <2>1, <3>1 DEF SearchInv
    <3> QED
      BY <2>1, <2>2, <3>1
  <2> HIDE DEF K
  <2>6. (K = {} => Search!Cardinality(K) = 0) /\ (K # {} => Search!Cardinality(K) = 1)
    BY <2>3, AtMostOne
  <2>7. Search!ByBirthdays(index, filter, id) =
                IF id \in DOMAIN pets /\ filter.born # <<>>
                     /\ filter.born[1] <= pets[id].birthday /\ pets[id].birthday < filter.born[2] THEN 1 ELSE 0
    BY <1>4, <2>4, <2>5, <2>6
  <2> QED
    BY <1>1, <1>2, <2>7
<1> QED
  BY <1>3, <1>4

\* The number of filters of a request.
LEMMA FiltersAre ==
    Search!NumFilters(filter) = (IF filter.names # <<>> THEN 1 ELSE 0) + (IF filter.types # <<>> THEN 1 ELSE 0)
                                  + (IF filter.born # <<>> THEN 1 ELSE 0)
<1> DEFINE A == IF filter.names # <<>> THEN {"names"} ELSE {}
           B == IF filter.types # <<>> THEN A \cup {"types"} ELSE A
           C == IF filter.born # <<>> THEN B \cup {"born"} ELSE B
<1>1. {x \in {"names", "types", "born"} : filter[x] # <<>>} = C
  OBVIOUS
<1>2. Search!NumFilters(filter) = Cardinality(C)
  <2>1. \A S : Search!Cardinality(S) = Cardinality(S)
    BY DEF Search!Cardinality, Cardinality
  <2> HIDE DEF C
  <2> QED
    BY <1>1, <2>1 DEF Search!NumFilters
<1>3. "types" \notin A /\ "born" \notin B
  OBVIOUS
<1>4. IsFiniteSet(A) /\ Cardinality(A) = IF filter.names # <<>> THEN 1 ELSE 0
  BY FS_EmptySet, FS_Singleton
<1> HIDE DEF A
<1>5. IsFiniteSet(B) /\ Cardinality(B) = (IF filter.types # <<>> THEN Cardinality(A) + 1 ELSE Cardinality(A))
  BY <1>3, <1>4, FS_AddElement
<1> HIDE DEF B
<1>6. Cardinality(C) = (IF filter.born # <<>> THEN Cardinality(B) + 1 ELSE Cardinality(B))
  BY <1>3, <1>5, FS_AddElement
<1> HIDE DEF C
<1> QED
  BY <1>2, <1>4, <1>5, <1>6

LEMMA SearchInvGives == SearchInv => Search!FoundIsMatching
<1> SUFFICES ASSUME SearchInv, filter # Search!NoFilter
             PROVE  Search!Found(index, filter) = {id \in DOMAIN pets : Search!Matches(pets[id], filter)}
  BY DEF Search!FoundIsMatching
<1>1. filter.names # <<>> \/ filter.types # <<>> \/ filter.born # <<>>
  BY DEF SearchInv, Search!NoFilter
<1>2. DOMAIN <<>> = {}
  OBVIOUS
<1>3. ASSUME NEW id \in Id
      PROVE  id \in Search!Found(index, filter) <=> id \in DOMAIN pets /\ Search!Matches(pets[id], filter)
  <2> DEFINE n == \E k \in DOMAIN filter.names : filter.names[k] = pets[id].name
             t == \E k \in DOMAIN filter.types : filter.types[k] = pets[id].type
             b == filter.born[1] <= pets[id].birthday /\ pets[id].birthday < filter.born[2]
             in == id \in DOMAIN pets
  <2>1. /\ Search!ByNames(index, filter, id) = IF in /\ n THEN 1 ELSE 0
        /\ Search!ByTypes(index, filter, id) = IF in /\ t THEN 1 ELSE 0
        /\ Search!ByBirthdays(index, filter, id) = IF in /\ filter.born # <<>> /\ b THEN 1 ELSE 0
    BY CountsOnce
  <2>2. (filter.names = <<>> => ~n) /\ (filter.types = <<>> => ~t)
    BY <1>2
  <2>3. Search!Matches(pets[id], filter) <=>
          (filter.names # <<>> => n) /\ (filter.types # <<>> => t) /\ (filter.born # <<>> => b)
    BY DEF Search!Matches
  <2>4. id \in Search!Found(index, filter) <=>
          Search!ByNames(index, filter, id) + Search!ByTypes(index, filter, id) + Search!ByBirthdays(index, filter, id)
             >= Search!NumFilters(filter)
    BY DEF Search!Found
  <2> HIDE DEF n, t, b, in
  <2>5. CASE in
    BY <1>1, <2>1, <2>2, <2>3, <2>4, <2>5, FiltersAre DEF in
  <2>6. CASE ~in
    BY <1>1, <2>1, <2>4, <2>6, FiltersAre DEF in
  <2> QED
    BY <2>5, <2>6
<1>4. Search!Found(index, filter) \subseteq Id /\ DOMAIN pets \subseteq Id
  BY DEF Search!Found, SearchInv
<1> QED
  BY <1>3, <1>4

-----------------------------------------------------------------------------
(* All programs.                                                           *)

\* The invariant of the program that runs.
Inv ==
    /\ program \in Program
    /\ program = "stop" => StopP!IInv
    /\ program = "lb" => LbP!IInv
    /\ program = "cli" => CliInv
    /\ program = "deployer" => DeployInv
    /\ program = "service" => SvcInv
    /\ program = "agent" => AgentInv
    /\ program = "signals" => SigInv
    /\ program = "ssh" => SshInv
    /\ program = "ping" => PingInv
    /\ program = "demo" => DemoInv
    /\ program = "scan" => ScanInv
    /\ program = "retry" => RetryInv
    /\ program = "quotes" => QuotesInv
    /\ program = "rpc" => RpcInv
    /\ program = "stream" => StreamInv
    /\ program = "events" => LogInv
    /\ program = "search" => SearchInv

LEMMA InvInit == Init => Inv
<1>1. Init => program \in Program
  BY DEF Init
<1> QED
  BY <1>1, StopInvInit, LbInvInit, CliInvInit, DeployInvInit, SvcInvInit, AgentInvInit, SigInvInit, SshInvInit, PingInvInit,
     DemoInvInit, ScanInvInit, RetryInvInit, QuotesInvInit, RpcInvInit, StreamInvInit, LogInvInit, SearchInvInit DEF Inv

LEMMA InvStep == Inv /\ [Next]_vars => Inv'
<1> SUFFICES ASSUME Inv, [Next]_vars PROVE Inv'
  OBVIOUS
<1>1. program' = program /\ program \in Program
  BY ProgramStays DEF Inv
<1>2. program = "stop" => StopP!IInv'
  BY StopInvStep DEF Inv
<1>3. program = "lb" => LbP!IInv'
  BY LbInvStep DEF Inv
<1>4. program = "cli" => CliInv'
  BY CliInvStep DEF Inv
<1>5. program = "deployer" => DeployInv'
  BY DeployInvStep DEF Inv
<1>6. program = "service" => SvcInv'
  BY SvcInvStep DEF Inv
<1>7. program = "agent" => AgentInv'
  BY AgentInvStep DEF Inv
<1>8. program = "signals" => SigInv'
  BY SigInvStep DEF Inv
<1>9. program = "ssh" => SshInv'
  BY SshInvStep DEF Inv
<1>10. program = "ping" => PingInv'
  BY PingInvStep DEF Inv
<1>11. program = "demo" => DemoInv'
  BY DemoInvStep DEF Inv
<1>12. program = "scan" => ScanInv'
  BY ScanInvStep DEF Inv
<1>13. program = "retry" => RetryInv'
  BY RetryInvStep DEF Inv
<1>14. program = "quotes" => QuotesInv'
  BY QuotesInvStep DEF Inv
<1>15. program = "rpc" => RpcInv'
  BY RpcInvStep DEF Inv
<1>16. program = "stream" => StreamInv'
  BY StreamInvStep DEF Inv
<1>17. program = "events" => LogInv'
  BY LogInvStep DEF Inv
<1>18. program = "search" => SearchInv'
  BY SearchInvStep DEF Inv
<1> QED
  BY <1>1, <1>2, <1>3, <1>4, <1>5, <1>6, <1>7, <1>8, <1>9, <1>10, <1>11, <1>12, <1>13, <1>14, <1>15, <1>16, <1>17, <1>18 DEF Inv

\* The invariant holds in every state of every program.
THEOREM InvInvariant == Spec => []Inv
  BY InvInit, InvStep, PTL DEF Spec

\* Type correctness: the variables of every program stay within the values that
\* its code gives them.
THEOREM TypeCorrect == Spec => []TypeOK
<1>1. Inv => TypeOK
  <2> SUFFICES ASSUME Inv PROVE TypeOK
    OBVIOUS
  <2>1. program = "stop" => Stop!TypeOK
    BY StopInvGives DEF Inv
  <2>2. program = "lb" => Lb!TypeOK
    BY LbInvGives DEF Inv
  <2>3. program = "cli" => Cli!TypeOK
    BY CliInvGives DEF Inv
  <2>4. program = "deployer" => Deploy!TypeOK
    BY DEF Inv, DeployInv
  <2>5. program = "service" => Svc!TypeOK
    BY DEF Inv, SvcInv
  <2>6. program = "agent" => Agents!TypeOK
    BY AgentInvGives DEF Inv
  <2>7. program = "signals" => Sig!TypeOK
    BY DEF Inv, SigInv
  <2>8. program = "ssh" => Ssh!TypeOK
    BY DEF Inv, SshInv
  <2>9. program = "ping" => Ping!TypeOK
    BY DEF Inv, PingInv
  <2>10. program = "demo" => Demo!TypeOK
    BY DEF Inv, DemoInv
  <2>11. program = "scan" => Scan!TypeOK
    BY ScanTyped DEF Inv
  <2>12. program = "retry" => Retry!TypeOK
    BY DEF Inv, RetryInv
  <2>13. program = "quotes" => Quotes!TypeOK
    BY DEF Inv, QuotesInv, Slotted
  <2>14. program = "rpc" => Rpc!TypeOK
    BY DEF Inv, RpcInv
  <2>15. program = "stream" => Stream!TypeOK
    BY StreamInvGives DEF Inv
  <2>16. program = "events" => Events!TypeOK
    BY LogInvGives DEF Inv
  <2>17. CASE program = "stop"
    BY <2>1, <2>17 DEF TypeOK
  <2>18. CASE program = "lb"
    BY <2>2, <2>18 DEF TypeOK
  <2>19. CASE program = "cli"
    BY <2>3, <2>19 DEF TypeOK
  <2>20. CASE program = "deployer"
    BY <2>4, <2>20 DEF TypeOK
  <2>21. CASE program = "service"
    BY <2>5, <2>21 DEF TypeOK
  <2>22. CASE program = "agent"
    BY <2>6, <2>22 DEF TypeOK
  <2>23. CASE program = "signals"
    BY <2>7, <2>23 DEF TypeOK
  <2>24. CASE program = "ssh"
    BY <2>8, <2>24 DEF TypeOK
  <2>25. CASE program = "ping"
    BY <2>9, <2>25 DEF TypeOK
  <2>26. CASE program = "demo"
    BY <2>10, <2>26 DEF TypeOK
  <2>27. CASE program = "scan"
    BY <2>11, <2>27 DEF TypeOK
  <2>28. CASE program = "retry"
    BY <2>12, <2>28 DEF TypeOK
  <2>29. CASE program = "quotes"
    BY <2>13, <2>29 DEF TypeOK
  <2>30. CASE program = "rpc"
    BY <2>14, <2>30 DEF TypeOK
  <2>31. CASE program = "stream"
    BY <2>15, <2>31 DEF TypeOK
  <2>32. CASE program = "events"
    BY <2>16, <2>32 DEF TypeOK
  <2>33. CASE program = "search"
    BY <2>33 DEF TypeOK
  <2> QED
    BY <2>17, <2>18, <2>19, <2>20, <2>21, <2>22, <2>23, <2>24, <2>25, <2>26, <2>27, <2>28, <2>29, <2>30, <2>31, <2>32, <2>33 DEF Inv, Program
<1> QED
  BY <1>1, InvInvariant, PTL

\* However the cleanup of a program and its failures interleave, an exit says
\* only what was done: the hosts that remoteUname and ping report, the package
\* that expect installs, the signal that ends signals, the namespace that
\* workloads deletes, the spans that the pet store and the counts that the
\* telemetry demonstrations push (their main functions and deferred calls).
THEOREM HonestExits == Spec => []ExitsAreHonest
<1>1. Inv => ExitsAreHonest
  BY ScanInvGives, PingInvGives, SshInvGives, SvcInvGives, DemoInvGives
     DEF Inv, ExitsAreHonest, SigInv, DeployInv
<1> QED
  BY <1>1, InvInvariant, PTL

\* Whatever installs of the agent overlap, one that succeeded left a package in
\* place (agent/service/service.go, Install and its renames).
THEOREM PackageStays == Spec => []PackageIsThere
<1>1. Inv => PackageIsThere
  BY AgentInvGives DEF Inv, PackageIsThere
<1> QED
  BY <1>1, InvInvariant, PTL

\* An event that no other goroutine got hold of is rendered with its user's
\* name and attributes, and nothing of an earlier use (server/log/log.go).
THEOREM RendersOwn == Spec => []RendersOwnUnlessShared
<1>1. Inv => RendersOwnUnlessShared
  BY LogInvGives DEF Inv, RendersOwnUnlessShared
<1> QED
  BY <1>1, InvInvariant, PTL

\* The counters of a method are the calls that came in, that are at work and
\* that failed, and an answered call has a span that says whether it did, for
\* any number of calls (server/server.go and its deferred functions).
THEOREM CallsAreAccounted == Spec => []CallsAccounted
<1>1. Inv => CallsAccounted
  BY RpcInvGives DEF Inv, CallsAccounted
<1> QED
  BY <1>1, InvInvariant, PTL

\* A search that its caller read to the end returned every pet, in order, or an
\* error last, however many pets there are (client/client.go SearchPets).
THEOREM StreamsAreHonest == Spec => []StreamIsHonest
<1>1. Inv => StreamIsHonest
  BY StreamInvGives DEF Inv, StreamIsHonest
<1> QED
  BY <1>1, InvInvariant, PTL

\* No more failures in a row pass the circuit breaker than its threshold and
\* one interval allow, however slow or fast the rounds are (gobreaker's counts).
THEOREM FewFailures == Spec => []FailuresAreBounded
<1>1. Inv => FailuresAreBounded
  BY RetryInvGives DEF Inv, FailuresAreBounded
<1> QED
  BY <1>1, InvInvariant, PTL

\* The slots that the quote server has taken are those of the connections it
\* serves, for any number of clients and slots.
THEOREM SlotsServed == Spec => []SlotsAreServed
<1>1. Inv => SlotsAreServed
  BY QuotesInvGives DEF Inv, SlotsAreServed
<1> QED
  BY <1>1, InvInvariant, PTL

\* Counting the ids that the indexes name finds exactly the pets that every
\* filter matches, for any pets and any lists without repetition (mem.go).
THEOREM SearchFinds == Spec => []FoundIsMatching
<1>1. Inv => FoundIsMatching
  BY SearchInvGives DEF Inv, FoundIsMatching
<1> QED
  BY <1>1, InvInvariant, PTL

\* Between calls the mux routes exactly the open, registered pools, no pool is
\* closed twice, and a command of the command line takes effect once at most,
\* which its exit tells (lb/server, lb/client/cli).
THEOREM SoundPools == Spec => []PoolsAreSound
<1>1. Inv => PoolsAreSound
  BY LbInvGives, CliInvGives DEF Inv, PoolsAreSound
<1> QED
  BY <1>1, InvInvariant, PTL

\* A closed channel holds Stop, or its subscriber has it, and is in no list
\* (emergency/es.go sendStop).
THEOREM ClosedAreStopped == Spec => []ClosedMeansStopped
<1>1. Inv => ClosedMeansStopped
  BY StopInvGives DEF Inv, ClosedMeansStopped
<1> QED
  BY <1>1, InvInvariant, PTL

\* A subscriber that was not stopped is in the list of its name, or about to be
\* told (emergency/es.go Cancel, sendStop).
THEOREM StaysRegistered == Spec => []RegisteredUntilStopped
<1>1. Inv => RegisteredUntilStopped
  BY StopInvGives DEF Inv, RegisteredUntilStopped
<1> QED
  BY <1>1, InvInvariant, PTL

\* Between two rounds of the loop no subscriber of a stopped name was passed
\* over (emergency/es.go loop, Subscribe).
THEOREM StopReachesAll == Spec => []StopReachesSubscribers
<1>1. Inv => StopReachesSubscribers
  BY StopInvGives DEF Inv, StopReachesSubscribers
<1> QED
  BY <1>1, InvInvariant, PTL

\* No step deletes a namespace of somebody else, publishes figures older than
\* those before, or routes a request to a pool that is not registered
\* (workloads, agent.go, lb/server).
THEOREM NothingUndone == Spec => NoStepUndoes
<1>1. Inv /\ [Next]_vars => [namespace = "other" => namespace' = "other"]_(Deploy!depVars)
  BY DeployOthers DEF Inv, depVars, Deploy!depVars
<1>2. Inv /\ [Next]_vars => [\A f \in Agents!Figure : sample'[f] >= sample[f]]_(Agents!agentVars)
  BY AgentAdvances DEF Inv, agentVars, Agents!agentVars
<1>3. Inv /\ [Next]_vars =>
        [\A r \in Request : rq[r] = NoPool /\ rq'[r] # NoPool =>
            \/ \E k \in Pattern : pools[k] = rq'[r]
            \/ mu # Lock /\ state[rq'[r]] = "closed"]_(Lb!vars)
  BY LbRoutes DEF Inv
<1> QED
  BY <1>1, <1>2, <1>3, InvInvariant, PTL
     DEF Spec, NoStepUndoes, Deploy!OthersNamespaceKept, Agents!SamplesAdvance, Lb!RoutedToRegistered
=============================================================================
