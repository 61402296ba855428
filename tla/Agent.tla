------------------------------- MODULE Agent -------------------------------
(***************************************************************************)
(* The system agent: clients send packages to install, each request served *)
(* by a goroutine of its own with no lock among them, while a loop collects *)
(* the figures of the machine for whoever reads them.  All the requests of *)
(* the model install a package of the same name.                           *)
(***************************************************************************)
EXTENDS Naturals, FiniteSets

CONSTANTS
    Install,        \* the requests
    MaxRounds       \* bound: rounds of the collecting loop

VARIABLES
    installer,  \* what the client of each request does: "sends", "waits", "done", "failed", "gone"
    handlerAt,  \* where the agent's handler of the request is
    temp,       \* the requests whose temporary directory exists
    installed,  \* what is in the final directory: {}, the package of one request, or remains
    started,    \* what each request's shell command found to start
    round,      \* of the collecting loop
    collector,  \* the rounds whose goroutines still run, for each of the two figures
    sample      \* the round that the published figures are of

agentVars == <<installer, handlerAt, temp, installed, started, round, collector, sample>>

installVars == <<installer, handlerAt, temp, installed, started>>
perfVars == <<round, collector, sample>>

Figure == {"cpu", "mem"}

\* New starts the loop after a first collection of both.
Init ==
    /\ installer = [r \in Install |-> "sends"]
    /\ handlerAt = [r \in Install |-> "none"]
    /\ temp = {} /\ installed \in {{}, {"older"}}
    /\ started = [r \in Install |-> {}]
    /\ round = 1
    /\ collector = [f \in Figure |-> {}] /\ sample = [f \in Figure |-> 1]

\* The places where a handler ends with an error: before it touched the final
\* directory, at Rename, and after it.
Failure == {"error", "unmoved", "unstarted"}

Goto(r, at) == handlerAt' = [handlerAt EXCEPT ![r] = at]

\* The client of a request sends it: the arguments and the file were in order.
ClientSends(r) ==
    /\ installer[r] = "sends"
    /\ installer' = [installer EXCEPT ![r] = "waits"]
    /\ Goto(r, "read")
    /\ UNCHANGED <<temp, installed, started, perfVars>>

ClientRefuses(r) ==
    /\ installer[r] = "sends"
    /\ installer' = [installer EXCEPT ![r] = "failed"]
    /\ UNCHANGED <<handlerAt, temp, installed, started, perfVars>>

\* The user interrupts the client, which cancels the request's context.
ClientLeaves(r) ==
    /\ installer[r] = "waits"
    /\ installer' = [installer EXCEPT ![r] = "gone"]
    /\ UNCHANGED <<handlerAt, temp, installed, started, perfVars>>

\* getInstallReq: a body that cannot be read or does not validate.
ReadRequest(r) ==
    /\ handlerAt[r] = "read"
    /\ Goto(r, "unpack") \/ Goto(r, "error")
    /\ UNCHANGED <<installer, temp, installed, started, perfVars>>

\* unpack: on an error the temporary directory stays.
Unpack(r) ==
    /\ handlerAt[r] = "unpack"
    /\ temp' = temp \cup {r}
    /\ Goto(r, "stat") \/ Goto(r, "error")
    /\ UNCHANGED <<installer, installed, started, perfVars>>

\* migrate: MkdirAll, and Stat, which may fail on what is there.
Stat(r) ==
    /\ handlerAt[r] = "stat"
    /\ \/ Goto(r, "error") \/ Goto(r, "rename")
       \/ installed # {} /\ Goto(r, "remove")
    /\ UNCHANGED <<installer, temp, installed, started, perfVars>>

\* The error of RemoveAll is dropped: it may have removed nothing, or a part.
RemoveAll(r) ==
    /\ handlerAt[r] = "remove"
    /\ installed' \in IF installed = {} THEN {{}} ELSE {{}, installed, {"rest"}}
    /\ Goto(r, "rename")
    /\ UNCHANGED <<installer, temp, started, perfVars>>

\* Mistake: the error of Rename is dropped too.
RenameUnchecked(r) ==
    /\ handlerAt[r] = "rename" /\ Goto(r, "start")
    /\ \/ installed = {} /\ installed' = {r} /\ temp' = temp \ {r}
       \/ UNCHANGED <<installed, temp>>
    /\ UNCHANGED <<installer, started, perfVars>>

\* Rename never replaces a directory, and may fail for any reason.
Rename(r) ==
    /\ handlerAt[r] = "rename"
    /\ \/ installed = {} /\ installed' = {r} /\ temp' = temp \ {r} /\ Goto(r, "start")
       \/ Goto(r, "unmoved") /\ UNCHANGED <<installed, temp>>
    /\ UNCHANGED <<installer, started, perfVars>>

\* startProgram: a shell starts what it finds under the final path, in the
\* background, and returns; once the client is gone it may be killed before.
StartProgram(r) ==
    /\ handlerAt[r] = "start"
    /\ \/ Goto(r, "unstarted") /\ UNCHANGED started
       \/ Goto(r, "ok") /\ started' = [started EXCEPT ![r] = installed]
       \/ Goto(r, "ok") /\ installer[r] = "gone" /\ UNCHANGED started
    /\ UNCHANGED <<installer, temp, installed, perfVars>>

\* Client.Install reads the status and, of a failure, the message.
ClientReceives(r) ==
    /\ installer[r] = "waits" /\ handlerAt[r] \in {"ok"} \cup Failure
    /\ installer' = [installer EXCEPT ![r] = IF handlerAt[r] = "ok" THEN "done" ELSE "failed"]
    /\ UNCHANGED <<handlerAt, temp, installed, started, perfVars>>

-----------------------------------------------------------------------------
(* perfLoop.                                                               *)

\* Mistake: the loop does not wait for the collectors of the last round.
NewRoundUnwaited ==
    /\ round < MaxRounds
    /\ round' = round + 1
    /\ collector' = [f \in Figure |-> collector[f] \cup {round'}]
    /\ UNCHANGED <<sample, installVars>>

\* Ten seconds later, and after wg.Wait.
NewRound ==
    /\ round < MaxRounds /\ \A f \in Figure : collector[f] = {}
    /\ round' = round + 1
    /\ collector' = [f \in Figure |-> {round'}]
    /\ UNCHANGED <<sample, installVars>>

\* collectCPU and collectMem store a new value, or leave the older one when they
\* fail or their context expires.
Collect(f) ==
    /\ \E k \in collector[f] :
         /\ sample' \in {sample, [sample EXCEPT ![f] = k]}
         /\ collector' = [collector EXCEPT ![f] = @ \ {k}]
    /\ UNCHANGED <<round, installVars>>

-----------------------------------------------------------------------------
Next ==
    \/ \E r \in Install :
         \/ ClientSends(r) \/ ClientRefuses(r) \/ ClientLeaves(r) \/ ReadRequest(r) \/ Unpack(r)
         \/ Stat(r) \/ RemoveAll(r) \/ Rename(r) \/ StartProgram(r) \/ ClientReceives(r)
    \/ NewRound
    \/ \E f \in Figure : Collect(f)

Spec == Init /\ [][Next]_agentVars

-----------------------------------------------------------------------------
(* Properties.                                                             *)

\* The type invariant.
TypeOK ==
    /\ installer \in [Install -> {"sends", "waits", "done", "failed", "gone"}]
    /\ handlerAt \in [Install -> {"none", "read", "unpack", "stat", "remove", "rename", "start", "ok"} \cup Failure]
    /\ temp \subseteq Install
    /\ installed \subseteq Install \cup {"older", "rest"} /\ Cardinality(installed) <= 1
    /\ \A r \in Install : started[r] \subseteq Install \cup {"older", "rest"}
    /\ round \in 1 .. MaxRounds /\ collector \in [Figure -> SUBSET (1 .. MaxRounds)]
    /\ sample \in [Figure -> 1 .. MaxRounds]

\* What is in the final directory when one request was moved there is lost only
\* to another that is between RemoveAll and Rename, or whose Rename failed, which
\* its client is told (migrate: no lock, and the error of RemoveAll dropped).
LossIsReported ==
    (\E r \in Install : handlerAt[r] \in {"start", "ok"}) =>
        installed \cap Install # {} \/ \E q \in Install : handlerAt[q] \in {"rename", "unmoved"}

\* No other request has gone past Stat.
Alone(r) == \A q \in Install \ {r} : handlerAt[q] \in {"none", "read", "unpack", "stat", "error"}

\* An install that succeeds with no other in migrate, before or since, has
\* installed its own package and started it (Install).
AloneInstalls ==
    \A r \in Install : installer[r] = "done" /\ Alone(r) => installed = {r} /\ started[r] = {r}

\* What an install of the agent leaves is there, or its loss is some client's error.
PackageIsThere == LossIsReported /\ AloneInstalls

\* "Install installs a package on the machine and starts it": an install that
\* succeeds has started its own package (the comment on Install).
StartsItsPackage == \A r \in Install : installer[r] = "done" => started[r] = {r}

\* The published figures never go back to those of an earlier round.
SamplesAdvance == [][\A f \in Figure : sample'[f] >= sample[f]]_agentVars
=============================================================================
