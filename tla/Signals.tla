------------------------------ MODULE Signals ------------------------------
(***************************************************************************)
(* signals: main works through its iterations while a goroutine receives   *)
(* signals and starts another goroutine for each one that ends the process *)
(* after the work has been cancelled.                                      *)
(***************************************************************************)
EXTENDS Naturals, FiniteSets

CONSTANTS
    Iterations,     \* the flag n
    MaxSignals      \* bound: signals that are sent

VARIABLES
    sigSent,        \* how many signals were sent
    sigCh,          \* the channel of capacity one: "none" or the signal in it
    handler,        \* the goroutine of each signal that ends the process
    cancelled,      \* the context is cancelled
    exitLock,       \* who holds it: 0, "main" is MaxSignals + 1, or a handler
    iter,           \* iterations that main has finished
    sigMain         \* where main is; "exit0", "exit1" and "dump" end the process

sigVars == <<sigSent, sigCh, handler, cancelled, exitLock, iter, sigMain>>

Signal == {"hup", "term", "quit"}
Handler == 1 .. MaxSignals
Main == MaxSignals + 1

Init ==
    /\ sigSent = 0 /\ sigCh = "none"
    /\ handler = [k \in Handler |-> [at |-> "none", sig |-> "term", early |-> FALSE]]
    /\ cancelled = FALSE /\ exitLock = 0 /\ iter = 0
    /\ sigMain = "before"

Ended == sigMain \in {"exit0", "exit1", "dump"}

\* A signal for which the channel has no room is dropped.
SendSignal ==
    /\ sigSent < MaxSignals
    /\ sigSent' = sigSent + 1
    /\ IF sigCh = "none" THEN sigCh' \in Signal ELSE UNCHANGED sigCh
    /\ UNCHANGED <<handler, cancelled, exitLock, iter, sigMain>>

Idle == {k \in Handler : handler[k].at = "none"}

\* The receiving goroutine.  SIGHUP changes nothing.
ReceiveSignal ==
    /\ sigCh # "none"
    /\ sigCh' = "none"
    /\ IF sigCh = "hup" THEN UNCHANGED handler
       ELSE \E k \in Idle : handler' = [handler EXCEPT ![k].at = "lock", ![k].sig = sigCh]
    /\ UNCHANGED <<sigSent, cancelled, exitLock, iter, sigMain>>

HandlerLocks(k) ==
    /\ handler[k].at = "lock" /\ exitLock = 0
    /\ exitLock' = k /\ cancelled' = TRUE
    /\ handler' = [handler EXCEPT ![k].at = "wait"]
    /\ UNCHANGED <<sigSent, sigCh, iter, sigMain>>

\* Mistake: the handler does not wait for the work.
HandlerGoesOn(k) ==
    /\ handler[k].at = "wait"
    /\ handler' = [handler EXCEPT ![k].at = "exit"]
    /\ UNCHANGED <<sigSent, sigCh, cancelled, exitLock, iter, sigMain>>

\* wg.Wait, which a handler passes as well while main has not called wg.Add.
HandlerWaited(k) ==
    /\ handler[k].at = "wait" /\ sigMain # "work"
    /\ handler' = [handler EXCEPT ![k].at = "exit", ![k].early = sigMain = "before"]
    /\ UNCHANGED <<sigSent, sigCh, cancelled, exitLock, iter, sigMain>>

HandlerExits(k) ==
    /\ handler[k].at = "exit"
    /\ sigMain' = IF handler[k].sig = "quit" THEN "dump" ELSE "exit1"
    /\ handler' = [handler EXCEPT ![k].at = IF sigMain = "work" THEN "cut" ELSE "exit"]  \* for ExitHonest
    /\ UNCHANGED <<sigSent, sigCh, cancelled, exitLock, iter>>

Begin ==
    /\ sigMain = "before"
    /\ sigMain' = "work"
    /\ UNCHANGED <<sigSent, sigCh, handler, cancelled, exitLock, iter>>

\* An iteration ends by its timer, also when the context is already cancelled
\* but both are ready.
Iterate ==
    /\ sigMain = "work" /\ iter < Iterations
    /\ iter' = iter + 1
    /\ UNCHANGED <<sigSent, sigCh, handler, cancelled, exitLock, sigMain>>

WorkReturns ==
    /\ sigMain = "work" /\ (iter = Iterations \/ cancelled)
    /\ sigMain' = "lock"
    /\ UNCHANGED <<sigSent, sigCh, handler, cancelled, exitLock, iter>>

\* Main waits for a handler that holds the lock, which never gives it back.
MainLocks ==
    /\ sigMain = "lock" /\ exitLock = 0
    /\ exitLock' = Main
    /\ sigMain' = IF cancelled THEN "exit1" ELSE "exit0"
    /\ UNCHANGED <<sigSent, sigCh, handler, cancelled, iter>>

Steps ==
    /\ ~Ended
    /\ \/ ReceiveSignal \/ Begin \/ Iterate \/ WorkReturns \/ MainLocks
       \/ \E k \in Handler : HandlerLocks(k) \/ HandlerWaited(k) \/ HandlerExits(k)

Next == Steps \/ (~Ended /\ SendSignal)

-----------------------------------------------------------------------------
(* Properties.                                                             *)

\* The type invariant.
TypeOK ==
    /\ sigSent \in 0 .. MaxSignals /\ sigCh \in Signal \cup {"none"}
    /\ handler \in [Handler -> [at : {"none", "lock", "wait", "exit", "cut"}, sig : Signal, early : BOOLEAN]]
    /\ cancelled \in BOOLEAN /\ exitLock \in 0 .. Main /\ iter \in 0 .. Iterations
    /\ sigMain \in {"before", "work", "lock", "exit0", "exit1", "dump"}

\* Whatever signals arrive and whoever wins the lock, the process exits with 0
\* only after all its iterations and with nothing cancelled, and a signal ends
\* it under the hands of the work only if its handler was done waiting before
\* the work began (main, with exitLock and wg).
ExitHonest ==
    /\ sigMain = "exit0" => iter = Iterations /\ ~cancelled
    /\ \A k \in Handler : handler[k].at = "cut" => handler[k].early
=============================================================================
