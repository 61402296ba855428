--------------------------- MODULE EmergencyStop ---------------------------
(***************************************************************************)
(* The emergency stop reader (design_for_chaos/es/es.go): a goroutine      *)
(* that loads es.json every ten seconds and tells the subscribers of a     *)
(* name when its status leaves Go, while other goroutines subscribe,       *)
(* receive and cancel.  A channel holds one Status.  The mutex is not      *)
(* reentrant.                                                              *)
(***************************************************************************)
EXTENDS Naturals, FiniteSets

CONSTANTS
    Name,      \* the workflows es.json can list
    Sub,       \* goroutines that subscribe
    Files,     \* the conditions es.json can be in: subset of {"ok", "missing", "bad"}
    Lock       \* the value of mu when nobody holds it


Status == {"go", "stop", "absent"}     \* of a name in es.json
None   == [n \in Name |-> "absent"]    \* an empty map of entries

VARIABLES
    file,     \* es.json: its condition, and its entries when it is readable
    entries,  \* Reader.entries
    keys,     \* the names that Reader.subscribers has a key for
    subs,     \* the channels under each of those keys
    mu,       \* holder of Reader.mu: Lock or "loop"; the others hold it within one step
    loop,     \* where the loop is
    fresh,    \* newInfos
    todo,     \* the names its range statement has not reached
    chans,    \* the channels sendStop has not reached, the one at hand apart
    at,       \* the name sendStop was called with
    sub,      \* what each subscriber is doing, and with which name
    buf,      \* the content of its channel
    shut,     \* its channel is closed
    got,      \* the last Status it received
    crashed   \* a panic ended the process

loopVars == <<entries, keys, subs, mu, loop, fresh, todo, chans, at>>
subVars  == <<sub, got>>
vars == <<file, entries, keys, subs, mu, loop, fresh, todo, chans, at, sub, buf, shut, got, crashed>>

FileState == {f \in [is : Files, map : [Name -> Status]] : f.is # "ok" => f.map = None}

\* newReader: the first load must succeed.
Init ==
    /\ file \in {f \in FileState : f.is = "ok"}
    /\ entries = file.map
    /\ keys = {}
    /\ subs = [n \in Name |-> {}]
    /\ mu = Lock
    /\ loop = "tick"
    /\ fresh = None
    /\ todo = {}
    /\ chans = {}
    /\ at \in Name
    /\ sub = [s \in Sub |-> [pc |-> "idle"]]
    /\ buf = [s \in Sub |-> "empty"]
    /\ shut = [s \in Sub |-> FALSE]
    /\ got = [s \in Sub |-> "none"]
    /\ crashed = FALSE

\* Someone edits, breaks or removes es.json.
Edit ==
    /\ file' \in FileState
    /\ UNCHANGED <<loopVars, subVars, buf, shut, crashed>>

-----------------------------------------------------------------------------
(* Subscribe and Cancel.                                                   *)

\* Reads the entries before taking the lock.  A name that is not Go gets a
\* closed channel with Stop in it and is not registered.  "late" is history:
\* a round of the loop overlapped this Subscribe.
SubscribeRead(s, n) ==
    /\ sub[s].pc = "idle"
    /\ IF entries[n] = "go"
       THEN /\ sub' = [sub EXCEPT ![s] = [pc |-> "read", name |-> n, late |-> loop # "tick"]]
            /\ UNCHANGED <<buf, shut>>
       ELSE /\ sub' = [sub EXCEPT ![s] = [pc |-> "refused", name |-> n, late |-> FALSE]]
            /\ buf' = [buf EXCEPT ![s] = "stop"]
            /\ shut' = [shut EXCEPT ![s] = TRUE]
    /\ UNCHANGED <<file, loopVars, got, crashed>>

\* Mistake: the channel is stored under itself.
SubscribeAppendWrongKey(s) ==
    /\ sub[s].pc = "read"
    /\ mu = Lock
    /\ sub' = [sub EXCEPT ![s].pc = "live"]
    /\ buf' = [buf EXCEPT ![s] = "go"]
    /\ keys' = keys \cup {s}
    /\ UNCHANGED <<file, entries, subs, mu, loop, fresh, todo, chans, at, shut, got, crashed>>

SubscribeAppend(s) ==
    /\ sub[s].pc = "read"
    /\ mu = Lock
    /\ sub' = [sub EXCEPT ![s].pc = "live"]
    /\ buf' = [buf EXCEPT ![s] = "go"]
    /\ keys' = keys \cup {sub[s].name}
    /\ subs' = [subs EXCEPT ![sub[s].name] = @ \cup {s}]
    /\ UNCHANGED <<file, entries, mu, loop, fresh, todo, chans, at, shut, got, crashed>>

Receive(s) ==
    /\ buf[s] # "empty"
    /\ got' = [got EXCEPT ![s] = buf[s]]
    /\ buf' = [buf EXCEPT ![s] = "empty"]
    /\ UNCHANGED <<file, loopVars, sub, shut, crashed>>

\* Mistake: Cancel drops the name with every channel under it.
CancelDropsName(s) ==
    /\ sub[s].pc = "live"
    /\ mu = Lock
    /\ LET n == sub[s].name IN
         /\ subs' = [subs EXCEPT ![n] = {}]
         /\ keys' = keys \ {n}
    /\ sub' = [sub EXCEPT ![s].pc = "left"]
    /\ UNCHANGED <<file, entries, mu, loop, fresh, todo, chans, at, buf, shut, got, crashed>>

\* make([]chan Status, 0, len-1) panics when nobody is left under the name.
\* Otherwise the key stays, also with no channel.
Cancel(s) ==
    /\ sub[s].pc = "live"
    /\ mu = Lock
    /\ LET n == sub[s].name IN
         IF subs[n] = {}
         THEN crashed' = TRUE /\ UNCHANGED <<keys, subs>>
         ELSE /\ subs' = [subs EXCEPT ![n] = @ \ {s}]
              /\ keys' = keys \cup {n}
              /\ UNCHANGED crashed
    /\ sub' = [sub EXCEPT ![s].pc = "left"]
    /\ UNCHANGED <<file, entries, mu, loop, fresh, todo, chans, at, buf, shut, got>>

\* The channel is dropped; the slot can subscribe again.
Forget(s) ==
    /\ sub[s].pc \in {"refused", "left"}
    /\ sub' = [sub EXCEPT ![s] = [pc |-> "idle"]]
    /\ buf' = [buf EXCEPT ![s] = "empty"]
    /\ shut' = [shut EXCEPT ![s] = FALSE]
    /\ got' = [got EXCEPT ![s] = "none"]
    /\ UNCHANGED <<file, loopVars, crashed>>

-----------------------------------------------------------------------------
(* loop, load and sendStop.                                                *)

\* A file that cannot be decoded empties the entries inside load; one that
\* cannot be opened leaves them.
Load ==
    /\ loop = "tick"
    /\ sub' = [s \in Sub |-> IF sub[s].pc = "read" THEN [sub[s] EXCEPT !.late = TRUE] ELSE sub[s]]
    /\ IF file.is = "ok"
       THEN /\ fresh' = file.map
            /\ todo' = {n \in Name : entries[n] # "absent"}
            /\ loop' = "compare"
            /\ UNCHANGED entries
       ELSE /\ entries' = IF file.is = "bad" THEN None ELSE entries
            /\ loop' = "failed"
            /\ UNCHANGED <<fresh, todo>>
    /\ UNCHANGED <<file, keys, subs, mu, chans, at, got, buf, shut, crashed>>

\* Mistake: only a name that is gone from the file is stopped.
CompareGone(n) ==
    /\ loop = "compare" /\ n \in todo
    /\ todo' = todo \ {n}
    /\ IF fresh[n] = "absent" THEN loop' = "sendStop" /\ at' = n ELSE UNCHANGED <<loop, at>>
    /\ UNCHANGED <<file, entries, keys, subs, mu, fresh, chans, subVars, buf, shut, crashed>>

\* One turn of the range over the old entries.
Compare(n) ==
    /\ loop = "compare" /\ n \in todo
    /\ todo' = todo \ {n}
    /\ IF fresh[n] = "absent" \/ (entries[n] = "go" /\ fresh[n] # "go")
       THEN loop' = "sendStop" /\ at' = n
       ELSE UNCHANGED <<loop, at>>
    /\ UNCHANGED <<file, entries, keys, subs, mu, fresh, chans, subVars, buf, shut, crashed>>

StoreEntries ==
    /\ loop = "compare" /\ todo = {}
    /\ entries' = fresh
    /\ fresh' = None
    /\ loop' = "tick"
    /\ UNCHANGED <<file, keys, subs, mu, todo, chans, at, subVars, buf, shut, crashed>>

\* After a failed load the loop takes the lock and calls sendStop for every key ...
FailedLock ==
    /\ loop = "failed" /\ mu = Lock
    /\ mu' = "loop"
    /\ loop' = "stopAll"
    /\ UNCHANGED <<file, entries, keys, subs, fresh, todo, chans, at, subVars, buf, shut, crashed>>

\* ... which takes the lock itself.
StopAll ==
    /\ loop = "stopAll"
    /\ IF keys = {}
       THEN loop' = "tick" /\ mu' = Lock /\ UNCHANGED at
       ELSE loop' = "sendStop" /\ at' \in keys /\ UNCHANGED mu
    /\ UNCHANGED <<file, entries, keys, subs, fresh, todo, chans, subVars, buf, shut, crashed>>

SendStopLock ==
    /\ loop = "sendStop" /\ mu = Lock
    /\ mu' = "loop"
    /\ chans' = subs[at]
    /\ loop' = "send"
    /\ UNCHANGED <<file, entries, keys, subs, fresh, todo, at, subVars, buf, shut, crashed>>

\* Mistake: a full channel is closed without the Stop.
SendIfRoom(s) ==
    /\ loop = "send" /\ s \in chans
    /\ buf' = [buf EXCEPT ![s] = IF @ = "empty" THEN "stop" ELSE @]
    /\ shut' = [shut EXCEPT ![s] = TRUE]
    /\ chans' = chans \ {s}
    /\ keys' = keys \ {at}
    /\ subs' = [subs EXCEPT ![at] = {}]
    /\ UNCHANGED <<file, entries, mu, loop, fresh, todo, at, subVars, crashed>>

\* The inner loop for one channel: send, or make room and try again.
Send(s) ==
    /\ loop = "send" /\ s \in chans
    /\ buf[s] = "empty"
    /\ buf' = [buf EXCEPT ![s] = "stop"]
    /\ shut' = [shut EXCEPT ![s] = TRUE]
    /\ chans' = chans \ {s}
    /\ keys' = keys \ {at}
    /\ subs' = [subs EXCEPT ![at] = {}]
    /\ UNCHANGED <<file, entries, mu, loop, fresh, todo, at, subVars, crashed>>

\* Mistake: sendStop makes no room in a full channel.
DrainNever(s) == FALSE /\ UNCHANGED <<vars, s>>

Drain(s) ==
    /\ loop = "send" /\ s \in chans
    /\ buf[s] # "empty"
    /\ buf' = [buf EXCEPT ![s] = "empty"]
    /\ UNCHANGED <<file, loopVars, subVars, shut, crashed>>

SendStopUnlock ==
    /\ loop = "send" /\ chans = {}
    /\ mu' = Lock
    /\ loop' = "compare"
    /\ UNCHANGED <<file, entries, keys, subs, fresh, todo, chans, at, subVars, buf, shut, crashed>>

LoopStep == Load \/ (\E n \in Name : Compare(n)) \/ StoreEntries \/ FailedLock \/ StopAll
              \/ SendStopLock \/ (\E s \in Sub : Send(s) \/ Drain(s)) \/ SendStopUnlock

SubStep(s) == (\E n \in Name : SubscribeRead(s, n)) \/ SubscribeAppend(s) \/ Receive(s)
                \/ Cancel(s) \/ Forget(s)

Next == ~crashed /\ (Edit \/ LoopStep \/ \E s \in Sub : SubStep(s))

Spec == Init /\ [][Next]_vars

\* The ticker keeps ticking and the loop's goroutine runs; a waiter for the
\* mutex is not starved.  Nobody is obliged to subscribe, receive or cancel.
Fairness ==
    /\ SF_vars(~crashed /\ LoopStep)
    /\ \A s \in Sub : SF_vars(~crashed /\ SubscribeAppend(s))

FairSpec == Spec /\ Fairness

-----------------------------------------------------------------------------
(* Properties.                                                             *)

\* The type invariant.
TypeOK ==
    /\ file \in FileState
    /\ entries \in [Name -> Status] /\ fresh \in [Name -> Status]
    /\ keys \subseteq Name /\ subs \in [Name -> SUBSET Sub]
    /\ mu \in {Lock, "loop"}
    /\ loop \in {"tick", "compare", "failed", "stopAll", "sendStop", "send"}
    /\ todo \subseteq Name /\ chans \subseteq Sub /\ at \in Name
    /\ sub \in [Sub -> [pc : {"idle"}] \cup [pc : {"read", "refused", "live", "left"}, name : Name, late : BOOLEAN]]
    /\ buf \in [Sub -> {"empty", "go", "stop"}]
    /\ shut \in [Sub -> BOOLEAN]
    /\ got \in [Sub -> {"none", "go", "stop"}]
    /\ crashed \in BOOLEAN

\* A channel is closed with a Stop in it that its subscriber has not lost, so
\* the last Status anyone receives from a closed channel is Stop, whichever
\* way sendStop's drain and the subscriber's receives interleave; and a closed
\* channel is in no list, so it is never sent to again (es.go sendStop).
ClosedMeansStopped ==
    \A s \in Sub : shut[s] => /\ buf[s] = "stop" \/ got[s] = "stop"
                              /\ \A n \in Name : s \notin subs[n]

\* A subscriber that has not been stopped is registered, or is one of those
\* that sendStop is about to tell: no Cancel, and no stop of another name,
\* drops it, and its own Cancel finds it, so that it cannot panic (es.go
\* Cancel, sendStop).
RegisteredUntilStopped ==
    \A s \in Sub : sub[s].pc = "live" /\ ~shut[s] =>
        s \in subs[sub[s].name] \/ (s \in chans /\ at = sub[s].name)

\* Between rounds every subscriber of a name that is no longer Go has been
\* sent Stop ("existing ones should be stopped", es.go Stop), unless a round
\* overlapped its Subscribe.
StopReachesSubscribers ==
    loop = "tick" =>
        \A s \in Sub : sub[s].pc = "live" /\ ~sub[s].late /\ entries[sub[s].name] # "go" => shut[s]

\* While es.json stays readable and nothing panics, a subscriber whose name is
\* taken off Go and stays off is told (es.go loop).
StopIsDelivered ==
    \A s \in Sub, n \in Name :
        /\ [](file.is = "ok" /\ ~crashed)
        /\ <>[](sub[s].pc = "live" /\ sub[s].name = n /\ ~sub[s].late /\ file.map[n] # "go")
        => <>shut[s]
=============================================================================
