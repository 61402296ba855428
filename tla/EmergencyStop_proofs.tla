------------------------ MODULE EmergencyStop_proofs ------------------------
(***************************************************************************)
(* Proofs about the emergency stop reader, for any workflows and any       *)
(* number of subscribers.                                                  *)
(***************************************************************************)
EXTENDS EmergencyStop, TLAPS

\* "Nobody" holds the mutex otherwise than the loop does.
LockIsNobody == Lock # "loop"

-----------------------------------------------------------------------------
(* The invariant.                                                          *)

\* What a goroutine that has called Subscribe is.
Subscribed == [pc : {"read", "refused", "live", "left"}, name : Name, late : BOOLEAN]

\* The loop keeps the mutex while it sends, and from FailedLock on.
LoopHoldsMutex ==
    /\ mu = "loop" => loop \in {"stopAll", "sendStop", "send"}
    /\ loop \in {"stopAll", "send"} => mu = "loop"

\* A listed channel is open and its subscriber live under that name; a name
\* with channels has its key; while sendStop runs nobody joins its list.
ListsAreOpen ==
    /\ \A n \in Name : \A s \in subs[n] : sub[s].pc = "live" /\ sub[s].name = n /\ ~shut[s]
    /\ \A n \in Name : subs[n] # {} => n \in keys
    /\ \A s \in chans : loop = "send" /\ sub[s].pc = "live" /\ sub[s].name = at /\ ~shut[s]
    /\ loop = "send" => subs[at] \subseteq chans

\* A closed channel still holds the Stop, or its subscriber has it last.
ClosedKeepsStop ==
    \A s \in Sub : shut[s] =>
        /\ sub[s].pc \in {"refused", "live", "left"}
        /\ buf[s] = "stop" \/ (buf[s] = "empty" /\ got[s] = "stop")

\* The loop compares, or sends during a comparison.
Comparing == loop \in {"compare", "send"} \/ (loop = "sendStop" /\ mu = Lock)

\* An open channel that no round overlapped belongs to a name that was Go, and
\* that this round either has still to look at, or found Go, or is stopping.
NotPassedOver ==
    \A s \in Sub : ~shut[s] /\ sub[s].pc = "live" /\ ~sub[s].late =>
        /\ loop = "tick" => entries[sub[s].name] = "go"
        /\ Comparing => /\ entries[sub[s].name] = "go"
                        /\ \/ sub[s].name \in todo
                           \/ fresh[sub[s].name] = "go"
                           \/ loop # "compare" /\ at = sub[s].name

\* A Subscribe that read the entries in peace appends before the next round,
\* or is counted late.
ReadersAreEarly ==
    \A s \in Sub : sub[s].pc = "read" /\ ~sub[s].late =>
        loop = "tick" /\ entries[sub[s].name] = "go"

IInv ==
    /\ TypeOK
    /\ LoopHoldsMutex
    /\ ListsAreOpen
    /\ ClosedKeepsStop
    /\ RegisteredUntilStopped
    /\ NotPassedOver
    /\ ReadersAreEarly

-----------------------------------------------------------------------------
(* The subscribers' steps.                                                 *)

LEMMA SubscribeReadKeeps ==
    ASSUME IInv, NEW s \in Sub, NEW n \in Name, SubscribeRead(s, n) PROVE IInv'
<1>1. UNCHANGED <<file, loopVars, got, crashed>> /\ sub[s].pc = "idle"
  BY DEF SubscribeRead
<1>2. \E r \in Subscribed :
        /\ sub' = [sub EXCEPT ![s] = r] /\ r.name = n
        /\ \/ /\ entries[n] = "go" /\ r.pc = "read" /\ (~r.late => loop = "tick")
              /\ UNCHANGED <<buf, shut>>
           \/ /\ r.pc = "refused"
              /\ buf' = [buf EXCEPT ![s] = "stop"] /\ shut' = [shut EXCEPT ![s] = TRUE]
  <2>1. CASE entries[n] = "go"
    <3>1. [pc |-> "read", name |-> n, late |-> loop # "tick"] \in Subscribed
      BY DEF Subscribed
    <3> QED
      BY <2>1, <3>1 DEF SubscribeRead
  <2>2. CASE entries[n] # "go"
    <3>1. [pc |-> "refused", name |-> n, late |-> FALSE] \in Subscribed
      BY DEF Subscribed
    <3> QED
      BY <2>2, <3>1 DEF SubscribeRead
  <2> QED
    BY <2>1, <2>2
<1>3. TypeOK'
  <2>1. sub' \in [Sub -> [pc : {"idle"}] \cup Subscribed]
    BY <1>2 DEF IInv, TypeOK, Subscribed
  <2>2. buf' \in [Sub -> {"empty", "go", "stop"}] /\ shut' \in [Sub -> BOOLEAN]
    BY <1>2 DEF IInv, TypeOK
  <2> QED
    BY <1>1, <2>1, <2>2 DEF IInv, TypeOK, Subscribed, loopVars
<1>4. LoopHoldsMutex' /\ ListsAreOpen' /\ ClosedKeepsStop'
  BY <1>1, <1>2 DEF IInv, TypeOK, LoopHoldsMutex, ListsAreOpen, ClosedKeepsStop, loopVars
<1>5. RegisteredUntilStopped' /\ ReadersAreEarly'
  BY <1>1, <1>2 DEF IInv, TypeOK, RegisteredUntilStopped, ReadersAreEarly, loopVars
<1>6. NotPassedOver'
  BY <1>1, <1>2 DEF IInv, TypeOK, NotPassedOver, Comparing, loopVars
<1> QED
  BY <1>3, <1>4, <1>5, <1>6 DEF IInv

LEMMA SubscribeAppendKeeps ==
    ASSUME LockIsNobody, IInv, NEW s \in Sub, SubscribeAppend(s) PROVE IInv'
<1> DEFINE n == sub[s].name
<1>1. /\ sub[s].pc = "read" /\ mu = Lock
      /\ buf' = [buf EXCEPT ![s] = "go"]
      /\ keys' = keys \cup {n}
      /\ subs' = [subs EXCEPT ![n] = @ \cup {s}]
      /\ UNCHANGED <<file, entries, mu, loop, fresh, todo, chans, at, shut, got, crashed>>
  BY DEF SubscribeAppend
<1>2. sub[s] \in Subscribed /\ n \in Name /\ ~shut[s]
  BY <1>1 DEF IInv, TypeOK, Subscribed, ClosedKeepsStop
<1>3. PICK r \in Subscribed : /\ sub' = [sub EXCEPT ![s] = r]
                              /\ r.pc = "live" /\ r.name = n /\ r.late = sub[s].late
  <2>1. sub' = [sub EXCEPT ![s] = [sub[s] EXCEPT !.pc = "live"]]
    BY DEF SubscribeAppend
  <2>2. /\ [sub[s] EXCEPT !.pc = "live"] \in Subscribed
        /\ [sub[s] EXCEPT !.pc = "live"].pc = "live"
        /\ [sub[s] EXCEPT !.pc = "live"].name = n
        /\ [sub[s] EXCEPT !.pc = "live"].late = sub[s].late
    BY <1>2 DEF Subscribed
  <2> QED
    BY <2>1, <2>2
<1>4. loop \notin {"stopAll", "send"} /\ chans = {}
  BY <1>1 DEF LockIsNobody, IInv, LoopHoldsMutex, ListsAreOpen
<1> HIDE DEF n
<1>5. TypeOK'
  BY <1>1, <1>2, <1>3 DEF IInv, TypeOK, Subscribed
<1>6. LoopHoldsMutex' /\ ListsAreOpen' /\ ClosedKeepsStop'
  BY <1>1, <1>2, <1>3, <1>4 DEF IInv, TypeOK, LoopHoldsMutex, ListsAreOpen, ClosedKeepsStop
<1>7. RegisteredUntilStopped'
  BY <1>1, <1>2, <1>3, <1>4 DEF IInv, TypeOK, RegisteredUntilStopped
<1>8. ReadersAreEarly'
  BY <1>1, <1>2, <1>3 DEF IInv, TypeOK, ReadersAreEarly
<1>9. ~r.late => loop = "tick" /\ entries[n] = "go"
  BY <1>1, <1>3 DEF IInv, ReadersAreEarly, n
<1>10. NotPassedOver'
  BY <1>1, <1>2, <1>3, <1>9 DEF IInv, TypeOK, NotPassedOver, Comparing
<1> QED
  BY <1>5, <1>6, <1>7, <1>8, <1>10 DEF IInv

LEMMA CancelKeeps == ASSUME LockIsNobody, IInv, NEW s \in Sub, Cancel(s) PROVE IInv'
<1> DEFINE n == sub[s].name
<1>1. /\ sub[s].pc = "live" /\ mu = Lock
      /\ \/ UNCHANGED <<keys, subs>>
         \/ keys' = keys \cup {n} /\ subs' = [subs EXCEPT ![n] = @ \ {s}]
      /\ subs[n] = {} => UNCHANGED subs
      /\ subs[n] # {} => subs' = [subs EXCEPT ![n] = @ \ {s}]
      /\ crashed' \in BOOLEAN
      /\ UNCHANGED <<file, entries, mu, loop, fresh, todo, chans, at, buf, shut, got>>
  BY DEF Cancel, IInv, TypeOK
<1>2. sub[s] \in Subscribed /\ n \in Name
  BY <1>1 DEF IInv, TypeOK, Subscribed
<1>3. PICK r \in Subscribed : sub' = [sub EXCEPT ![s] = r] /\ r.pc = "left" /\ r.name = n
  <2>1. sub' = [sub EXCEPT ![s] = [sub[s] EXCEPT !.pc = "left"]]
    BY DEF Cancel
  <2>2. /\ [sub[s] EXCEPT !.pc = "left"] \in Subscribed
        /\ [sub[s] EXCEPT !.pc = "left"].pc = "left"
        /\ [sub[s] EXCEPT !.pc = "left"].name = n
    BY <1>2 DEF Subscribed
  <2> QED
    BY <2>1, <2>2
<1>4. loop \notin {"stopAll", "send"} /\ chans = {}
  BY <1>1 DEF LockIsNobody, IInv, LoopHoldsMutex, ListsAreOpen
<1>5. \A l \in Name : s \notin subs'[l]
  BY <1>1, <1>2 DEF IInv, TypeOK, ListsAreOpen
<1> HIDE DEF n
<1>6. TypeOK'
  BY <1>1, <1>2, <1>3 DEF IInv, TypeOK, Subscribed
<1>7. LoopHoldsMutex' /\ ListsAreOpen' /\ ClosedKeepsStop'
  BY <1>1, <1>2, <1>3, <1>4, <1>5 DEF IInv, TypeOK, LoopHoldsMutex, ListsAreOpen, ClosedKeepsStop
<1>8. RegisteredUntilStopped'
  BY <1>1, <1>2, <1>3, <1>4 DEF IInv, TypeOK, RegisteredUntilStopped
<1>9. ReadersAreEarly' /\ NotPassedOver'
  BY <1>1, <1>2, <1>3 DEF IInv, TypeOK, ReadersAreEarly, NotPassedOver, Comparing
<1> QED
  BY <1>6, <1>7, <1>8, <1>9 DEF IInv

LEMMA ReceiveKeeps == ASSUME IInv, NEW s \in Sub, Receive(s) PROVE IInv'
<1>1. /\ buf[s] # "empty" /\ got' = [got EXCEPT ![s] = buf[s]]
      /\ buf' = [buf EXCEPT ![s] = "empty"]
      /\ UNCHANGED <<file, loopVars, sub, shut, crashed>>
  BY DEF Receive
<1> QED
  BY <1>1 DEF loopVars, IInv, TypeOK, LoopHoldsMutex, ListsAreOpen, ClosedKeepsStop,
     RegisteredUntilStopped, NotPassedOver, Comparing, ReadersAreEarly

LEMMA ForgetKeeps == ASSUME IInv, NEW s \in Sub, Forget(s) PROVE IInv'
<1>1. /\ sub[s].pc \in {"refused", "left"}
      /\ sub' = [sub EXCEPT ![s] = [pc |-> "idle"]]
      /\ buf' = [buf EXCEPT ![s] = "empty"]
      /\ shut' = [shut EXCEPT ![s] = FALSE]
      /\ got' = [got EXCEPT ![s] = "none"]
      /\ UNCHANGED <<file, loopVars, crashed>>
  BY DEF Forget
<1>2. TypeOK'
  BY <1>1 DEF IInv, TypeOK, loopVars
<1>3. LoopHoldsMutex' /\ ListsAreOpen' /\ ClosedKeepsStop'
  BY <1>1 DEF IInv, TypeOK, LoopHoldsMutex, ListsAreOpen, ClosedKeepsStop, loopVars
<1>4. RegisteredUntilStopped' /\ ReadersAreEarly' /\ NotPassedOver'
  BY <1>1 DEF IInv, TypeOK, RegisteredUntilStopped, ReadersAreEarly, NotPassedOver, Comparing, loopVars
<1> QED
  BY <1>2, <1>3, <1>4 DEF IInv

-----------------------------------------------------------------------------
(* The loop's steps.                                                       *)

LEMMA LoadKeeps == ASSUME LockIsNobody, IInv, Load PROVE IInv'
<1>1. /\ loop = "tick" /\ UNCHANGED <<file, keys, subs, mu, chans, at, got, buf, shut, crashed>>
      /\ sub' = [s \in Sub |-> IF sub[s].pc = "read" THEN [sub[s] EXCEPT !.late = TRUE] ELSE sub[s]]
      /\ \/ /\ fresh' = file.map /\ loop' = "compare" /\ UNCHANGED entries
            /\ todo' = {n \in Name : entries[n] # "absent"}
         \/ /\ loop' = "failed" /\ UNCHANGED <<fresh, todo>>
            /\ entries' = None \/ entries' = entries
  BY DEF Load
<1>2. file.map \in [Name -> Status] /\ None \in [Name -> Status]
  BY DEF IInv, TypeOK, FileState, None, Status
<1>3. /\ \A s \in Sub : sub[s].pc = "read" => sub'[s] \in Subscribed /\ sub'[s].pc = "read" /\ sub'[s].late
      /\ \A s \in Sub : sub[s].pc # "read" => sub'[s] = sub[s]
  BY <1>1 DEF IInv, TypeOK, Subscribed
<1>4. \A s \in Sub : sub'[s].pc = sub[s].pc
  BY <1>3
<1>5. sub' \in [Sub -> [pc : {"idle"}] \cup Subscribed]
  BY <1>1, <1>3 DEF IInv, TypeOK, Subscribed
<1>6. TypeOK'
  BY <1>1, <1>2, <1>5 DEF IInv, TypeOK, Subscribed
<1>7. LoopHoldsMutex'
  BY <1>1 DEF LockIsNobody, IInv, LoopHoldsMutex
<1>8. ListsAreOpen' /\ ClosedKeepsStop' /\ RegisteredUntilStopped'
  BY <1>1, <1>3, <1>4 DEF IInv, TypeOK, ListsAreOpen, ClosedKeepsStop, RegisteredUntilStopped
<1>9. ReadersAreEarly'
  BY <1>3 DEF ReadersAreEarly
<1>10. NotPassedOver'
  BY <1>1, <1>3, <1>4 DEF LockIsNobody, IInv, TypeOK, LoopHoldsMutex, NotPassedOver, Comparing, Subscribed
<1> QED
  BY <1>6, <1>7, <1>8, <1>9, <1>10 DEF IInv

LEMMA CompareKeeps == ASSUME LockIsNobody, IInv, NEW n \in Name, Compare(n) PROVE IInv'
<1>1. /\ loop = "compare" /\ todo' = todo \ {n} /\ n \in todo
      /\ UNCHANGED <<file, entries, keys, subs, mu, fresh, chans, sub, got, buf, shut, crashed>>
      /\ \/ loop' = "sendStop" /\ at' = n
         \/ /\ fresh[n] # "absent" /\ (entries[n] = "go" => fresh[n] = "go")
            /\ UNCHANGED <<loop, at>>
  BY DEF Compare, subVars
<1>2. TypeOK' /\ LoopHoldsMutex' /\ ListsAreOpen' /\ ClosedKeepsStop' /\ ReadersAreEarly'
  BY <1>1 DEF LockIsNobody, IInv, TypeOK, LoopHoldsMutex, ListsAreOpen, ClosedKeepsStop, ReadersAreEarly
<1>3. RegisteredUntilStopped'
  BY <1>1 DEF IInv, ListsAreOpen, RegisteredUntilStopped
<1>4. NotPassedOver'
  BY <1>1 DEF LockIsNobody, IInv, TypeOK, LoopHoldsMutex, NotPassedOver, Comparing
<1> QED
  BY <1>2, <1>3, <1>4 DEF IInv

LEMMA StoreEntriesKeeps == ASSUME LockIsNobody, IInv, StoreEntries PROVE IInv'
<1>1. /\ loop = "compare" /\ todo = {} /\ entries' = fresh /\ fresh' = None /\ loop' = "tick"
      /\ UNCHANGED <<file, keys, subs, mu, todo, chans, at, sub, got, buf, shut, crashed>>
  BY DEF StoreEntries, subVars
<1>2. None \in [Name -> Status]
  BY DEF None, Status
<1>3. TypeOK'
  BY <1>1, <1>2 DEF IInv, TypeOK
<1>4. /\ LoopHoldsMutex' /\ ListsAreOpen' /\ ClosedKeepsStop' /\ RegisteredUntilStopped'
      /\ ReadersAreEarly'
  BY <1>1 DEF LockIsNobody, IInv, TypeOK, LoopHoldsMutex, ListsAreOpen, ClosedKeepsStop,
     RegisteredUntilStopped, ReadersAreEarly
<1>5. NotPassedOver'
  BY <1>1 DEF LockIsNobody, IInv, LoopHoldsMutex, NotPassedOver, Comparing
<1> QED
  BY <1>3, <1>4, <1>5 DEF IInv

\* A failed load: when there is a key the loop waits for itself, and when
\* there is none nobody is subscribed.
LEMMA FailedKeeps == ASSUME LockIsNobody, IInv, FailedLock \/ StopAll PROVE IInv'
<1>1. CASE FailedLock
  BY <1>1 DEF LockIsNobody, FailedLock, subVars, IInv, TypeOK, LoopHoldsMutex, ListsAreOpen,
     ClosedKeepsStop, RegisteredUntilStopped, NotPassedOver, Comparing, ReadersAreEarly
<1>2. CASE StopAll
  <2>1. /\ loop = "stopAll" /\ mu = "loop" /\ chans = {}
        /\ UNCHANGED <<file, entries, keys, subs, fresh, todo, chans, sub, got, buf, shut, crashed>>
        /\ \/ keys = {} /\ loop' = "tick" /\ mu' = Lock /\ UNCHANGED at
           \/ loop' = "sendStop" /\ at' \in Name /\ UNCHANGED mu
    BY <1>2 DEF StopAll, subVars, IInv, TypeOK, LoopHoldsMutex, ListsAreOpen
  <2>2. TypeOK' /\ LoopHoldsMutex' /\ ListsAreOpen' /\ ClosedKeepsStop' /\ ReadersAreEarly'
    BY <2>1 DEF LockIsNobody, IInv, TypeOK, LoopHoldsMutex, ListsAreOpen, ClosedKeepsStop, ReadersAreEarly
  <2>3. RegisteredUntilStopped'
    BY <2>1 DEF IInv, RegisteredUntilStopped
  <2>4. keys = {} => \A s \in Sub : ~(sub[s].pc = "live" /\ ~shut[s])
    BY <2>1 DEF IInv, TypeOK, RegisteredUntilStopped, ListsAreOpen, Subscribed
  <2>5. NotPassedOver'
    BY <2>1, <2>4 DEF LockIsNobody, NotPassedOver, Comparing
  <2> QED
    BY <2>2, <2>3, <2>5 DEF IInv
<1> QED
  BY <1>1, <1>2

LEMMA SendStopLockKeeps == ASSUME LockIsNobody, IInv, SendStopLock PROVE IInv'
<1>1. /\ loop = "sendStop" /\ mu = Lock /\ mu' = "loop" /\ chans' = subs[at] /\ loop' = "send"
      /\ UNCHANGED <<file, entries, keys, subs, fresh, todo, at, sub, got, buf, shut, crashed>>
  BY DEF SendStopLock, subVars
<1>2. TypeOK' /\ LoopHoldsMutex' /\ ListsAreOpen' /\ ClosedKeepsStop' /\ ReadersAreEarly'
  BY <1>1 DEF IInv, TypeOK, LoopHoldsMutex, ListsAreOpen, ClosedKeepsStop, ReadersAreEarly
<1>3. RegisteredUntilStopped' /\ NotPassedOver'
  BY <1>1 DEF IInv, ListsAreOpen, RegisteredUntilStopped, NotPassedOver, Comparing
<1> QED
  BY <1>2, <1>3 DEF IInv

LEMMA SendKeeps == ASSUME IInv, NEW s \in Sub, Send(s) \/ Drain(s) PROVE IInv'
<1>1. loop = "send" /\ s \in chans /\ ~shut[s] /\ sub[s].pc = "live" /\ sub[s].name = at /\ at \in Name
  BY DEF Send, Drain, IInv, TypeOK, ListsAreOpen
<1>2. CASE Send(s)
  <2>1. /\ buf' = [buf EXCEPT ![s] = "stop"] /\ shut' = [shut EXCEPT ![s] = TRUE]
        /\ chans' = chans \ {s} /\ keys' = keys \ {at} /\ subs' = [subs EXCEPT ![at] = {}]
        /\ UNCHANGED <<file, entries, mu, loop, fresh, todo, at, sub, got, crashed>>
    BY <1>2 DEF Send, subVars
  <2>2. TypeOK'
    BY <2>1 DEF IInv, TypeOK
  <2>3. LoopHoldsMutex' /\ ListsAreOpen' /\ ClosedKeepsStop' /\ ReadersAreEarly'
    BY <1>1, <2>1 DEF IInv, TypeOK, LoopHoldsMutex, ListsAreOpen, ClosedKeepsStop, ReadersAreEarly
  <2>4. RegisteredUntilStopped'
    BY <1>1, <2>1 DEF IInv, TypeOK, ListsAreOpen, RegisteredUntilStopped
  <2>5. NotPassedOver'
    BY <1>1, <2>1 DEF IInv, TypeOK, NotPassedOver, Comparing
  <2> QED
    BY <2>2, <2>3, <2>4, <2>5 DEF IInv
<1>3. CASE Drain(s)
  <2>1. /\ buf' = [buf EXCEPT ![s] = "empty"]
        /\ UNCHANGED <<file, loopVars, sub, got, shut, crashed>>
    BY <1>3 DEF Drain, subVars
  <2> QED
    BY <1>1, <2>1 DEF loopVars, IInv, TypeOK, LoopHoldsMutex, ListsAreOpen, ClosedKeepsStop,
       RegisteredUntilStopped, NotPassedOver, Comparing, ReadersAreEarly
<1> QED
  BY <1>2, <1>3

LEMMA SendStopUnlockKeeps == ASSUME LockIsNobody, IInv, SendStopUnlock PROVE IInv'
<1>1. /\ loop = "send" /\ chans = {} /\ mu' = Lock /\ loop' = "compare"
      /\ UNCHANGED <<file, entries, keys, subs, fresh, todo, chans, at, sub, got, buf, shut, crashed>>
  BY DEF SendStopUnlock, subVars
<1>2. TypeOK' /\ LoopHoldsMutex' /\ ListsAreOpen' /\ ClosedKeepsStop' /\ ReadersAreEarly'
  BY <1>1 DEF LockIsNobody, IInv, TypeOK, LoopHoldsMutex, ListsAreOpen, ClosedKeepsStop, ReadersAreEarly
<1>3. RegisteredUntilStopped'
  BY <1>1 DEF IInv, RegisteredUntilStopped
<1>4. \A s \in Sub : ~shut[s] /\ sub[s].pc = "live" => sub[s].name # at
  BY <1>1 DEF IInv, ListsAreOpen, RegisteredUntilStopped
<1>5. NotPassedOver'
  BY <1>1, <1>4 DEF IInv, NotPassedOver, Comparing
<1> QED
  BY <1>2, <1>3, <1>5 DEF IInv

-----------------------------------------------------------------------------
(* The invariant holds.                                                    *)

LEMMA IInvStep == ASSUME LockIsNobody, IInv, [Next]_vars PROVE IInv'
<1>1. CASE UNCHANGED vars
  BY <1>1 DEF vars, IInv, TypeOK, LoopHoldsMutex, ListsAreOpen, ClosedKeepsStop,
     RegisteredUntilStopped, NotPassedOver, Comparing, ReadersAreEarly
<1>2. CASE Edit
  BY <1>2 DEF Edit, loopVars, subVars, IInv, TypeOK, LoopHoldsMutex, ListsAreOpen, ClosedKeepsStop,
     RegisteredUntilStopped, NotPassedOver, Comparing, ReadersAreEarly
<1>3. CASE LoopStep
  BY <1>3, LoadKeeps, CompareKeeps, StoreEntriesKeeps, FailedKeeps, SendStopLockKeeps, SendKeeps,
     SendStopUnlockKeeps DEF LoopStep
<1>4. ASSUME NEW s \in Sub, SubStep(s) PROVE IInv'
  BY <1>4, SubscribeReadKeeps, SubscribeAppendKeeps, ReceiveKeeps, CancelKeeps, ForgetKeeps DEF SubStep
<1> QED
  BY <1>1, <1>2, <1>3, <1>4 DEF Next

LEMMA IInvInit == ASSUME LockIsNobody, Init PROVE IInv
<1>1. TypeOK
  BY DEF Init, TypeOK, FileState, None, Status
<1>2. /\ LoopHoldsMutex /\ ListsAreOpen /\ ClosedKeepsStop /\ RegisteredUntilStopped
      /\ NotPassedOver /\ ReadersAreEarly
  BY DEF LockIsNobody, Init, LoopHoldsMutex, ListsAreOpen, ClosedKeepsStop, RegisteredUntilStopped,
     NotPassedOver, ReadersAreEarly
<1> QED
  BY <1>1, <1>2 DEF IInv

LEMMA IInvInvariant == ASSUME LockIsNobody PROVE Spec => []IInv
  BY IInvInit, IInvStep, PTL DEF Spec

-----------------------------------------------------------------------------
(* The theorems.                                                           *)

\* The state of the reader keeps its types.
THEOREM TypeCorrect == ASSUME LockIsNobody PROVE Spec => []TypeOK
<1>1. IInv => TypeOK
  BY DEF IInv
<1> QED
  BY <1>1, IInvInvariant, PTL

\* Whoever finds its channel closed has Stop as the last Status, and a closed
\* channel is never sent to again, for any number of subscribers (es.go
\* sendStop).
THEOREM ClosedIsStopped == ASSUME LockIsNobody PROVE Spec => []ClosedMeansStopped
<1>1. IInv => ClosedMeansStopped
  BY DEF IInv, ListsAreOpen, ClosedKeepsStop, ClosedMeansStopped
<1> QED
  BY <1>1, IInvInvariant, PTL

\* No stop of another name and nobody else's Cancel loses a subscriber (es.go
\* Cancel, sendStop).
THEOREM NobodyIsDropped == ASSUME LockIsNobody PROVE Spec => []RegisteredUntilStopped
<1>1. IInv => RegisteredUntilStopped
  BY DEF IInv
<1> QED
  BY <1>1, IInvInvariant, PTL

\* After every round that completes, each subscriber of a name that is no
\* longer Go has been sent Stop, unless a round overlapped its Subscribe
\* (es.go loop).
THEOREM NobodyIsPassedOver == ASSUME LockIsNobody PROVE Spec => []StopReachesSubscribers
<1>1. IInv => StopReachesSubscribers
  BY DEF IInv, NotPassedOver, StopReachesSubscribers
<1> QED
  BY <1>1, IInvInvariant, PTL
=============================================================================
