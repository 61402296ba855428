-------------------------- MODULE PetStore_proofs --------------------------
(***************************************************************************)
(* Proofs about the pet storage, for any finite set of ids, any names,     *)
(* types, birthdays and clients, and any filters.                          *)
(***************************************************************************)
EXTENDS PetStore, FiniteSetTheorems, TLAPS

FiniteIds == IsFiniteSet(Id)

-----------------------------------------------------------------------------
(* The indexes.                                                            *)

\* The deletion of a pet that is under a key leaves the others there (mem.go
\* DeletePets).
LEMMA DropLeavesOthers ==
    ASSUME FiniteIds, NEW S \in SUBSET Id, NEW id \in S, NEW other \in S, other # id
    PROVE  other \in Drop(S, id)
<1>1. IsFiniteSet(S)
  BY FS_Subset DEF FiniteIds
<1>2. CASE Cardinality(S) = 1
  <2>1. PICK x : S = {x}
    BY <1>1, <1>2, FS_Singleton
  <2> QED
    BY <2>1 DEF Drop
<1> QED
  BY <1>2 DEF Drop

LEMMA DropIsSubset == ASSUME NEW S, NEW id PROVE Drop(S, id) \subseteq S
  BY DEF Drop

LEMMA EnterType == ASSUME NEW x \in Index, NEW id \in Id, NEW p \in Pet PROVE Enter(x, id, p) \in Index
  BY DEF Enter, Index, Pet

LEMMA LeaveType == ASSUME NEW x \in Index, NEW id, NEW p \in Pet PROVE Leave(x, id, p) \in Index
<1>1. /\ \A n \in Name : Drop(x.names[n], id) \in SUBSET Id
      /\ \A t \in Type : Drop(x.types[t], id) \in SUBSET Id
      /\ \A d \in Day : Drop(x.birthday[d], id) \in SUBSET Id
  BY DropIsSubset DEF Index
<1> QED
  BY <1>1 DEF Leave, Index, Pet

\* A pet that enters takes nobody out, and is found at its keys.
LEMMA EnterKeeps ==
    ASSUME NEW x \in Index, NEW id \in Id, NEW p \in Pet, NEW other \in Id, NEW q \in Pet,
           Indexed(x, other, q) \/ (other = id /\ q = p)
    PROVE  Indexed(Enter(x, id, p), other, q)
  BY DEF Enter, Index, Pet, Indexed

\* A pet that is found at its keys leaves them without another one.
LEMMA LeaveKeeps ==
    ASSUME FiniteIds, NEW x \in Index, NEW id \in Id, NEW p \in Pet, Indexed(x, id, p),
           NEW other \in Id, NEW q \in Pet, Indexed(x, other, q), other # id
    PROVE  Indexed(Leave(x, id, p), other, q)
<1>1. other \in Leave(x, id, p).names[q.name]
  <2>1. CASE p.name = q.name
    <3>1. other \in Drop(x.names[p.name], id)
      BY <2>1, DropLeavesOthers DEF Indexed, Index, Pet
    <3> QED
      BY <2>1, <3>1 DEF Leave, Index, Pet
  <2>2. CASE p.name # q.name
    BY <2>2 DEF Leave, Index, Pet, Indexed
  <2> QED
    BY <2>1, <2>2
<1>2. other \in Leave(x, id, p).types[q.type]
  <2>1. CASE p.type = q.type
    <3>1. other \in Drop(x.types[p.type], id)
      BY <2>1, DropLeavesOthers DEF Indexed, Index, Pet
    <3> QED
      BY <2>1, <3>1 DEF Leave, Index, Pet
  <2>2. CASE p.type # q.type
    BY <2>2 DEF Leave, Index, Pet, Indexed
  <2> QED
    BY <2>1, <2>2
<1>3. other \in Leave(x, id, p).birthday[q.birthday]
  <2>1. CASE p.birthday = q.birthday
    <3>1. other \in Drop(x.birthday[p.birthday], id)
      BY <2>1, DropLeavesOthers DEF Indexed, Index, Pet
    <3> QED
      BY <2>1, <3>1 DEF Leave, Index, Pet
  <2>2. CASE p.birthday # q.birthday
    BY <2>2 DEF Leave, Index, Pet, Indexed
  <2> QED
    BY <2>1, <2>2
<1> QED
  BY <1>1, <1>2, <1>3 DEF Indexed

-----------------------------------------------------------------------------
(* The invariant.                                                          *)

\* The RWMutex: a writer is alone.
WriterAlone ==
    \A c, d \in Client : call[c].pc = "write" /\ call[d].pc \in {"write", "search", "sending"} => c = d

\* A call that adds or updates has a pet for every id it has still to store.
BatchesCover ==
    \A c \in Client : call[c].pc \in {"lock", "write"} /\ call[c].op # "delete" =>
        call[c].todo \subseteq DOMAIN call[c].pets

IInv == TypeOK /\ WriterAlone /\ BatchesCover /\ IndexComplete

\* What a step makes of a call is a call again, and covers its batch.
Fits(r) ==
    /\ r \in CallState
    /\ r.pc \in {"lock", "write"} /\ r.op # "delete" => r.todo \subseteq DOMAIN r.pets

\* The rest of the invariant when a step leaves the storage alone.
LEMMA StorageKept ==
    ASSUME IInv, NEW c \in Client, NEW r, Fits(r), call' = [call EXCEPT ![c] = r],
           r.pc = "write" => call[c].pc = "write" \/ CanLock,
           r.pc \in {"search", "sending"} => call[c].pc \in {"search", "sending"} \/ Writers = {},
           ids' = ids, index' = index, leaked' \in BOOLEAN, issued' \subseteq Id, renewed' \subseteq Id
    PROVE  IInv'
<1>1. TypeOK'
  BY DEF IInv, TypeOK, Fits
<1>2. WriterAlone'
  BY DEF IInv, TypeOK, WriterAlone, CanLock, Writers, Readers
<1>3. BatchesCover' /\ IndexComplete'
  BY DEF IInv, TypeOK, BatchesCover, IndexComplete, Fits
<1> QED
  BY <1>1, <1>2, <1>3 DEF IInv

-----------------------------------------------------------------------------
(* The steps.                                                              *)

LEMMA IdleFits == Fits(Idle) /\ Idle.pc = "idle"
  BY DEF Fits, Idle, CallState

\* The beginnings of calls: the read lock is free, so that nobody writes.
LEMMA BeginKeeps == ASSUME IInv, NEW c \in Client, Begin(c) PROVE IInv'
<1>1. ASSUME AddPets(c) \/ UpdatePets(c) PROVE IInv'
  <2>1. CASE UNCHANGED call
    BY <1>1, <2>1 DEF AddPets, UpdatePets, IInv, TypeOK, WriterAlone, BatchesCover, IndexComplete
  <2>2. CASE ~UNCHANGED call
    <3>1. PICK S \in SUBSET Id, b \in UNION {Batch(T) : T \in SUBSET Id}, op \in {"add", "update"} :
            /\ call' = [call EXCEPT ![c] = [pc |-> "lock", op |-> op, todo |-> S, pets |-> b]]
            /\ DOMAIN b = S /\ UNCHANGED <<ids, index, leaked, renewed>> /\ issued' \subseteq Id
      <4>1. CASE AddPets(c)
        <5>1. PICK S \in SUBSET Id : \E b \in Batch(S) :
                /\ call' = [call EXCEPT ![c] = [pc |-> "lock", op |-> "add", todo |-> S, pets |-> b]]
                /\ UNCHANGED <<ids, index, leaked, renewed>> /\ issued' \subseteq Id
          BY <2>2, <4>1 DEF AddPets, Become, IInv, TypeOK
        <5>2. PICK b \in Batch(S) :
                /\ call' = [call EXCEPT ![c] = [pc |-> "lock", op |-> "add", todo |-> S, pets |-> b]]
                /\ UNCHANGED <<ids, index, leaked, renewed>> /\ issued' \subseteq Id
          BY <5>1
        <5>3. b \in UNION {Batch(T) : T \in SUBSET Id} /\ DOMAIN b = S
          BY DEF Batch
        <5> QED
          BY <5>2, <5>3, Zenon
      <4>2. CASE UpdatePets(c)
        <5>1. PICK S \in SUBSET Id : \E b \in Batch(S) :
                /\ call' = [call EXCEPT ![c] = [pc |-> "lock", op |-> "update", todo |-> S, pets |-> b]]
                /\ UNCHANGED <<ids, index, leaked, renewed>> /\ issued' \subseteq Id
          BY <2>2, <4>2 DEF UpdatePets, Become, IInv, TypeOK
        <5>2. PICK b \in Batch(S) :
                /\ call' = [call EXCEPT ![c] = [pc |-> "lock", op |-> "update", todo |-> S, pets |-> b]]
                /\ UNCHANGED <<ids, index, leaked, renewed>> /\ issued' \subseteq Id
          BY <5>1
        <5>3. b \in UNION {Batch(T) : T \in SUBSET Id} /\ DOMAIN b = S
          BY DEF Batch
        <5> QED
          BY <5>2, <5>3, Zenon
      <4> QED
        BY <1>1, <4>1, <4>2
    <3>2. Fits([pc |-> "lock", op |-> op, todo |-> S, pets |-> b])
      BY <3>1 DEF Fits, CallState
    <3> QED
      BY <3>1, <3>2, StorageKept DEF IInv, TypeOK
  <2> QED
    BY <2>1, <2>2
<1>2. CASE DeletePets(c)
  <2>1. PICK S \in SUBSET Id :
          /\ call' = [call EXCEPT ![c] = [pc |-> "lock", op |-> "delete", todo |-> S]]
          /\ UNCHANGED <<ids, index, leaked, issued, renewed>>
    BY <1>2 DEF DeletePets, Become, IInv, TypeOK
  <2>2. Fits([pc |-> "lock", op |-> "delete", todo |-> S])
    BY DEF Fits, CallState
  <2> QED
    BY <2>1, <2>2, StorageKept DEF IInv, TypeOK
<1>3. CASE SearchPets(c)
  <2>1. PICK f \in Filters, S \in SUBSET Id :
          /\ call' = [call EXCEPT ![c] = [pc |-> "search", filter |-> f, buf |-> "empty",
                                         with |-> TRUE, sent |-> {}, todo |-> S]]
          /\ Writers = {} /\ UNCHANGED <<ids, index, leaked, issued, renewed>>
    <3>1. PICK f \in Filters : call' = [call EXCEPT ![c] =
             [pc |-> "search", filter |-> f, buf |-> "empty", with |-> TRUE, sent |-> {},
              todo |-> IF Everything(f) THEN DOMAIN ids ELSE Found(index, f)]]
      BY <1>3 DEF SearchPets, Become
    <3>2. Found(index, f) \subseteq Id /\ DOMAIN ids \subseteq Id
      BY DEF Found, IInv, TypeOK, Batch
    <3> QED
      BY <1>3, <3>1, <3>2 DEF SearchPets, CanRLock
  <2>2. Fits([pc |-> "search", filter |-> f, buf |-> "empty", with |-> TRUE, sent |-> {}, todo |-> S])
    BY DEF Fits, CallState
  <2> QED
    BY <2>1, <2>2, StorageKept DEF IInv, TypeOK
<1> QED
  BY <1>1, <1>2, <1>3 DEF Begin

\* Acquire takes the write lock when nobody reads or writes.
LEMMA LockKeeps == ASSUME IInv, NEW c \in Client, Acquire(c) \/ Release(c) PROVE IInv'
<1>1. CASE Acquire(c)
  <2> DEFINE r == [call[c] EXCEPT !.pc = "write"]
  <2>1. /\ call' = [call EXCEPT ![c] = r] /\ call[c].pc = "lock" /\ CanLock
        /\ UNCHANGED <<ids, index, leaked, issued>>
    BY <1>1 DEF Acquire
  <2>2. call[c] \in CallState
    BY DEF IInv, TypeOK
  <2>3. Fits(r) /\ r.pc = "write"
    BY <2>1, <2>2 DEF Fits, CallState, IInv, BatchesCover
  <2> QED
    <3>1. renewed' \subseteq Id
      <4>1. DOMAIN ids \subseteq Id
        BY DEF IInv, TypeOK, Batch
      <4> QED
        BY <1>1, <4>1 DEF Acquire, IInv, TypeOK
    <3> QED
      BY <2>1, <2>3, <3>1, StorageKept DEF IInv, TypeOK
<1>2. CASE Release(c)
  BY <1>2, IdleFits, StorageKept DEF Release, Become, IInv, TypeOK
<1> QED
  BY <1>1, <1>2

\* What a search does to its own call.
LEMMA SearchKeeps ==
    ASSUME IInv, NEW c \in Client,
           \/ NextMatch(c) \/ SendMatch(c) \/ GiveUp(c) \/ Deliver(c) \/ SearchDone(c)
           \/ SearchReturn(c) \/ Hangup(c)
    PROVE  IInv'
<1>1. call[c] \in CallState /\ UNCHANGED <<ids, index, leaked, issued, renewed>>
  BY DEF IInv, TypeOK, NextMatch, SendMatch, GiveUp, Deliver, SearchDone, SearchReturn, Hangup
<1>2. \E r : /\ call' = [call EXCEPT ![c] = r] /\ Fits(r) /\ r.pc \in {"idle", "search", "sending", "drain"}
             /\ r.pc \in {"search", "sending"} => call[c].pc \in {"search", "sending"}
  <2>1. CASE NextMatch(c)
    <3>1. PICK id \in call[c].todo : call' = [call EXCEPT ![c] =
            [call[c] EXCEPT !.pc = "sending", !.todo = @ \ {id}, !.sent = @ \cup {id}]]
      BY <2>1 DEF NextMatch
    <3>2. Fits([call[c] EXCEPT !.pc = "sending", !.todo = @ \ {id}, !.sent = @ \cup {id}])
      BY <1>1, <2>1 DEF NextMatch, Fits, CallState
    <3> QED
      BY <1>1, <2>1, <3>1, <3>2 DEF NextMatch, CallState
  <2>2. CASE SendMatch(c)
    <3>1. call' = [call EXCEPT ![c] = [call[c] EXCEPT !.pc = "search", !.buf = "item"]]
      BY <2>2 DEF SendMatch
    <3>2. Fits([call[c] EXCEPT !.pc = "search", !.buf = "item"])
      BY <1>1, <2>2 DEF SendMatch, Fits, CallState
    <3> QED
      BY <1>1, <2>2, <3>1, <3>2 DEF SendMatch, CallState
  <2>3. CASE GiveUp(c) \/ SearchReturn(c)
    BY <2>3, IdleFits DEF GiveUp, SearchReturn, Become
  <2>4. CASE Deliver(c)
    <3>1. call' = [call EXCEPT ![c] = [call[c] EXCEPT !.buf = "empty"]]
      BY <2>4 DEF Deliver
    <3>2. /\ Fits([call[c] EXCEPT !.buf = "empty"])
          /\ [call[c] EXCEPT !.buf = "empty"].pc = call[c].pc
      BY <1>1, <2>4 DEF Deliver, Fits, CallState
    <3> QED
      BY <2>4, <3>1, <3>2 DEF Deliver
  <2>5. CASE SearchDone(c)
    <3>1. CASE call[c].with
      <4>1. call' = [call EXCEPT ![c] = [pc |-> "drain", buf |-> call[c].buf, with |-> TRUE]]
        BY <2>5, <3>1 DEF SearchDone, Become
      <4> DEFINE r == [pc |-> "drain", buf |-> call[c].buf, with |-> TRUE]
      <4>2. Fits(r) /\ r.pc = "drain"
        BY <1>1, <2>5 DEF SearchDone, Fits, CallState
      <4>3. call' = [call EXCEPT ![c] = r]
        BY <4>1
      <4> HIDE DEF r
      <4> QED
        BY <4>2, <4>3
    <3>2. CASE ~call[c].with
      BY <2>5, <3>2, IdleFits DEF SearchDone, Become
    <3> QED
      BY <3>1, <3>2
  <2>6. CASE Hangup(c)
    <3>1. call' = [call EXCEPT ![c] = [call[c] EXCEPT !.with = FALSE]]
      BY <2>6 DEF Hangup
    <3>2. /\ Fits([call[c] EXCEPT !.with = FALSE])
          /\ [call[c] EXCEPT !.with = FALSE].pc = call[c].pc
      BY <1>1, <2>6 DEF Hangup, Fits, CallState
    <3> QED
      BY <2>6, <3>1, <3>2 DEF Hangup
  <2> QED
    BY <2>1, <2>2, <2>3, <2>4, <2>5, <2>6
<1> QED
  BY <1>1, <1>2, StorageKept DEF IInv, TypeOK

\* One turn of a writer's loop: nobody else is inside.
LEMMA WriteKeeps ==
    ASSUME FiniteIds, IInv, NEW c \in Client, NEW id \in Id, PopulateOne(c, id) \/ DeleteOne(c, id)
    PROVE  IInv'
<1> DEFINE r == [call[c] EXCEPT !.todo = @ \ {id}]
<1>1. /\ call[c].pc = "write" /\ id \in call[c].todo /\ call' = [call EXCEPT ![c] = r]
      /\ UNCHANGED <<leaked, issued, renewed>>
  BY DEF PopulateOne, DeleteOne
<1>2. call[c] \in CallState
  BY DEF IInv, TypeOK
<1>3. Fits(r) /\ r.pc = "write"
  BY <1>1, <1>2 DEF Fits, CallState, IInv, BatchesCover
<1> HIDE DEF r
<1>4. WriterAlone' /\ BatchesCover' /\ call' \in [Client -> CallState]
  BY <1>1, <1>3 DEF IInv, TypeOK, WriterAlone, BatchesCover, Fits
<1>5. PICK D \in SUBSET Id : ids \in [D -> Pet]
  BY DEF IInv, TypeOK, Batch
<1>6. /\ \E D1 \in SUBSET Id : ids' \in [D1 -> Pet]
      /\ index' \in Index /\ IndexComplete'
  <2>1. CASE PopulateOne(c, id)
    <3> DEFINE p == call[c].pets[id]
    <3>1. p \in Pet
      <4>1. call[c].op # "delete" /\ id \in DOMAIN call[c].pets
        BY <1>1, <2>1 DEF PopulateOne, IInv, BatchesCover
      <4>2. PICK S \in SUBSET Id : call[c].pets \in [S -> Pet]
        BY <1>1, <1>2, <4>1 DEF CallState, Batch
      <4> QED
        BY <4>1, <4>2
    <3>2. ids' = WithPet(ids, id, p) /\ index' = Enter(index, id, p)
      BY <2>1 DEF PopulateOne
    <3> HIDE DEF p
    <3>3. ids' \in [D \cup {id} -> Pet] /\ (D \cup {id}) \subseteq Id
      BY <1>5, <3>1, <3>2 DEF WithPet
    <3>4. index' \in Index
      BY <3>1, <3>2, EnterType DEF IInv, TypeOK
    <3>5. ASSUME NEW other \in DOMAIN ids' PROVE Indexed(index', other, ids'[other])
      <4>1. other \in Id /\ ids'[other] \in Pet
        BY <3>3
      <4>2. Indexed(index, other, ids'[other]) \/ (other = id /\ ids'[other] = p)
        BY <1>5, <3>2 DEF WithPet, IInv, IndexComplete
      <4> QED
        BY <3>1, <3>2, <4>1, <4>2, EnterKeeps DEF IInv, TypeOK
    <3> QED
      BY <3>3, <3>4, <3>5 DEF IndexComplete
  <2>2. CASE DeleteOne(c, id) /\ id \in DOMAIN ids
    <3>1. ids' = WithoutPet(ids, id) /\ index' = Leave(index, id, ids[id])
      BY <2>2 DEF DeleteOne
    <3>2. ids[id] \in Pet /\ Indexed(index, id, ids[id])
      BY <1>5, <2>2 DEF IInv, IndexComplete
    <3>3. ids' \in [D \ {id} -> Pet] /\ (D \ {id}) \subseteq Id
      BY <1>5, <3>1 DEF WithoutPet
    <3>4. index' \in Index
      BY <3>1, <3>2, LeaveType DEF IInv, TypeOK
    <3>5. ASSUME NEW other \in DOMAIN ids' PROVE Indexed(index', other, ids'[other])
      <4>1. other \in Id /\ other # id /\ ids'[other] = ids[other] /\ ids[other] \in Pet
        BY <1>5, <3>1, <3>3 DEF WithoutPet
      <4>2. Indexed(index, other, ids[other])
        BY <1>5, <3>3, <4>1 DEF IInv, IndexComplete
      <4> QED
        BY <3>1, <3>2, <4>1, <4>2, LeaveKeeps DEF IInv, TypeOK
    <3> QED
      BY <3>3, <3>4, <3>5 DEF IndexComplete
  <2>3. CASE DeleteOne(c, id) /\ id \notin DOMAIN ids
    BY <1>5, <2>3 DEF DeleteOne, IInv, TypeOK, IndexComplete
  <2> QED
    BY <2>1, <2>2, <2>3
<1> QED
  BY <1>1, <1>4, <1>6 DEF IInv, TypeOK, Batch

LEMMA IInvStep == ASSUME FiniteIds, IInv, [Next]_vars PROVE IInv'
<1>1. CASE UNCHANGED vars
  BY <1>1 DEF vars, IInv, TypeOK, WriterAlone, BatchesCover, IndexComplete
<1>2. ASSUME NEW c \in Client, Begin(c) \/ CallStep(c) \/ Hangup(c) PROVE IInv'
  BY <1>2, BeginKeeps, LockKeeps, SearchKeeps, WriteKeeps DEF CallStep
<1> QED
  BY <1>1, <1>2 DEF Next

LEMMA IInvInvariant == ASSUME FiniteIds PROVE Spec => []IInv
<1>1. Init => IInv
  <2> SUFFICES ASSUME Init PROVE IInv
    OBVIOUS
  <2>1. ids \in Batch({}) /\ {} \in SUBSET Id
    BY DEF Init, Batch
  <2>2. index \in Index
    BY DEF Init, EmptyIndex, Index
  <2>3. call \in [Client -> CallState] /\ \A c \in Client : call[c].pc = "idle"
    BY DEF Init, Idle, CallState
  <2>4. TypeOK
    BY <2>1, <2>2, <2>3 DEF Init, TypeOK
  <2>5. IndexComplete
    BY <2>1 DEF Batch, IndexComplete
  <2> QED
    BY <2>3, <2>4, <2>5 DEF IInv, WriterAlone, BatchesCover
<1>2. IInv /\ [Next]_vars => IInv'
  BY IInvStep
<1> QED
  BY <1>1, <1>2, PTL DEF Spec

-----------------------------------------------------------------------------
(* The theorems.                                                           *)

\* The storage keeps its types.
THEOREM TypeCorrect == ASSUME FiniteIds PROVE Spec => []TypeOK
<1>1. IInv => TypeOK
  BY DEF IInv
<1> QED
  BY <1>1, IInvInvariant, PTL

\* Every stored pet is in the three indexes at its present name, type and
\* birthday, after any interleaving of calls on any store (mem.go populate,
\* DeletePets).
THEOREM PetsStayIndexed == ASSUME FiniteIds PROVE Spec => []IndexComplete
<1>1. IInv => IndexComplete
  BY DEF IInv
<1> QED
  BY <1>1, IInvInvariant, PTL

\* No writer gets in while a search streams (mem.go SearchPets).
THEOREM SearchesReadOneState == ASSUME FiniteIds PROVE Spec => SearchReadsOneState
<1>1. IInv /\ [Next]_vars => [Readers # {} => UNCHANGED <<ids, index>>]_vars
  <2> SUFFICES ASSUME IInv, Next, Readers # {} PROVE UNCHANGED <<ids, index>>
    OBVIOUS
  <2>1. \A c \in Client : call[c].pc # "write"
    BY DEF IInv, WriterAlone, Readers
  <2> QED
    BY <2>1 DEF Next, Begin, CallStep, AddPets, UpdatePets, DeletePets, SearchPets, Acquire, Release,
       PopulateOne, DeleteOne, NextMatch, SendMatch, GiveUp, Deliver, SearchDone, SearchReturn, Hangup
<1> QED
  BY <1>1, IInvInvariant, PTL DEF Spec, SearchReadsOneState

-----------------------------------------------------------------------------
(* What a search finds.                                                    *)

LEMMA Counted == ASSUME NEW S, IsFiniteSet(S), NEW x \in S PROVE Cardinality(S) \in Nat /\ Cardinality(S) >= 1
  BY FS_CardinalityType, FS_EmptySet

\* Each search counts a finite number of entries.
LEMMA SearchesCount ==
    ASSUME NEW n \in Nat, NEW f \in Filter(n), NEW x, NEW id
    PROVE  /\ IsFiniteSet({k \in DOMAIN f.names : id \in x.names[f.names[k]]})
           /\ IsFiniteSet({k \in DOMAIN f.types : id \in x.types[f.types[k]]})
           /\ f.born # <<>> =>
                IsFiniteSet({d \in Day : f.born[1] <= d /\ d < f.born[2] /\ id \in x.birthday[d]})
<1>1. (\E k \in Nat : DOMAIN f.names = 1 .. k) /\ (\E k \in Nat : DOMAIN f.types = 1 .. k)
  BY DEF Filter
<1>2. IsFiniteSet(DOMAIN f.names) /\ IsFiniteSet(DOMAIN f.types)
  BY <1>1, FS_Interval
<1>3. ASSUME f.born # <<>>
      PROVE  IsFiniteSet({d \in Day : f.born[1] <= d /\ d < f.born[2] /\ id \in x.birthday[d]})
  <2>1. f.born \in Day \X Day
    BY <1>3 DEF Filter, DateRange
  <2>2. f.born[1] \in Nat /\ f.born[2] \in Nat
    BY <2>1, DayAssumption
  <2>3. \A d \in Day : f.born[1] <= d /\ d < f.born[2] => d \in f.born[1] .. f.born[2]
    BY <2>2, DayAssumption
  <2>4. {d \in Day : f.born[1] <= d /\ d < f.born[2] /\ id \in x.birthday[d]}
          \in SUBSET (f.born[1] .. f.born[2])
    BY <2>3
  <2>5. IsFiniteSet(f.born[1] .. f.born[2])
    <3>1. f.born[1] \in Int /\ f.born[2] \in Int
      BY <2>2
    <3> QED
      BY <3>1, FS_Interval
  <2> QED
    BY <2>4, <2>5, FS_Subset
<1> QED
  BY <1>2, <1>3, FS_Subset

\* The number of filters, as a sum.
LEMMA NumFiltersIsSum ==
    ASSUME NEW f
    PROVE  NumFilters(f) = (IF f["names"] # <<>> THEN 1 ELSE 0) + (IF f["types"] # <<>> THEN 1 ELSE 0)
                             + (IF f["born"] # <<>> THEN 1 ELSE 0)
<1> DEFINE Of(x) == IF f[x] # <<>> THEN {x} ELSE {}
           A == Of("names")
           B == A \cup Of("types")
           C == B \cup Of("born")
<1>1. IsFiniteSet(A) /\ Cardinality(A) = IF f["names"] # <<>> THEN 1 ELSE 0
  BY FS_EmptySet, FS_Singleton
<1>2. /\ IsFiniteSet(B)
      /\ Cardinality(B) = Cardinality(A) + IF f["types"] # <<>> THEN 1 ELSE 0
  <2>1. "types" \notin A
    OBVIOUS
  <2>2. B = A \cup (IF f["types"] # <<>> THEN {"types"} ELSE {})
    OBVIOUS
  <2> HIDE DEF A, B
  <2>3. /\ IsFiniteSet(A \cup {"types"})
        /\ Cardinality(A \cup {"types"}) = Cardinality(A) + 1
    BY <1>1, <2>1, FS_AddElement
  <2>4. A \cup {} = A /\ Cardinality(A) \in Nat
    BY <1>1, FS_CardinalityType
  <2>5. CASE f["types"] # <<>>
    BY <2>2, <2>3, <2>5
  <2>6. CASE f["types"] = <<>>
    BY <1>1, <2>2, <2>4, <2>6
  <2> QED
    BY <2>5, <2>6
<1>3. Cardinality(C) = Cardinality(B) + IF f["born"] # <<>> THEN 1 ELSE 0
  <2>1. "born" \notin B
    OBVIOUS
  <2>2. C = B \cup (IF f["born"] # <<>> THEN {"born"} ELSE {})
    OBVIOUS
  <2> HIDE DEF B, C
  <2>3. Cardinality(B \cup {"born"}) = Cardinality(B) + 1
    BY <1>2, <2>1, FS_AddElement
  <2>4. B \cup {} = B /\ Cardinality(B) \in Nat
    BY <1>2, FS_CardinalityType
  <2>5. CASE f["born"] # <<>>
    BY <2>2, <2>3, <2>5
  <2>6. CASE f["born"] = <<>>
    BY <1>2, <2>2, <2>4, <2>6
  <2> QED
    BY <2>5, <2>6
<1>4. {x \in {"names", "types", "born"} : f[x] # <<>>} = C
  OBVIOUS
<1>5. NumFilters(f) = Cardinality(C)
  BY <1>4 DEF NumFilters
<1> HIDE DEF A, B, C
<1> QED
  BY <1>1, <1>2, <1>3, <1>5

\* Each search that a filter asks for counts a pet that matches at least once.
LEMMA MatchIsFound ==
    ASSUME FiniteIds, IInv, NEW n \in Nat, NEW f \in Filter(n),
           NEW id \in DOMAIN ids, Matches(ids[id], f)
    PROVE  id \in Found(index, f)
<1> DEFINE p == ids[id]
           Names == {k \in DOMAIN f.names : id \in index.names[f.names[k]]}
           Types == {k \in DOMAIN f.types : id \in index.types[f.types[k]]}
           Born == {d \in Day : f.born[1] <= d /\ d < f.born[2] /\ id \in index.birthday[d]}
<1>1. id \in Id /\ p \in Pet /\ Indexed(index, id, p)
  BY DEF IInv, TypeOK, Batch, IndexComplete
<1>2. /\ Cardinality(Names) \in Nat
      /\ f.names # <<>> => Cardinality(Names) >= 1
  <2>1. f.names # <<>> => \E k : k \in Names
    BY <1>1 DEF Matches, Indexed
  <2>2. IsFiniteSet(Names)
    BY SearchesCount
  <2> HIDE DEF Names
  <2> QED
    BY <2>1, <2>2, Counted, FS_CardinalityType
<1>3. /\ Cardinality(Types) \in Nat
      /\ f.types # <<>> => Cardinality(Types) >= 1
  <2>1. f.types # <<>> => \E k : k \in Types
    BY <1>1 DEF Matches, Indexed
  <2>2. IsFiniteSet(Types)
    BY SearchesCount
  <2> HIDE DEF Types
  <2> QED
    BY <2>1, <2>2, Counted, FS_CardinalityType
<1>4. f.born # <<>> => Cardinality(Born) \in Nat /\ Cardinality(Born) >= 1
  <2> SUFFICES ASSUME f.born # <<>> PROVE Cardinality(Born) \in Nat /\ Cardinality(Born) >= 1
    OBVIOUS
  <2>1. p.birthday \in Born
    BY <1>1 DEF Matches, Indexed, Pet
  <2>2. IsFiniteSet(Born)
    BY SearchesCount
  <2> HIDE DEF Born
  <2> QED
    BY <2>1, <2>2, Counted
<1>5. /\ ByNames(index, f, id) = Cardinality(Names)
      /\ ByTypes(index, f, id) = Cardinality(Types)
      /\ ByBirthdays(index, f, id) = IF f.born = <<>> THEN 0 ELSE Cardinality(Born)
  BY DEF ByNames, ByTypes, ByBirthdays
<1>6. NumFilters(f) = (IF f.names # <<>> THEN 1 ELSE 0) + (IF f.types # <<>> THEN 1 ELSE 0)
                        + (IF f.born # <<>> THEN 1 ELSE 0)
  BY NumFiltersIsSum DEF Filter
<1> HIDE DEF Names, Types, Born
<1>7. ByNames(index, f, id) + ByTypes(index, f, id) + ByBirthdays(index, f, id) >= NumFilters(f)
  BY <1>2, <1>3, <1>4, <1>5, <1>6
<1> QED
  BY <1>1, <1>7 DEF Found

\* No search misses a pet: whatever has been added, updated and deleted, one
\* that every filter of the request matches is found, since each search
\* counts it at least once (mem.go searchPets: "if all matches succeed we
\* stream the entry found").  Stale entries only add to what is found.
THEOREM SearchMissesNothing ==
    ASSUME FiniteIds, NEW n \in Nat, NEW f \in Filter(n)
    PROVE  Spec => [](\A id \in DOMAIN ids : Matches(ids[id], f) => id \in Found(index, f))
<1>1. IInv => \A id \in DOMAIN ids : Matches(ids[id], f) => id \in Found(index, f)
  BY MatchIsFound
<1> QED
  BY <1>1, IInvInvariant, PTL
-----------------------------------------------------------------------------
(* What else a search finds.                                               *)

\* A pet that was never replaced is indexed at its keys and nowhere else, and
\* one that is not stored is not indexed.
Accurate ==
    \A id \in Id \ renewed :
        /\ \A n \in Name : id \in index.names[n] => id \in DOMAIN ids /\ ids[id].name = n
        /\ \A t \in Type : id \in index.types[t] => id \in DOMAIN ids /\ ids[id].type = t
        /\ \A d \in Day : id \in index.birthday[d] => id \in DOMAIN ids /\ ids[id].birthday = d

\* A batch that is being written replaces pets that count as replaced.
BatchesRenew ==
    \A c \in Client : call[c].pc = "write" /\ call[c].op # "delete" =>
        call[c].todo \cap DOMAIN ids \subseteq renewed

AInv == IInv /\ Accurate /\ BatchesRenew

\* A step of one call that leaves the pets alone.
LEMMA AccurateKept ==
    ASSUME AInv, NEW c \in Client, NEW r, call' = [call EXCEPT ![c] = r],
           ids' = ids, index' = index, renewed \subseteq renewed',
           r.pc = "write" /\ r.op # "delete" => r.todo \cap DOMAIN ids \subseteq renewed'
    PROVE  Accurate' /\ BatchesRenew'
<1>1. Accurate'
  BY DEF AInv, Accurate
<1>2. BatchesRenew'
  BY DEF AInv, IInv, TypeOK, BatchesRenew
<1> QED
  BY <1>1, <1>2

\* One turn of populate's loop enters the pet under its keys alone.
LEMMA PopulateAccurate ==
    ASSUME AInv, NEW c \in Client, NEW id \in Id, PopulateOne(c, id)
    PROVE  Accurate'
<1> DEFINE p == call[c].pets[id]
<1>1. ids' = WithPet(ids, id, p) /\ index' = Enter(index, id, p) /\ renewed' = renewed
  BY DEF PopulateOne
<1>2. id \in DOMAIN ids => id \in renewed
  BY DEF PopulateOne, AInv, BatchesRenew
<1> HIDE DEF p
<1>3. /\ DOMAIN ids' = DOMAIN ids \cup {id} /\ ids'[id] = p
      /\ \A other \in DOMAIN ids \ {id} : ids'[other] = ids[other]
  BY <1>1 DEF WithPet
<1>4. index \in Index
  BY DEF AInv, IInv, TypeOK
<1>5. /\ \A n \in Name : \A x : x \in index'.names[n] => x \in index.names[n] \/ (x = id /\ n = p.name)
      /\ \A t \in Type : \A x : x \in index'.types[t] => x \in index.types[t] \/ (x = id /\ t = p.type)
      /\ \A d \in Day : \A x : x \in index'.birthday[d] => x \in index.birthday[d] \/ (x = id /\ d = p.birthday)
  BY <1>1, <1>4 DEF Enter, Index
<1>6. ASSUME NEW x \in Id \ renewed
      PROVE  /\ \A n \in Name : x \in index'.names[n] => x \in DOMAIN ids' /\ ids'[x].name = n
             /\ \A t \in Type : x \in index'.types[t] => x \in DOMAIN ids' /\ ids'[x].type = t
             /\ \A d \in Day : x \in index'.birthday[d] => x \in DOMAIN ids' /\ ids'[x].birthday = d
  <2>1. /\ \A n \in Name : x \in index.names[n] => x \in DOMAIN ids /\ ids[x].name = n
        /\ \A t \in Type : x \in index.types[t] => x \in DOMAIN ids /\ ids[x].type = t
        /\ \A d \in Day : x \in index.birthday[d] => x \in DOMAIN ids /\ ids[x].birthday = d
    BY <1>6 DEF AInv, Accurate
  <2>2. CASE x = id
    BY <1>2, <1>3, <1>5, <2>1, <2>2
  <2>3. CASE x # id
    BY <1>3, <1>5, <2>1, <2>3
  <2> QED
    BY <2>2, <2>3
<1> QED
  BY <1>1, <1>6 DEF Accurate

\* A deletion takes a pet that was never replaced out of all it is indexed at.
LEMMA DeleteAccurate ==
    ASSUME AInv, NEW c \in Client, NEW id \in DOMAIN ids, DeleteOne(c, id)
    PROVE  Accurate'
<1> DEFINE p == ids[id]
<1>1. ids' = WithoutPet(ids, id) /\ index' = Leave(index, id, p) /\ renewed' = renewed
  BY DEF DeleteOne
<1>2. p \in Pet
  BY DEF AInv, IInv, TypeOK, Batch
<1>3. /\ DOMAIN ids' = DOMAIN ids \ {id}
      /\ \A other \in DOMAIN ids \ {id} : ids'[other] = ids[other]
  BY <1>1 DEF WithoutPet
<1>4. index \in Index
  BY DEF AInv, IInv, TypeOK
<1>5. ASSUME NEW S PROVE Drop(S, id) \subseteq S \ {id} \/ (Drop(S, id) = {})
  BY DEF Drop
<1>6. /\ \A n \in Name : \A x : x \in index'.names[n] => x \in index.names[n] /\ ~(x = id /\ n = p.name)
      /\ \A t \in Type : \A x : x \in index'.types[t] => x \in index.types[t] /\ ~(x = id /\ t = p.type)
      /\ \A d \in Day : \A x : x \in index'.birthday[d] => x \in index.birthday[d] /\ ~(x = id /\ d = p.birthday)
  BY <1>1, <1>2, <1>4, <1>5 DEF Leave, Index, Pet
<1>7. ASSUME NEW x \in Id \ renewed
      PROVE  /\ \A n \in Name : x \in index'.names[n] => x \in DOMAIN ids' /\ ids'[x].name = n
             /\ \A t \in Type : x \in index'.types[t] => x \in DOMAIN ids' /\ ids'[x].type = t
             /\ \A d \in Day : x \in index'.birthday[d] => x \in DOMAIN ids' /\ ids'[x].birthday = d
  <2>1. /\ \A n \in Name : x \in index.names[n] => x \in DOMAIN ids /\ ids[x].name = n
        /\ \A t \in Type : x \in index.types[t] => x \in DOMAIN ids /\ ids[x].type = t
        /\ \A d \in Day : x \in index.birthday[d] => x \in DOMAIN ids /\ ids[x].birthday = d
    BY <1>7 DEF AInv, Accurate
  <2>2. CASE x = id
    BY <1>6, <2>1, <2>2
  <2>3. CASE x # id
    BY <1>3, <1>6, <2>1, <2>3
  <2> QED
    BY <2>2, <2>3
<1> QED
  BY <1>1, <1>7 DEF Accurate

LEMMA AInvStep == ASSUME AInv, IInv', [Next]_vars PROVE AInv'
<1>1. CASE UNCHANGED vars
  BY <1>1 DEF vars, AInv, Accurate, BatchesRenew
<1>2. ASSUME NEW c \in Client, Begin(c) PROVE Accurate' /\ BatchesRenew'
  <2>1. UNCHANGED <<ids, index, renewed>>
    BY <1>2 DEF Begin, AddPets, UpdatePets, DeletePets, SearchPets
  <2>2. \A d \in Client : call'[d].pc = "write" => call'[d] = call[d]
    BY <1>2 DEF Begin, AddPets, UpdatePets, DeletePets, SearchPets, Become, AInv, IInv, TypeOK
  <2> QED
    BY <2>1, <2>2 DEF AInv, Accurate, BatchesRenew
<1>3. ASSUME NEW c \in Client, Acquire(c) PROVE Accurate' /\ BatchesRenew'
  <2> DEFINE r == [call[c] EXCEPT !.pc = "write"]
  <2>1. call[c] \in CallState /\ call[c].pc = "lock" /\ call' = [call EXCEPT ![c] = r]
    BY <1>3 DEF Acquire, AInv, IInv, TypeOK
  <2>2. r.op = call[c].op /\ r.todo = call[c].todo
    BY <2>1 DEF CallState
  <2>3. /\ ids' = ids /\ index' = index /\ renewed \subseteq renewed'
        /\ call[c].op # "delete" => call[c].todo \cap DOMAIN ids \subseteq renewed'
    BY <1>3 DEF Acquire
  <2> HIDE DEF r
  <2> QED
    BY <2>1, <2>2, <2>3, AccurateKept
<1>4. ASSUME NEW c \in Client, NEW id \in Id, PopulateOne(c, id) PROVE Accurate' /\ BatchesRenew'
  <2>1. /\ call[c].pc = "write" /\ call[c].op # "delete" /\ call[c] \in CallState
        /\ call' = [call EXCEPT ![c] = [call[c] EXCEPT !.todo = @ \ {id}]]
        /\ DOMAIN ids' = DOMAIN ids \cup {id} /\ renewed' = renewed
    BY <1>4 DEF PopulateOne, WithPet, AInv, IInv, TypeOK
  <2>2. \A d \in Client : call[d].pc = "write" => d = c
    BY <2>1 DEF AInv, IInv, WriterAlone
  <2>3. /\ call'[c].todo = call[c].todo \ {id}
        /\ \A d \in Client \ {c} : call'[d] = call[d]
    BY <2>1 DEF AInv, IInv, TypeOK, CallState
  <2>4. call[c].todo \cap DOMAIN ids \subseteq renewed
    BY <2>1 DEF AInv, BatchesRenew
  <2>5. BatchesRenew'
    BY <2>1, <2>2, <2>3, <2>4 DEF BatchesRenew
  <2> QED
    BY <1>4, <2>5, PopulateAccurate
<1>5. ASSUME NEW c \in Client, NEW id \in Id, DeleteOne(c, id) PROVE Accurate' /\ BatchesRenew'
  <2>1. /\ call[c].pc = "write" /\ call[c].op = "delete" /\ call[c] \in CallState
        /\ call' = [call EXCEPT ![c] = [call[c] EXCEPT !.todo = @ \ {id}]] /\ renewed' = renewed
    BY <1>5 DEF DeleteOne, AInv, IInv, TypeOK
  <2>2. \A d \in Client : call[d].pc = "write" => d = c
    BY <2>1 DEF AInv, IInv, WriterAlone
  <2>3. call'[c].op = "delete" /\ \A d \in Client \ {c} : call'[d] = call[d]
    BY <2>1 DEF AInv, IInv, TypeOK, CallState
  <2>4. BatchesRenew'
    BY <2>1, <2>2, <2>3 DEF BatchesRenew
  <2>5. CASE id \in DOMAIN ids
    BY <1>5, <2>4, <2>5, DeleteAccurate
  <2>6. CASE id \notin DOMAIN ids
    <3>1. ids' = ids /\ index' = index
      BY <1>5, <2>6 DEF DeleteOne
    <3> QED
      BY <2>1, <2>4, <3>1 DEF AInv, Accurate
  <2> QED
    BY <2>5, <2>6
<1>6. ASSUME NEW c \in Client,
             \/ Release(c) \/ NextMatch(c) \/ SendMatch(c) \/ GiveUp(c) \/ Deliver(c) \/ SearchDone(c)
             \/ SearchReturn(c) \/ Hangup(c)
      PROVE  Accurate' /\ BatchesRenew'
  <2>1. UNCHANGED <<ids, index, renewed>> /\ call[c] \in CallState
    BY <1>6 DEF Release, NextMatch, SendMatch, GiveUp, Deliver, SearchDone, SearchReturn, Hangup,
                AInv, IInv, TypeOK
  <2>2. PICK r : call' = [call EXCEPT ![c] = r] /\ r.pc # "write"
    <3>1. CASE NextMatch(c)
      <4>1. PICK id \in call[c].todo : call' = [call EXCEPT ![c] =
              [call[c] EXCEPT !.pc = "sending", !.todo = @ \ {id}, !.sent = @ \cup {id}]]
        BY <3>1 DEF NextMatch
      <4>2. [call[c] EXCEPT !.pc = "sending", !.todo = @ \ {id}, !.sent = @ \cup {id}].pc # "write"
        BY <2>1, <3>1 DEF NextMatch, CallState
      <4> QED
        BY <4>1, <4>2
    <3>2. CASE SendMatch(c)
      <4>1. call' = [call EXCEPT ![c] = [call[c] EXCEPT !.pc = "search", !.buf = "item"]]
        BY <3>2 DEF SendMatch
      <4>2. [call[c] EXCEPT !.pc = "search", !.buf = "item"].pc # "write"
        BY <2>1, <3>2 DEF SendMatch, CallState
      <4> QED
        BY <4>1, <4>2
    <3>3. CASE Deliver(c)
      <4>1. call' = [call EXCEPT ![c] = [call[c] EXCEPT !.buf = "empty"]]
        BY <3>3 DEF Deliver
      <4>2. [call[c] EXCEPT !.buf = "empty"].pc # "write"
        BY <2>1, <3>3 DEF Deliver, CallState
      <4> QED
        BY <4>1, <4>2
    <3>4. CASE Hangup(c)
      <4>1. call' = [call EXCEPT ![c] = [call[c] EXCEPT !.with = FALSE]]
        BY <3>4 DEF Hangup
      <4>2. [call[c] EXCEPT !.with = FALSE].pc # "write"
        BY <2>1, <3>4 DEF Hangup, CallState
      <4> QED
        BY <4>1, <4>2
    <3>5. CASE SearchDone(c)
      <4> DEFINE r == IF call[c].with THEN [pc |-> "drain", buf |-> call[c].buf, with |-> TRUE] ELSE Idle
      <4>1. r.pc # "write"
        BY IdleFits
      <4>2. call' = [call EXCEPT ![c] = r]
        BY <3>5 DEF SearchDone, Become
      <4> HIDE DEF r
      <4> QED
        BY <4>1, <4>2
    <3>6. CASE Release(c) \/ GiveUp(c) \/ SearchReturn(c)
      BY <3>6, IdleFits DEF Release, GiveUp, SearchReturn, Become
    <3> QED
      BY <1>6, <3>1, <3>2, <3>3, <3>4, <3>5, <3>6
  <2> QED
    BY <2>1, <2>2, AccurateKept
<1> QED
  BY <1>1, <1>2, <1>3, <1>4, <1>5, <1>6 DEF AInv, Next, CallStep

LEMMA AInvInvariant == ASSUME FiniteIds PROVE Spec => []AInv
<1>1. Init => Accurate /\ BatchesRenew
  BY IdleFits DEF Init, Accurate, BatchesRenew, EmptyIndex
<1>2. AInv /\ IInv' /\ [Next]_vars => AInv'
  BY AInvStep
<1>3. IInv /\ Accurate /\ BatchesRenew => AInv
  BY DEF AInv
<1>4. Spec => []IInv
  BY IInvInvariant
<1> QED
  BY <1>1, <1>2, <1>3, <1>4, PTL DEF Spec

\* A set whose elements are the same has one, or none.
LEMMA AtMostOne ==
    ASSUME NEW K, \A j, k \in K : j = k
    PROVE  (K = {} => Cardinality(K) = 0) /\ (K # {} => Cardinality(K) = 1)
<1>1. CASE K = {}
  BY <1>1, FS_EmptySet
<1>2. CASE K # {}
  <2>1. PICK k \in K : TRUE
    BY <1>2
  <2>2. K = {k}
    BY <2>1
  <2> QED
    BY <1>2, <2>2, FS_Singleton
<1> QED
  BY <1>1, <1>2

\* What a search with no filter is for.
LEMMA EverythingMatches == ASSUME NEW f, Everything(f), NEW p PROVE Matches(p, f)
<1>1. NumFilters(f) = (IF f.names # <<>> THEN 1 ELSE 0) + (IF f.types # <<>> THEN 1 ELSE 0)
                        + (IF f.born # <<>> THEN 1 ELSE 0)
  BY NumFiltersIsSum
<1> QED
  BY <1>1 DEF Everything, Matches

\* A pet that was never replaced is found only if it matches, for no search
\* counts it twice.
LEMMA FoundMatches ==
    ASSUME AInv, NEW n \in Nat, NEW f \in Filter(n), Distinct(f.names), Distinct(f.types), ~Everything(f),
           NEW id \in Found(index, f) \ renewed
    PROVE  id \in DOMAIN ids /\ Matches(ids[id], f)
<1> DEFINE Names == {k \in DOMAIN f.names : id \in index.names[f.names[k]]}
           Types == {k \in DOMAIN f.types : id \in index.types[f.types[k]]}
           Born == {d \in Day : f.born[1] <= d /\ d < f.born[2] /\ id \in index.birthday[d]}
<1>1. id \in Id \ renewed
  BY DEF Found
<1>2. /\ \A k \in Name : id \in index.names[k] => id \in DOMAIN ids /\ ids[id].name = k
      /\ \A t \in Type : id \in index.types[t] => id \in DOMAIN ids /\ ids[id].type = t
      /\ \A d \in Day : id \in index.birthday[d] => id \in DOMAIN ids /\ ids[id].birthday = d
  BY <1>1 DEF AInv, Accurate
<1>3. /\ \A k \in DOMAIN f.names : f.names[k] \in Name
      /\ \A k \in DOMAIN f.types : f.types[k] \in Type
  BY DEF Filter
<1>4. /\ \A k \in Names : id \in DOMAIN ids /\ f.names[k] = ids[id].name
      /\ \A k \in Types : id \in DOMAIN ids /\ f.types[k] = ids[id].type
      /\ \A d \in Born : id \in DOMAIN ids /\ d = ids[id].birthday /\ f.born[1] <= d /\ d < f.born[2]
  BY <1>2, <1>3
<1>5. /\ \A j, k \in Names : j = k
      /\ \A j, k \in Types : j = k
      /\ \A j, k \in Born : j = k
  BY <1>4 DEF Distinct
<1>6. /\ f.names = <<>> => Names = {}
      /\ f.types = <<>> => Types = {}
  OBVIOUS
<1>7. /\ ByNames(index, f, id) = Cardinality(Names)
      /\ ByTypes(index, f, id) = Cardinality(Types)
      /\ ByBirthdays(index, f, id) = IF f.born = <<>> THEN 0 ELSE Cardinality(Born)
  BY DEF ByNames, ByTypes, ByBirthdays
<1> HIDE DEF Names, Types, Born
<1>8. /\ (Names = {} => Cardinality(Names) = 0) /\ (Names # {} => Cardinality(Names) = 1)
      /\ (Types = {} => Cardinality(Types) = 0) /\ (Types # {} => Cardinality(Types) = 1)
      /\ (Born = {} => Cardinality(Born) = 0) /\ (Born # {} => Cardinality(Born) = 1)
  BY <1>5, AtMostOne
<1>9. NumFilters(f) = (IF f.names # <<>> THEN 1 ELSE 0) + (IF f.types # <<>> THEN 1 ELSE 0)
                        + (IF f.born # <<>> THEN 1 ELSE 0)
  BY NumFiltersIsSum
<1>10. ByNames(index, f, id) + ByTypes(index, f, id) + ByBirthdays(index, f, id) >= NumFilters(f)
  BY DEF Found
<1>11. /\ f.names # <<>> => Names # {}
       /\ f.types # <<>> => Types # {}
       /\ f.born # <<>> => Born # {}
  BY <1>6, <1>7, <1>8, <1>9, <1>10
<1>12. f.names # <<>> \/ f.types # <<>> \/ f.born # <<>>
  BY <1>9 DEF Everything
<1>13. id \in DOMAIN ids
  BY <1>4, <1>11, <1>12
<1>14. /\ f.names # <<>> => \E k \in DOMAIN f.names : f.names[k] = ids[id].name
       /\ f.types # <<>> => \E k \in DOMAIN f.types : f.types[k] = ids[id].type
  BY <1>4, <1>11 DEF Names, Types
<1>15. f.born # <<>> => f.born[1] <= ids[id].birthday /\ ids[id].birthday < f.born[2]
  BY <1>4, <1>11
<1> QED
  BY <1>13, <1>14, <1>15 DEF Matches

-----------------------------------------------------------------------------
(* The promises of the interface.                                          *)

\* The lists and ranges that clients ask for are finite.
FiltersBounded == \E n \in Nat : Filters \subseteq Filter(n)

\* No list names a value twice: a pet counts once for each.
FiltersDistinct == \A f \in Filters : Distinct(f.names) /\ Distinct(f.types)

\* A batch that waits for the lock has a pet for each id, and for no other.
WholeBatch(r) == r.pc = "lock" /\ r.op # "delete" => r.todo = DOMAIN r.pets

\* A search has sent, or is still to send, every pet that matches, and of those
\* that were never replaced no other.
Answers(r, p, R) ==
    r.pc \in {"search", "sending"} =>
        /\ r.todo \cap r.sent = {}
        /\ \A id \in DOMAIN p : Matches(p[id], r.filter) => id \in r.todo \cup r.sent
        /\ \A id \in r.todo :
             \/ id \in DOMAIN p /\ Matches(p[id], r.filter)
             \/ id \in R /\ ~Everything(r.filter)

Promised == \A c \in Client : WholeBatch(call[c]) /\ Answers(call[c], ids, renewed)

RInv == AInv /\ Promised

\* A step of one call that leaves the ids alone.
LEMMA PromisedKept ==
    ASSUME RInv, NEW c \in Client, NEW r, call' = [call EXCEPT ![c] = r], ids' = ids,
           renewed \subseteq renewed', WholeBatch(r), Answers(r, ids, renewed)
    PROVE  Promised'
  BY DEF RInv, AInv, Promised, IInv, TypeOK, Answers

LEMMA PromisedNext == ASSUME FiniteIds, FiltersBounded, FiltersDistinct, RInv, [Next]_vars PROVE Promised'
<1>1. CASE UNCHANGED vars
  BY <1>1 DEF vars, RInv, Promised
<1>2. ASSUME NEW c \in Client, Begin(c) PROVE Promised'
  <2>1. CASE UNCHANGED <<call, ids>>
    <3>1. renewed' = renewed
      BY <1>2 DEF Begin, AddPets, UpdatePets, DeletePets, SearchPets
    <3> QED
      BY <2>1, <3>1 DEF RInv, Promised
  <2>2. CASE (AddPets(c) \/ UpdatePets(c)) /\ ~UNCHANGED call
    <3>1. PICK S \in SUBSET Id, op \in {"add", "update"} : \E b \in Batch(S) :
            call' = [call EXCEPT ![c] = [pc |-> "lock", op |-> op, todo |-> S, pets |-> b]]
      BY <2>2 DEF AddPets, UpdatePets, Become, RInv, AInv, IInv, TypeOK
    <3>2. PICK b \in Batch(S) :
            call' = [call EXCEPT ![c] = [pc |-> "lock", op |-> op, todo |-> S, pets |-> b]]
      BY <3>1
    <3> DEFINE r == [pc |-> "lock", op |-> op, todo |-> S, pets |-> b]
    <3>3. WholeBatch(r) /\ Answers(r, ids, renewed)
      BY DEF WholeBatch, Answers, Batch
    <3>4. call' = [call EXCEPT ![c] = r] /\ ids' = ids /\ renewed' = renewed
      BY <2>2, <3>2 DEF AddPets, UpdatePets
    <3> HIDE DEF r
    <3> QED
      BY <3>3, <3>4, PromisedKept
  <2>3. CASE DeletePets(c)
    <3>1. PICK S : call' = [call EXCEPT ![c] = [pc |-> "lock", op |-> "delete", todo |-> S]]
      BY <2>3 DEF DeletePets, Become
    <3> DEFINE r == [pc |-> "lock", op |-> "delete", todo |-> S]
    <3>2. WholeBatch(r) /\ Answers(r, ids, renewed)
      BY DEF WholeBatch, Answers
    <3>3. call' = [call EXCEPT ![c] = r] /\ ids' = ids /\ renewed' = renewed
      BY <2>3, <3>1 DEF DeletePets
    <3> HIDE DEF r
    <3> QED
      BY <3>2, <3>3, PromisedKept
  <2>4. CASE SearchPets(c)
    <3>1. PICK f \in Filters : call' = [call EXCEPT ![c] =
             [pc |-> "search", filter |-> f, buf |-> "empty", with |-> TRUE, sent |-> {},
              todo |-> IF Everything(f) THEN DOMAIN ids ELSE Found(index, f)]]
      BY <2>4 DEF SearchPets, Become
    <3> DEFINE r == [pc |-> "search", filter |-> f, buf |-> "empty", with |-> TRUE, sent |-> {},
                     todo |-> IF Everything(f) THEN DOMAIN ids ELSE Found(index, f)]
    <3>2. \A id \in DOMAIN ids : Matches(ids[id], f) => id \in Found(index, f)
      BY MatchIsFound DEF FiltersBounded, RInv, AInv
    <3>3. \A id \in DOMAIN ids : Everything(f) => Matches(ids[id], f)
      BY EverythingMatches
    <3>4. ~Everything(f) => \A id \in Found(index, f) \ renewed : id \in DOMAIN ids /\ Matches(ids[id], f)
      BY FoundMatches DEF FiltersBounded, FiltersDistinct, RInv
    <3>5. WholeBatch(r) /\ Answers(r, ids, renewed)
      BY <3>2, <3>3, <3>4 DEF WholeBatch, Answers
    <3>6. call' = [call EXCEPT ![c] = r] /\ ids' = ids /\ renewed' = renewed
      BY <2>4, <3>1 DEF SearchPets
    <3> HIDE DEF r
    <3> QED
      BY <3>5, <3>6, PromisedKept
  <2> QED
    BY <1>2, <2>1, <2>2, <2>3, <2>4 DEF Begin, AddPets, UpdatePets
<1>3. ASSUME NEW c \in Client, CallStep(c) \/ Hangup(c),
             ~\E id \in Id : PopulateOne(c, id) \/ DeleteOne(c, id)
      PROVE  Promised'
  <2>1. call[c] \in CallState /\ WholeBatch(call[c]) /\ Answers(call[c], ids, renewed)
    BY DEF RInv, AInv, IInv, TypeOK, Promised
  <2>2. PICK r : call' = [call EXCEPT ![c] = r] /\ ids' = ids /\ renewed \subseteq renewed' /\ WholeBatch(r) /\ Answers(r, ids, renewed)
    <3>1. CASE Acquire(c)
      <4>1. call' = [call EXCEPT ![c] = [call[c] EXCEPT !.pc = "write"]] /\ ids' = ids /\ renewed \subseteq renewed'
        BY <3>1 DEF Acquire
      <4>2. [call[c] EXCEPT !.pc = "write"].pc = "write"
        BY <2>1, <3>1 DEF Acquire, CallState
      <4> QED
        BY <4>1, <4>2 DEF WholeBatch, Answers
    <3>2. CASE Release(c) \/ GiveUp(c) \/ SearchReturn(c)
      BY <3>2, IdleFits DEF Release, GiveUp, SearchReturn, Become, WholeBatch, Answers
    <3>3. CASE NextMatch(c)
      <4>1. PICK id \in call[c].todo : call' = [call EXCEPT ![c] =
              [call[c] EXCEPT !.pc = "sending", !.todo = @ \ {id}, !.sent = @ \cup {id}]]
        BY <3>3 DEF NextMatch
      <4> DEFINE r == [call[c] EXCEPT !.pc = "sending", !.todo = @ \ {id}, !.sent = @ \cup {id}]
      <4>2. /\ r.pc = "sending" /\ r.filter = call[c].filter
            /\ r.todo = call[c].todo \ {id} /\ r.sent = call[c].sent \cup {id}
        BY <2>1, <3>3 DEF NextMatch, CallState
      <4>3. WholeBatch(r) /\ Answers(r, ids, renewed)
        BY <2>1, <3>3, <4>2 DEF NextMatch, WholeBatch, Answers
      <4>4. call' = [call EXCEPT ![c] = r] /\ ids' = ids /\ renewed \subseteq renewed'
        BY <3>3, <4>1 DEF NextMatch
      <4> QED
        BY <4>3, <4>4
    <3>4. CASE SendMatch(c)
      <4> DEFINE r == [call[c] EXCEPT !.pc = "search", !.buf = "item"]
      <4>1. /\ r.pc = "search" /\ r.filter = call[c].filter
            /\ r.todo = call[c].todo /\ r.sent = call[c].sent
        BY <2>1, <3>4 DEF SendMatch, CallState
      <4>2. WholeBatch(r) /\ Answers(r, ids, renewed)
        BY <2>1, <3>4, <4>1 DEF SendMatch, WholeBatch, Answers
      <4>3. call' = [call EXCEPT ![c] = r] /\ ids' = ids /\ renewed \subseteq renewed'
        BY <3>4 DEF SendMatch
      <4> QED
        BY <4>2, <4>3
    <3>5. CASE Deliver(c)
      <4> DEFINE r == [call[c] EXCEPT !.buf = "empty"]
      <4>1. r.pc = call[c].pc
        BY <2>1, <3>5 DEF Deliver, CallState
      <4>2. r.pc \in {"search", "sending"} =>
              r.filter = call[c].filter /\ r.todo = call[c].todo /\ r.sent = call[c].sent
        BY <2>1, <3>5 DEF Deliver, CallState
      <4>3. WholeBatch(r) /\ Answers(r, ids, renewed)
        BY <2>1, <3>5, <4>1, <4>2 DEF Deliver, WholeBatch, Answers
      <4>4. call' = [call EXCEPT ![c] = r] /\ ids' = ids /\ renewed \subseteq renewed'
        BY <3>5 DEF Deliver
      <4> QED
        BY <4>3, <4>4
    <3>6. CASE SearchDone(c)
      <4> DEFINE r == IF call[c].with THEN [pc |-> "drain", buf |-> call[c].buf, with |-> TRUE] ELSE Idle
      <4>1. r.pc \in {"drain", "idle"}
        BY IdleFits
      <4>2. WholeBatch(r) /\ Answers(r, ids, renewed)
        BY <4>1 DEF WholeBatch, Answers
      <4>3. call' = [call EXCEPT ![c] = r] /\ ids' = ids /\ renewed \subseteq renewed'
        BY <3>6 DEF SearchDone, Become
      <4> QED
        BY <4>2, <4>3
    <3>7. CASE Hangup(c)
      <4> DEFINE r == [call[c] EXCEPT !.with = FALSE]
      <4>1. /\ r.pc = call[c].pc /\ r.filter = call[c].filter
            /\ r.todo = call[c].todo /\ r.sent = call[c].sent
        BY <2>1, <3>7 DEF Hangup, CallState
      <4>2. WholeBatch(r) /\ Answers(r, ids, renewed)
        BY <2>1, <3>7, <4>1 DEF Hangup, WholeBatch, Answers
      <4>3. call' = [call EXCEPT ![c] = r] /\ ids' = ids /\ renewed \subseteq renewed'
        BY <3>7 DEF Hangup
      <4> QED
        BY <4>2, <4>3
    <3> QED
      BY <1>3, <3>1, <3>2, <3>3, <3>4, <3>5, <3>6, <3>7 DEF CallStep
  <2> QED
    BY <2>2, PromisedKept
<1>4. ASSUME NEW c \in Client, NEW id \in Id, PopulateOne(c, id) \/ DeleteOne(c, id) PROVE Promised'
  <2> DEFINE r == [call[c] EXCEPT !.todo = @ \ {id}]
  <2>1. call[c].pc = "write" /\ call' = [call EXCEPT ![c] = r] /\ call[c] \in CallState
    BY <1>4 DEF PopulateOne, DeleteOne, RInv, AInv, IInv, TypeOK
  <2>2. r.pc = "write"
    BY <2>1 DEF CallState
  <2> HIDE DEF r
  <2>3. \A d \in Client \ {c} : call[d].pc \notin {"search", "sending"} /\ call'[d] = call[d]
    BY <2>1 DEF RInv, AInv, IInv, TypeOK, WriterAlone
  <2>4. call'[c] = r
    BY <2>1 DEF RInv, AInv, IInv, TypeOK
  <2> QED
    BY <2>2, <2>3, <2>4 DEF RInv, Promised, WholeBatch, Answers
<1> QED
  BY <1>1, <1>2, <1>3, <1>4 DEF Next

LEMMA RInvInvariant == ASSUME FiniteIds, FiltersBounded, FiltersDistinct PROVE Spec => []RInv
<1>1. Init => Promised
  BY IdleFits DEF Init, Promised, WholeBatch, Answers
<1>2. RInv /\ [Next]_vars => RInv'
  BY IInvStep, AInvStep, PromisedNext DEF RInv, AInv
<1>3. AInv /\ Promised => RInv
  BY DEF RInv
<1>4. Spec => []AInv
  BY AInvInvariant
<1> QED
  BY <1>1, <1>2, <1>3, <1>4, PTL DEF Spec

-----------------------------------------------------------------------------
(* The refinement, step by step.                                           *)

\* The one that writes.
LEMMA WriterIs ==
    ASSUME IInv, NEW c \in Client, call[c].pc = "write"
    PROVE  Writers # {} /\ Writer = c
<1>1. \A d \in Client : call[d].pc = "write" => d = c
  BY DEF IInv, WriterAlone
<1> QED
  BY <1>1 DEF Writers, Writer

LEMMA SettledIsIds == Writers = {} => Settled = ids
  BY DEF Settled

LEMMA AskedIs ==
    /\ Asked = [c \in Client |-> AskedOf(call[c], ids)]
    /\ Asked' = [c \in Client |-> AskedOf(call'[c], ids')]
  BY DEF Asked, AskedOf

\* A call that does not write leaves the pets as they are.
LEMMA QuietStep ==
    ASSUME IInv, IInv', NEW c \in Client, NEW r, call' = [call EXCEPT ![c] = r],
           call[c].pc # "write", r.pc # "write", ids' = ids
    PROVE  Settled' = Settled /\ Asked' = [Asked EXCEPT ![c] = AskedOf(r, ids)]
<1>1. call'[c] = r /\ \A d \in Client \ {c} : call'[d] = call[d]
  BY DEF IInv, TypeOK
<1>2. Asked' = [Asked EXCEPT ![c] = AskedOf(r, ids)]
  BY <1>1, AskedIs
<1>3. CASE Writers = {}
  <2>1. Writers' = {}
    BY <1>1, <1>3 DEF Writers
  <2> QED
    BY <1>2, <1>3, <2>1 DEF Settled
<1>4. CASE Writers # {}
  <2>1. PICK w \in Client : call[w].pc = "write" /\ call'[w].pc = "write" /\ call'[w] = call[w]
    BY <1>1, <1>4 DEF Writers
  <2>2. Writers # {} /\ Writer = w
    BY <2>1, WriterIs
  <2>3. (Writers # {})' /\ Writer' = w
    <3>1. \A d \in Client : call'[d].pc = "write" => d = w
      BY <2>1 DEF IInv, WriterAlone
    <3> QED
      BY <2>1, <3>1 DEF Writers, Writer
  <2>4. Settled' = Settled
    BY <2>1, <2>2, <2>3 DEF Settled
  <2> QED
    BY <1>2, <2>4
<1> QED
  BY <1>3, <1>4

\* A batch takes effect when its call has the lock.
LEMMA AcquireIs ==
    ASSUME RInv, RInv', NEW c \in Client, Acquire(c)
    PROVE  Storage!Put(c) \/ Storage!Delete(c)
<1> DEFINE w == call[c]
           r == [w EXCEPT !.pc = "write"]
<1>1. /\ w \in CallState /\ w.pc = "lock" /\ Writers = {} /\ ids' = ids
      /\ call' = [call EXCEPT ![c] = r] /\ WholeBatch(w) /\ w.op \in {"add", "update", "delete"}
  <2>1. w \in CallState /\ w.pc = "lock" /\ WholeBatch(w)
    BY DEF Acquire, RInv, AInv, IInv, TypeOK, Promised
  <2> QED
    BY <2>1 DEF Acquire, CanLock, CallState
<1>2. r.pc = "write" /\ r.op = w.op /\ r.todo = w.todo /\ (r.op # "delete" => r.pets = w.pets)
  BY <1>1 DEF CallState
<1> HIDE DEF r
<1>3. call'[c] = r /\ \A d \in Client \ {c} : call'[d] = call[d]
  BY <1>1 DEF RInv, AInv, IInv, TypeOK
<1>4. (Writers # {})' /\ Writer' = c
  <2>1. \A d \in Client : call'[d].pc = "write" => d = c
    BY <1>1, <1>3 DEF Writers
  <2> QED
    BY <1>2, <1>3, <2>1 DEF Writers, Writer
<1>5. Settled = ids
  BY <1>1, SettledIsIds
<1>6. Asked' = [Asked EXCEPT ![c] = AskedOf(r, ids)] /\ AskedOf(r, ids) = [op |-> "answer"]
  <2>1. AskedOf(r, ids) = [op |-> "answer"]
    BY <1>2 DEF AskedOf
  <2> QED
    BY <1>1, <1>3, <2>1, AskedIs
<1>7. CASE w.op = "delete"
  <2>1. Asked[c] = [op |-> "delete", ids |-> w.todo]
    BY <1>1, <1>7 DEF Asked, AskedOf
  <2>2. Settled' = [id \in DOMAIN ids \ w.todo |-> ids[id]]
    BY <1>1, <1>2, <1>3, <1>4, <1>7 DEF Settled
  <2> QED
    BY <1>5, <1>6, <1>7, <2>1, <2>2 DEF Acquire, Storage!Delete, Storage!Become, Storage!Answer
<1>8. CASE w.op # "delete"
  <2>1. Asked[c] = [op |-> "put", batch |-> w.pets]
    BY <1>1, <1>8 DEF Asked, AskedOf
  <2>2. w.todo = DOMAIN w.pets
    BY <1>1, <1>8 DEF WholeBatch
  <2>3. Settled' = [id \in DOMAIN ids \cup w.todo |-> IF id \in w.todo THEN w.pets[id] ELSE ids[id]]
    BY <1>1, <1>2, <1>3, <1>4, <1>8 DEF Settled
  <2> QED
    <3>1. renewed' = renewed \cup (DOMAIN w.pets \cap DOMAIN Settled)
      BY <1>5, <1>8, <2>2 DEF Acquire
    <3> QED
      BY <1>5, <1>6, <2>1, <2>2, <2>3, <3>1 DEF Storage!Put, Storage!Become, Storage!Answer
<1> QED
  BY <1>7, <1>8

\* The turns of a writer's loop only bring the ids to where the pets are already.
LEMMA WriteIsStutter ==
    ASSUME RInv, RInv', NEW c \in Client, NEW id \in Id, PopulateOne(c, id) \/ DeleteOne(c, id)
    PROVE  Settled' = Settled /\ Asked' = Asked /\ renewed' = renewed
<1> DEFINE w == call[c]
           r == [w EXCEPT !.todo = @ \ {id}]
<1>1. /\ w \in CallState /\ w.pc = "write" /\ id \in w.todo
      /\ call' = [call EXCEPT ![c] = r]
  BY DEF PopulateOne, DeleteOne, RInv, AInv, IInv, TypeOK
<1>2. r.pc = "write" /\ r.op = w.op /\ r.todo = w.todo \ {id} /\ (r.op # "delete" => r.pets = w.pets)
  BY <1>1 DEF CallState
<1> HIDE DEF r
<1>3. call'[c] = r /\ \A d \in Client \ {c} : call'[d] = call[d]
  BY <1>1 DEF RInv, AInv, IInv, TypeOK
<1>4. Writers # {} /\ Writer = c
  BY <1>1, WriterIs DEF RInv, AInv
<1>5. (Writers # {})' /\ Writer' = c
  <2>1. \A d \in Client : call'[d].pc = "write" => d = c
    BY <1>2, <1>3 DEF RInv, AInv, IInv, WriterAlone
  <2> QED
    BY <1>2, <1>3, <2>1 DEF Writers, Writer
<1>6. Asked' = Asked
  <2>1. \A d \in Client \ {c} : call[d].pc \notin {"search", "sending"}
    BY <1>1 DEF RInv, AInv, IInv, WriterAlone
  <2>2. \A d \in Client \ {c} : AskedOf(call[d], ids') = AskedOf(call[d], ids)
    BY <2>1 DEF AskedOf
  <2>3. AskedOf(r, ids') = AskedOf(w, ids)
    BY <1>1, <1>2 DEF AskedOf
  <2> QED
    BY <1>3, <2>2, <2>3, AskedIs
<1>7. CASE w.op = "delete"
  <2>1. Settled = [k \in DOMAIN ids \ w.todo |-> ids[k]]
    BY <1>4, <1>7 DEF Settled
  <2>2. Settled' = [k \in DOMAIN ids' \ r.todo |-> ids'[k]]
    BY <1>2, <1>3, <1>5, <1>7 DEF Settled
  <2>3. CASE id \in DOMAIN ids
    <3>1. ids' = WithoutPet(ids, id)
      BY <1>7, <2>3 DEF PopulateOne, DeleteOne
    <3>2. DOMAIN ids' \ r.todo = DOMAIN ids \ w.todo
      BY <1>1, <1>2, <3>1 DEF WithoutPet
    <3>3. \A k \in DOMAIN ids' \ r.todo : ids'[k] = ids[k]
      BY <3>1 DEF WithoutPet
    <3> QED
      BY <1>6, <2>1, <2>2, <3>2, <3>3 DEF PopulateOne, DeleteOne
  <2>4. CASE id \notin DOMAIN ids
    <3>1. ids' = ids
      BY <1>7, <2>4 DEF PopulateOne, DeleteOne
    <3>2. DOMAIN ids \ r.todo = DOMAIN ids \ w.todo
      BY <1>2, <2>4
    <3> QED
      BY <1>6, <2>1, <2>2, <3>1, <3>2 DEF PopulateOne, DeleteOne
  <2> QED
    BY <2>3, <2>4
<1>8. CASE w.op # "delete"
  <2>1. Settled = [k \in DOMAIN ids \cup w.todo |-> IF k \in w.todo THEN w.pets[k] ELSE ids[k]]
    BY <1>4, <1>8 DEF Settled
  <2>2. Settled' = [k \in DOMAIN ids' \cup r.todo |-> IF k \in r.todo THEN w.pets[k] ELSE ids'[k]]
    BY <1>2, <1>3, <1>5, <1>8 DEF Settled
  <2>3. ids' = WithPet(ids, id, w.pets[id])
    BY <1>8 DEF PopulateOne, DeleteOne
  <2>4. DOMAIN ids' \cup r.todo = DOMAIN ids \cup w.todo
    BY <1>1, <1>2, <2>3 DEF WithPet
  <2>5. \A k \in DOMAIN ids \cup w.todo :
          (IF k \in r.todo THEN w.pets[k] ELSE ids'[k]) = (IF k \in w.todo THEN w.pets[k] ELSE ids[k])
    BY <1>1, <1>2, <2>3 DEF WithPet
  <2> QED
    BY <1>6, <2>1, <2>2, <2>4, <2>5 DEF PopulateOne, DeleteOne
<1> QED
  BY <1>7, <1>8

LEMMA ReleaseIs == ASSUME RInv, RInv', NEW c \in Client, Release(c) PROVE Storage!Return(c)
<1> DEFINE w == call[c]
<1>1. w.pc = "write" /\ w.todo = {} /\ ids' = ids /\ call' = [call EXCEPT ![c] = Idle]
  BY DEF Release, Become
<1>2. call'[c] = Idle /\ \A d \in Client \ {c} : call'[d] = call[d]
  BY <1>1 DEF RInv, AInv, IInv, TypeOK
<1>3. Writers # {} /\ Writer = c
  BY <1>1, WriterIs DEF RInv, AInv
<1>4. \E D : ids \in [D -> Pet]
  BY DEF RInv, AInv, IInv, TypeOK, Batch
<1>5. Settled = ids
  BY <1>1, <1>3, <1>4 DEF Settled
<1>6. Writers' = {}
  <2>1. \A d \in Client \ {c} : call[d].pc # "write"
    BY <1>1 DEF RInv, AInv, IInv, WriterAlone
  <2> QED
    BY <1>2, <2>1, IdleFits DEF Writers
<1>7. Settled' = ids
  BY <1>1, <1>6 DEF Settled
<1>8. AskedOf(w, ids) = [op |-> "answer"] /\ AskedOf(Idle, ids) = [op |-> "nothing"]
  BY <1>1, IdleFits DEF AskedOf
<1>9. Asked' = [Asked EXCEPT ![c] = AskedOf(Idle, ids)] /\ Asked[c] = AskedOf(w, ids)
  BY <1>1, <1>2, AskedIs
<1> QED
  BY <1>5, <1>7, <1>8, <1>9 DEF Release, Storage!Return, Storage!Become, Storage!Nothing

\* The beginnings of calls are what the clients ask for, or an error.
LEMMA BeginIs ==
    ASSUME RInv, RInv', NEW c \in Client, Begin(c)
    PROVE  \/ Storage!AskPut(c) \/ Storage!AskDelete(c) \/ Storage!Search(c)
           \/ UNCHANGED <<Settled, Asked, renewed>>
<1>1. Asked[c] = [op |-> "nothing"] /\ call[c].pc = "idle" /\ ids' = ids /\ renewed' = renewed
  BY DEF Begin, AddPets, UpdatePets, DeletePets, SearchPets, Asked, AskedOf
<1>2. CASE UNCHANGED call
  BY <1>1, <1>2 DEF Settled, Asked, Writers, Writer
<1>3. CASE (AddPets(c) \/ UpdatePets(c)) /\ ~UNCHANGED call
  <2>1. PICK S \in (SUBSET Id) \ {{}}, op \in {"add", "update"} : \E b \in Batch(S) :
          /\ S \cap DOMAIN ids = {} \/ S \subseteq DOMAIN ids
          /\ call' = [call EXCEPT ![c] = [pc |-> "lock", op |-> op, todo |-> S, pets |-> b]]
    BY <1>3 DEF AddPets, UpdatePets, Become, RInv, AInv, IInv, TypeOK
  <2>2. PICK b \in Batch(S) :
          call' = [call EXCEPT ![c] = [pc |-> "lock", op |-> op, todo |-> S, pets |-> b]]
    BY <2>1
  <2> DEFINE r == [pc |-> "lock", op |-> op, todo |-> S, pets |-> b]
  <2>3. r.pc = "lock" /\ AskedOf(r, ids) = [op |-> "put", batch |-> b]
    BY DEF AskedOf
  <2>4. call' = [call EXCEPT ![c] = r]
    BY <2>2
  <2> HIDE DEF r
  <2>5. Settled' = Settled /\ Asked' = [Asked EXCEPT ![c] = [op |-> "put", batch |-> b]]
    <3>1. Settled' = Settled /\ Asked' = [Asked EXCEPT ![c] = AskedOf(r, ids)]
      BY <1>1, <2>3, <2>4, QuietStep DEF RInv, AInv
    <3> QED
      BY <2>3, <3>1
  <2>6. Settled = ids
    BY <1>3, SettledIsIds DEF AddPets, UpdatePets, CanRLock
  <2>7. Storage!Become(c, [op |-> "put", batch |-> b])
    BY <2>5 DEF Storage!Become
  <2>8. b \in [S -> Storage!Pet]
    BY DEF Batch, Pet, Storage!Pet
  <2>9. S \cap DOMAIN Settled = {} \/ S \subseteq DOMAIN Settled
    BY <2>1, <2>6
  <2>10. Asked[c].op = "nothing"
    BY <1>1
  <2>11. Storage!AskPut(c)
    BY <1>1, <2>5, <2>7, <2>8, <2>9, <2>10, Zenon DEF Storage!AskPut
  <2> QED
    BY <2>11
<1>4. CASE DeletePets(c)
  <2>1. PICK S \in (SUBSET Id) \ {{}} :
          call' = [call EXCEPT ![c] = [pc |-> "lock", op |-> "delete", todo |-> S]]
    BY <1>4 DEF DeletePets, Become, RInv, AInv, IInv, TypeOK
  <2> DEFINE r == [pc |-> "lock", op |-> "delete", todo |-> S]
  <2>2. r.pc = "lock" /\ AskedOf(r, ids) = [op |-> "delete", ids |-> S]
    BY DEF AskedOf
  <2>3. call' = [call EXCEPT ![c] = r]
    BY <2>1
  <2> HIDE DEF r
  <2>4. Settled' = Settled /\ Asked' = [Asked EXCEPT ![c] = [op |-> "delete", ids |-> S]]
    BY <1>1, <2>2, <2>3, QuietStep DEF RInv, AInv
  <2> QED
    <3>1. Storage!Become(c, [op |-> "delete", ids |-> S])
      BY <2>4 DEF Storage!Become
    <3>2. Asked[c].op = "nothing"
      BY <1>1
    <3>3. Storage!AskDelete(c)
      BY <1>1, <2>1, <2>4, <3>1, <3>2, Zenon DEF Storage!AskDelete
    <3> QED
      BY <3>3
<1>5. CASE SearchPets(c)
  <2>1. PICK f \in Filters : call' = [call EXCEPT ![c] =
           [pc |-> "search", filter |-> f, buf |-> "empty", with |-> TRUE, sent |-> {},
            todo |-> IF Everything(f) THEN DOMAIN ids ELSE Found(index, f)]]
    BY <1>5 DEF SearchPets, Become
  <2> DEFINE r == [pc |-> "search", filter |-> f, buf |-> "empty", with |-> TRUE, sent |-> {},
                   todo |-> IF Everything(f) THEN DOMAIN ids ELSE Found(index, f)]
             a == [op |-> "search", filter |-> f, of |-> ids, sent |-> {}, listens |-> TRUE]
  <2>2. r.pc = "search" /\ AskedOf(r, ids) = a
    BY DEF AskedOf
  <2>3. call' = [call EXCEPT ![c] = r]
    BY <2>1
  <2> HIDE DEF r
  <2>4. Settled' = Settled /\ Asked' = [Asked EXCEPT ![c] = a]
    <3>1. IInv /\ IInv' /\ r.pc # "write"
      BY <2>2 DEF RInv, AInv
    <3>2. Settled' = Settled /\ Asked' = [Asked EXCEPT ![c] = AskedOf(r, ids)]
      BY <1>1, <2>3, <3>1, QuietStep
    <3> QED
      BY <2>2, <3>2
  <2>5. Settled = ids
    BY <1>5, SettledIsIds DEF SearchPets, CanRLock
  <2> QED
    <3>1. Storage!Become(c, [op |-> "search", filter |-> f, of |-> Settled, sent |-> {}, listens |-> TRUE])
      BY <2>4, <2>5 DEF Storage!Become
    <3>2. Asked[c].op = "nothing"
      BY <1>1
    <3>3. Storage!Search(c)
      BY <1>1, <2>4, <3>1, <3>2, Zenon DEF Storage!Search
    <3> QED
      BY <3>3
<1> QED
  BY <1>1, <1>2, <1>3, <1>4, <1>5 DEF Begin

\* What a search does.
LEMMA SearchIs ==
    ASSUME RInv, RInv', NEW c \in Client,
           NextMatch(c) \/ SendMatch(c) \/ GiveUp(c) \/ Deliver(c) \/ SearchDone(c) \/ SearchReturn(c)
             \/ Hangup(c)
    PROVE  \/ Storage!Send(c) \/ Storage!CutShort(c) \/ Storage!Finish(c) \/ Storage!HangUp(c)
           \/ Storage!Return(c) \/ UNCHANGED <<Settled, Asked, renewed>>
<1> DEFINE w == call[c]
           Searching(sent, with) ==
               [op |-> "search", filter |-> w.filter, of |-> ids, sent |-> sent, listens |-> with]
<1>1. w \in CallState /\ Answers(w, ids, renewed) /\ ids' = ids /\ renewed' = renewed /\ w.pc # "write"
  BY DEF RInv, AInv, IInv, TypeOK, Promised, NextMatch, SendMatch, GiveUp, Deliver, SearchDone, SearchReturn, Hangup
<1>2. Asked[c] = AskedOf(w, ids) /\ Asked \in [Client -> {AskedOf(call[d], ids) : d \in Client}]
  BY DEF Asked
<1>3. w.pc \in {"search", "sending"} => Asked[c] = Searching(w.sent, w.with) /\ w.with \in BOOLEAN
  BY <1>1, <1>2 DEF AskedOf, CallState
<1>4. ASSUME NEW r, call' = [call EXCEPT ![c] = r], r.pc # "write"
      PROVE  Settled' = Settled /\ Asked' = [Asked EXCEPT ![c] = AskedOf(r, ids)]
  BY <1>1, <1>4, QuietStep DEF RInv, AInv
<1>5. CASE NextMatch(c)
  <2>1. PICK id \in w.todo : call' = [call EXCEPT ![c] =
          [w EXCEPT !.pc = "sending", !.todo = @ \ {id}, !.sent = @ \cup {id}]]
    BY <1>5 DEF NextMatch
  <2> DEFINE r == [w EXCEPT !.pc = "sending", !.todo = @ \ {id}, !.sent = @ \cup {id}]
  <2>2. /\ w.pc = "search" /\ id \in Id \ w.sent
        /\ \/ id \in DOMAIN ids /\ Matches(ids[id], w.filter)
           \/ id \in renewed /\ NumFilters(w.filter) # 0
    BY <1>1, <1>5 DEF NextMatch, Answers, Everything, CallState
  <2>3. r.pc = "sending" /\ AskedOf(r, ids) = Searching(w.sent \cup {id}, w.with)
    <3>1. /\ r.pc = "sending" /\ r.filter = w.filter /\ r.with = w.with
          /\ r.sent = w.sent \cup {id}
      BY <1>1, <2>2 DEF CallState
    <3> HIDE DEF r
    <3> QED
      BY <3>1 DEF AskedOf
  <2>4. call' = [call EXCEPT ![c] = r]
    BY <2>1
  <2> HIDE DEF r
  <2>5. Settled' = Settled /\ Asked' = [Asked EXCEPT ![c] = Searching(w.sent \cup {id}, w.with)]
    BY <1>4, <2>3, <2>4
  <2>6. [Asked[c] EXCEPT !.sent = @ \cup {id}] = Searching(w.sent \cup {id}, w.with)
    BY <1>3, <2>2
  <2>7. Asked' = [Asked EXCEPT ![c].sent = @ \cup {id}]
    BY <2>5, <2>6
  <2>8. /\ Asked[c].op = "search" /\ Asked[c].sent = w.sent /\ Asked[c].of = ids
        /\ Asked[c].filter = w.filter
    BY <1>3, <2>2
  <2>9. /\ id \in Id \ Asked[c].sent
        /\ \/ id \in DOMAIN Asked[c].of /\ Storage!Matches(Asked[c].of[id], Asked[c].filter)
           \/ id \in renewed /\ Storage!NumFilters(Asked[c].filter) # 0
    <3>1. Storage!NumFilters(w.filter) = NumFilters(w.filter)
      BY DEF NumFilters, Storage!NumFilters, Cardinality, Storage!Cardinality
    <3>2. \A p : Matches(p, w.filter) = Storage!Matches(p, w.filter)
      BY DEF Matches, Storage!Matches
    <3> QED
      BY <2>2, <2>8, <3>1, <3>2
  <2>10. Storage!Send(c)
    BY <1>1, <2>5, <2>7, <2>8, <2>9 DEF Storage!Send
  <2> QED
    BY <2>10
<1>6. CASE SendMatch(c)
  <2> DEFINE r == [w EXCEPT !.pc = "search", !.buf = "item"]
  <2>1. w.pc = "sending" /\ call' = [call EXCEPT ![c] = r]
    BY <1>6 DEF SendMatch
  <2>2. r.pc = "search" /\ r.filter = w.filter /\ r.with = w.with /\ r.sent = w.sent
    BY <1>1, <2>1 DEF CallState
  <2> HIDE DEF r
  <2>3. AskedOf(r, ids) = Asked[c]
    BY <1>3, <2>1, <2>2 DEF AskedOf
  <2>4. Settled' = Settled /\ Asked' = [Asked EXCEPT ![c] = Asked[c]]
    BY <1>4, <2>1, <2>2, <2>3
  <2> QED
    BY <1>1, <2>4, AskedIs
<1>7. CASE Deliver(c)
  <2> DEFINE r == [w EXCEPT !.buf = "empty"]
  <2>1. w.pc \in {"search", "sending", "drain"} /\ call' = [call EXCEPT ![c] = r]
    BY <1>7 DEF Deliver
  <2>2. /\ r.pc = w.pc
        /\ w.pc # "drain" => r.filter = w.filter /\ r.with = w.with /\ r.sent = w.sent
    BY <1>1, <2>1 DEF CallState
  <2> HIDE DEF r
  <2>3. AskedOf(r, ids) = Asked[c]
    BY <1>2, <1>3, <2>1, <2>2 DEF AskedOf
  <2>4. Settled' = Settled /\ Asked' = [Asked EXCEPT ![c] = Asked[c]]
    BY <1>4, <2>1, <2>2, <2>3
  <2> QED
    BY <1>1, <2>4, AskedIs
<1>8. CASE GiveUp(c) \/ (SearchDone(c) /\ ~w.with)
  <2>1. w.pc \in {"search", "sending"} /\ ~w.with /\ call' = [call EXCEPT ![c] = Idle]
    BY <1>8 DEF GiveUp, SearchDone, Become
  <2>2. AskedOf(Idle, ids) = [op |-> "nothing"]
    BY IdleFits DEF AskedOf
  <2>3. Settled' = Settled /\ Asked' = [Asked EXCEPT ![c] = [op |-> "nothing"]]
    BY <1>4, <2>1, <2>2, IdleFits
  <2> QED
    BY <1>1, <1>3, <2>1, <2>3 DEF Storage!CutShort, Storage!Become, Storage!Nothing
<1>9. CASE SearchDone(c) /\ w.with
  <2> DEFINE r == [pc |-> "drain", buf |-> w.buf, with |-> TRUE]
  <2>1. w.pc = "search" /\ w.todo = {} /\ call' = [call EXCEPT ![c] = r]
    BY <1>9 DEF SearchDone, Become
  <2>2. r.pc = "drain" /\ AskedOf(r, ids) = [op |-> "answer"]
    BY DEF AskedOf
  <2> HIDE DEF r
  <2>3. Settled' = Settled /\ Asked' = [Asked EXCEPT ![c] = [op |-> "answer"]]
    BY <1>4, <2>1, <2>2
  <2>4. \A id \in DOMAIN ids : Matches(ids[id], w.filter) => id \in w.sent
    BY <1>1, <2>1 DEF Answers
  <2>5. Storage!Complete(Asked[c])
    <3>1. Asked[c].sent = w.sent /\ Asked[c].of = ids /\ Asked[c].filter = w.filter
      BY <1>3, <2>1
    <3> QED
      BY <2>4, <3>1 DEF Storage!Complete, Storage!Matches, Matches
  <2> QED
    BY <1>1, <1>3, <1>9, <2>1, <2>3, <2>5 DEF Storage!Finish, Storage!Become, Storage!Answer
<1>10. CASE SearchReturn(c)
  <2>1. w.pc = "drain" /\ call' = [call EXCEPT ![c] = Idle]
    BY <1>10 DEF SearchReturn, Become
  <2>2. AskedOf(Idle, ids) = [op |-> "nothing"] /\ Asked[c] = [op |-> "answer"]
    BY <1>2, <2>1, IdleFits DEF AskedOf
  <2>3. Settled' = Settled /\ Asked' = [Asked EXCEPT ![c] = [op |-> "nothing"]]
    BY <1>4, <2>1, <2>2, IdleFits
  <2> QED
    BY <1>1, <2>2, <2>3 DEF Storage!Return, Storage!Become, Storage!Nothing
<1>11. CASE Hangup(c)
  <2> DEFINE r == [w EXCEPT !.with = FALSE]
  <2>1. w.pc \in {"search", "sending"} /\ w.with /\ call' = [call EXCEPT ![c] = r]
    BY <1>11 DEF Hangup
  <2>2. r.pc = w.pc /\ r.filter = w.filter /\ r.with = FALSE /\ r.sent = w.sent
    BY <1>1, <2>1 DEF CallState
  <2> HIDE DEF r
  <2>3. AskedOf(r, ids) = Searching(w.sent, FALSE)
    BY <2>1, <2>2 DEF AskedOf
  <2>4. Settled' = Settled /\ Asked' = [Asked EXCEPT ![c] = Searching(w.sent, FALSE)]
    BY <1>4, <2>1, <2>2, <2>3
  <2>5. Asked[c] = Searching(w.sent, w.with)
    BY <1>3, <2>1
  <2>6. [Asked[c] EXCEPT !.listens = FALSE] = Searching(w.sent, FALSE)
    <3>1. \A l : [Asked[c] EXCEPT !.listens = l] = Searching(w.sent, l)
      BY <2>5
    <3> QED
      BY <3>1, Zenon
  <2>7. Asked' = [Asked EXCEPT ![c].listens = FALSE]
    BY <2>4, <2>6
  <2>8. Asked[c].op = "search" /\ Asked[c].listens
    BY <2>1, <2>5
  <2>9. Storage!HangUp(c)
    BY <1>1, <2>4, <2>7, <2>8 DEF Storage!HangUp
  <2> QED
    BY <2>9
<1> QED
  BY <1>5, <1>6, <1>7, <1>8, <1>9, <1>10, <1>11

\* Every call is atomic to whoever uses the interface, a search that ends with
\* its client there misses no pet of the moment it began, and it sends none
\* that does not match unless that pet was once replaced, for any finite set
\* of ids, any clients, and any filters of bounded length in which no list
\* names a value twice (storage.go, Data; mem.go AddPets, UpdatePets,
\* DeletePets, searchPets).
THEOREM ImplementsStorage == ASSUME FiniteIds, FiltersBounded, FiltersDistinct PROVE Spec => StorageSpec
<1>1. Init => Storage!Init
  <2> SUFFICES ASSUME Init PROVE Storage!Init
    OBVIOUS
  <2>1. Settled = ids
    BY IdleFits, SettledIsIds DEF Init, Writers
  <2>2. \A c \in Client : AskedOf(call[c], ids) = [op |-> "nothing"]
    BY IdleFits DEF Init, AskedOf
  <2> QED
    BY <2>1, <2>2 DEF Init, Asked, Storage!Init, Storage!Nothing
<1>2. RInv /\ RInv' /\ [Next]_vars => [Storage!Next]_(Storage!vars)
  <2> SUFFICES ASSUME RInv, RInv', [Next]_vars PROVE [Storage!Next]_(Storage!vars)
    OBVIOUS
  <2>1. CASE UNCHANGED vars
    BY <2>1 DEF vars, Storage!vars, Settled, Asked, Writers, Writer
  <2>2. ASSUME NEW c \in Client, Begin(c) \/ CallStep(c) \/ Hangup(c)
        PROVE  [Storage!Next]_(Storage!vars)
    <3>1. CASE Begin(c)
      BY <3>1, BeginIs DEF Storage!Next, Storage!vars
    <3>2. CASE Acquire(c)
      BY <3>2, AcquireIs DEF Storage!Next
    <3>3. CASE \E id \in Id : PopulateOne(c, id) \/ DeleteOne(c, id)
      BY <3>3, WriteIsStutter DEF Storage!vars
    <3>4. CASE Release(c)
      BY <3>4, ReleaseIs DEF Storage!Next
    <3>5. CASE \/ NextMatch(c) \/ SendMatch(c) \/ GiveUp(c) \/ Deliver(c) \/ SearchDone(c)
               \/ SearchReturn(c) \/ Hangup(c)
      BY <3>5, SearchIs DEF Storage!Next, Storage!vars
    <3> QED
      BY <2>2, <3>1, <3>2, <3>3, <3>4, <3>5 DEF CallStep
  <2> QED
    BY <2>1, <2>2 DEF Next
<1>3. Spec => []RInv
  BY RInvInvariant
<1> QED
  BY <1>1, <1>2, <1>3, PTL DEF Spec, StorageSpec, Storage!Spec

=============================================================================
