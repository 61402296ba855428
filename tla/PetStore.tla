------------------------------ MODULE PetStore ------------------------------
(***************************************************************************)
(* The in-memory storage of the pet store                                  *)
(* (petstore/server/storage/mem/mem.go) under concurrent calls, together   *)
(* with what the API does around it (petstore/server/server.go).  One      *)
(* RWMutex protects the indexes: a waiting writer keeps new readers out.   *)
(* AddPets and UpdatePets check the ids under the read lock, let it go and *)
(* take the write lock; a search holds the read lock while it streams.     *)
(***************************************************************************)
EXTENDS PetSearch

CONSTANTS
    Client,
    Filters         \* the searches clients ask for

VARIABLES
    ids,      \* Data.ids, a function on the ids it holds
    index,    \* the other three
    call,     \* the call each client is in
    leaked,   \* a read lock was taken by a call that returned without releasing it
    issued,   \* history: ids given out by AddPets (uuid.New never repeats one)
    renewed   \* history: ids whose pet a batch has replaced

vars == <<ids, index, call, leaked, issued, renewed>>

Idle == [pc |-> "idle"]

Init ==
    /\ ids = [id \in {} |-> {}]
    /\ index = EmptyIndex
    /\ call = [c \in Client |-> Idle]
    /\ leaked = FALSE
    /\ issued = {}
    /\ renewed = {}

-----------------------------------------------------------------------------
(* The RWMutex, as the calls' positions show it.                           *)

Writers == {c \in Client : call[c].pc = "write"}
Waiting == {c \in Client : call[c].pc = "lock"}
Readers == {c \in Client : call[c].pc \in {"search", "sending"}}

CanRLock == Writers = {} /\ Waiting = {}

\* Mistake: a search lets go of the read lock before it streams.
CanLockAnyway == Writers = {} /\ ~leaked

CanLock  == Writers = {} /\ Readers = {} /\ ~leaked

Become(c, r) == call' = [call EXCEPT ![c] = r]

-----------------------------------------------------------------------------
(* AddPets and UpdatePets.                                                 *)

Batch(S) == [S -> Pet]     \* the pets of a request, by their ids

\* RLock, the check of every id, RUnlock.
AddPets(c) ==
    /\ call[c].pc = "idle" /\ CanRLock
    /\ \E S \in (SUBSET (Id \ issued)) \ {{}} : \E b \in Batch(S) :
        /\ issued' = issued \cup S
        /\ IF S \cap DOMAIN ids = {}
           THEN Become(c, [pc |-> "lock", op |-> "add", todo |-> S, pets |-> b]) /\ UNCHANGED leaked
           ELSE leaked' = TRUE /\ UNCHANGED call     \* returns an error with the read lock held
    /\ UNCHANGED <<ids, index, renewed>>

UpdatePets(c) ==
    /\ call[c].pc = "idle" /\ CanRLock
    /\ \E S \in (SUBSET issued) \ {{}} : \E b \in Batch(S) :
        /\ IF S \subseteq DOMAIN ids
           THEN Become(c, [pc |-> "lock", op |-> "update", todo |-> S, pets |-> b]) /\ UNCHANGED leaked
           ELSE leaked' = TRUE /\ UNCHANGED call     \* returns an error with the read lock held
    /\ UNCHANGED <<ids, index, issued, renewed>>

DeletePets(c) ==
    /\ call[c].pc = "idle"
    /\ \E S \in (SUBSET issued) \ {{}} :
         Become(c, [pc |-> "lock", op |-> "delete", todo |-> S])
    /\ UNCHANGED <<ids, index, leaked, issued, renewed>>

\* mu.Lock returns.  The ids are not checked again, so that an update stores a
\* pet that was deleted since.
Acquire(c) ==
    /\ call[c].pc = "lock" /\ CanLock
    /\ call' = [call EXCEPT ![c].pc = "write"]
    /\ renewed' = IF call[c].op = "delete" THEN renewed ELSE renewed \cup (call[c].todo \cap DOMAIN ids)
    /\ UNCHANGED <<ids, index, leaked, issued>>

WithPet(f, id, p) == [k \in DOMAIN f \cup {id} |-> IF k = id THEN p ELSE f[k]]
WithoutPet(f, id) == [k \in DOMAIN f \ {id} |-> f[k]]

\* One turn of populate's loop.
PopulateOne(c, id) ==
    /\ call[c].pc = "write" /\ call[c].op # "delete" /\ id \in call[c].todo
    /\ ids' = WithPet(ids, id, call[c].pets[id])
    /\ index' = Enter(index, id, call[c].pets[id])
    /\ call' = [call EXCEPT ![c].todo = @ \ {id}]
    /\ UNCHANGED <<leaked, issued, renewed>>

\* Mistake: an id that is not there ends the call with the lock held.
DeleteOneKeepsLock(c, id) ==
    /\ call[c].pc = "write" /\ call[c].op = "delete" /\ id \in call[c].todo
    /\ id \in DOMAIN ids
    /\ index' = Leave(index, id, ids[id])
    /\ ids' = WithoutPet(ids, id)
    /\ call' = [call EXCEPT ![c].todo = @ \ {id}]
    /\ UNCHANGED <<leaked, issued, renewed>>

\* One turn of DeletePets' loop; an id that is not there is skipped.
DeleteOne(c, id) ==
    /\ call[c].pc = "write" /\ call[c].op = "delete" /\ id \in call[c].todo
    /\ IF id \in DOMAIN ids
       THEN /\ index' = Leave(index, id, ids[id])
            /\ ids' = WithoutPet(ids, id)
       ELSE UNCHANGED <<ids, index>>
    /\ call' = [call EXCEPT ![c].todo = @ \ {id}]
    /\ UNCHANGED <<leaked, issued, renewed>>

Release(c) ==
    /\ call[c].pc = "write" /\ call[c].todo = {}
    /\ Become(c, Idle)
    /\ UNCHANGED <<ids, index, leaked, issued, renewed>>

-----------------------------------------------------------------------------
(* SearchPets: the storage goroutine and, in "with", the API's handler that *)
(* sends what it receives to the caller.  The channel between them holds   *)
(* one item.                                                               *)

Everything(f) == NumFilters(f) = 0

\* RLock, and the searches, whose goroutines only read.
SearchPets(c) ==
    /\ call[c].pc = "idle" /\ CanRLock
    /\ \E f \in Filters :
         Become(c, [pc |-> "search", filter |-> f, buf |-> "empty", with |-> TRUE, sent |-> {},
                    todo |-> IF Everything(f) THEN DOMAIN ids ELSE Found(index, f)])
    /\ UNCHANGED <<ids, index, leaked, issued, renewed>>

\* The next match is taken.  After a hangup the select may end the search instead.
NextMatch(c) ==
    /\ call[c].pc = "search"
    /\ \E id \in call[c].todo :
         call' = [call EXCEPT ![c].pc = "sending", ![c].todo = @ \ {id}, ![c].sent = @ \cup {id}]
    /\ UNCHANGED <<ids, index, leaked, issued, renewed>>

\* out <- SearchItem{Pet: d.ids[id]}: nil for an id that only a stale entry names.
SendMatch(c) ==
    /\ call[c].pc = "sending" /\ call[c].buf = "empty"
    /\ call' = [call EXCEPT ![c].pc = "search", ![c].buf = "item"]
    /\ UNCHANGED <<ids, index, leaked, issued, renewed>>

\* returnAll watches the context while it sends; the filtered search does not.
GiveUp(c) ==
    /\ \/ call[c].pc = "search"
       \/ call[c].pc = "sending" /\ Everything(call[c].filter)
    /\ ~call[c].with
    /\ Become(c, Idle)
    /\ UNCHANGED <<ids, index, leaked, issued, renewed>>

Deliver(c) ==
    /\ call[c].pc \in {"search", "sending", "drain"} /\ call[c].with /\ call[c].buf = "item"
    /\ call' = [call EXCEPT ![c].buf = "empty"]
    /\ UNCHANGED <<ids, index, leaked, issued, renewed>>

\* Mistake: the handler is taken to be there still.
SearchDoneDrains(c) ==
    /\ call[c].pc = "search" /\ call[c].todo = {}
    /\ Become(c, [pc |-> "drain", buf |-> call[c].buf, with |-> call[c].with])
    /\ UNCHANGED <<ids, index, leaked, issued, renewed>>

\* RUnlock and close(petsCh); the handler takes what is left.
SearchDone(c) ==
    /\ call[c].pc = "search" /\ call[c].todo = {}
    /\ Become(c, IF call[c].with THEN [pc |-> "drain", buf |-> call[c].buf, with |-> TRUE] ELSE Idle)
    /\ UNCHANGED <<ids, index, leaked, issued, renewed>>

SearchReturn(c) ==
    /\ call[c].pc = "drain" /\ call[c].buf = "empty"
    /\ Become(c, Idle)
    /\ UNCHANGED <<ids, index, leaked, issued, renewed>>

\* stream.Send fails: the handler returns, which cancels the context.
Hangup(c) ==
    /\ call[c].pc \in {"search", "sending"} /\ call[c].with
    /\ call' = [call EXCEPT ![c].with = FALSE]
    /\ UNCHANGED <<ids, index, leaked, issued, renewed>>

-----------------------------------------------------------------------------
CallStep(c) ==
    \/ Acquire(c) \/ Release(c)
    \/ \E id \in Id : PopulateOne(c, id) \/ DeleteOne(c, id)
    \/ NextMatch(c) \/ SendMatch(c) \/ GiveUp(c) \/ Deliver(c) \/ SearchDone(c) \/ SearchReturn(c)

Begin(c) == AddPets(c) \/ UpdatePets(c) \/ DeletePets(c) \/ SearchPets(c)

Next == \E c \in Client : Begin(c) \/ CallStep(c) \/ Hangup(c)

Spec == Init /\ [][Next]_vars

\* A call that has begun is carried on; sync.RWMutex starves no waiter.
Fairness == \A c \in Client : SF_vars(CallStep(c))

FairSpec == Spec /\ Fairness

-----------------------------------------------------------------------------
(* Properties.                                                             *)

CallState ==
    [pc : {"idle"}]
      \cup [pc : {"lock", "write"}, op : {"add", "update"}, todo : SUBSET Id, pets : UNION {Batch(S) : S \in SUBSET Id}]
      \cup [pc : {"lock", "write"}, op : {"delete"}, todo : SUBSET Id]
      \cup [pc : {"search", "sending"}, filter : Filters, buf : {"empty", "item"}, with : BOOLEAN,
            sent : SUBSET Id, todo : SUBSET Id]
      \cup [pc : {"drain"}, buf : {"empty", "item"}, with : {TRUE}]

\* The type invariant.
TypeOK ==
    /\ ids \in UNION {Batch(S) : S \in SUBSET Id}
    /\ index \in Index
    /\ call \in [Client -> CallState]
    /\ leaked \in BOOLEAN
    /\ issued \subseteq Id
    /\ renewed \subseteq Id

Indexed(x, id, p) == id \in x.names[p.name] /\ id \in x.types[p.type] /\ id \in x.birthday[p.birthday]

\* Every pet can be found by its present name, type and birthday: no deletion,
\* though it drops a whole key when one entry is left and though updates leave
\* stale entries behind, takes another pet out of an index (mem.go populate,
\* DeletePets).
IndexComplete == \A id \in DOMAIN ids : Indexed(index, id, ids[id])

\* While a search streams, the store it reads does not change, and what it has
\* sent or will send was in the store when it began: no writer gets in.
SearchReadsOneState ==
    [][Readers # {} => UNCHANGED <<ids, index>>]_vars

\* The refinement: a batch takes effect when its call has the write lock, so
\* that in the middle of it the pets are those that will be there at its end.
Writer == CHOOSE c \in Client : call[c].pc = "write"

Settled ==
    IF Writers = {} THEN ids
    ELSE LET w == call[Writer] IN
         IF w.op = "delete" THEN [id \in DOMAIN ids \ w.todo |-> ids[id]]
         ELSE [id \in DOMAIN ids \cup w.todo |-> IF id \in w.todo THEN w.pets[id] ELSE ids[id]]

AskedOf(r, p) ==        \* what the call r has asked of the pets p
    CASE r.pc = "idle" -> [op |-> "nothing"]
      [] r.pc = "lock" /\ r.op = "delete" -> [op |-> "delete", ids |-> r.todo]
      [] r.pc = "lock" /\ r.op # "delete" -> [op |-> "put", batch |-> r.pets]
      [] r.pc \in {"write", "drain"} -> [op |-> "answer"]
      [] r.pc \in {"search", "sending"} ->
           [op |-> "search", filter |-> r.filter, of |-> p, sent |-> r.sent, listens |-> r.with]

Asked == [c \in Client |-> AskedOf(call[c], ids)]

Storage == INSTANCE PetStorage WITH pets <- Settled, asked <- Asked

\* The storage keeps the promises of its interface (storage.go, Data), whatever
\* calls overlap: a batch is stored or deleted as a whole, in one instant, and
\* a search that ends with its client there has sent every pet that matched
\* when it began.  That it sends nothing else is kept for the pets that were
\* never updated, and by SearchesMatch for no other.
StorageSpec == Storage!Spec

\* "SearchPets searches storage for pet entries that match the filter"
\* (storage.go): what a search has taken to send is a stored pet that matches.
\* The store does not change while it sends.
SearchesMatch ==
    \A c \in Client : call[c].pc \in {"search", "sending"} =>
        \A id \in call[c].sent : id \in DOMAIN ids /\ Matches(ids[id], call[c].filter)

\* "DeletePets deletes pets in storage by their ID" (storage.go): a call to it
\* comes to its end, unless an UpdatePets of an unknown id has kept the read
\* lock or a client has left a search it asked for.
DeleteReturns ==
    [](~leaked /\ \A c \in Client : call[c].pc \in {"search", "sending"} => call[c].with)
    => \A c \in Client : (call[c].pc = "lock" /\ call[c].op = "delete") ~> (call[c].pc = "idle")
=============================================================================
