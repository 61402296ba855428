---------------------------- MODULE PetOperator ----------------------------
(***************************************************************************)
(* The controller of Pet resources (controllers/pet_controller.go) between *)
(* the Kubernetes API, which holds the resources, and the pet store, which *)
(* holds the pets.  No transaction joins the two: Reconcile reads a copy   *)
(* of a resource, calls the store, and patches the metadata and the status *)
(* of the resource in two further calls.  Each call may fail before or     *)
(* after its effect, the operator and the store may restart, and the copy  *)
(* that Reconcile reads is the one of a cache that lags behind the API.    *)
(***************************************************************************)
EXTENDS Naturals, FiniteSets

CONSTANTS
    Resource,
    Specs,        \* PetSpecs: key stands for Name and Type, day for Birthday
    Trim,         \* the key under which the store keeps a pet, which trims its name
    Applied,      \* the one the resources are first applied with
    Id,           \* pet ids
    NoId,         \* an empty Status.ID
    MaxEdits,     \* bound: changes of a spec by the users
    MaxTrouble    \* bound: faults, stale reads and what else costs an orphan

ASSUME BoundsAssumption ==
    /\ NoId \notin Id /\ IsFiniteSet(Id) /\ Applied \in Specs
    /\ MaxEdits \in Nat /\ MaxTrouble \in Nat

AsStored(s) == [key |-> Trim[s.key], day |-> s.day]

ASSUME TrimAssumption == \A s \in Specs : AsStored(s) \in Specs

Padded(s) == Trim[s.key] # s.key

VARIABLES
    api,      \* the resources, as the API server holds them
    seen,     \* the copy in the manager's cache
    queue,    \* the work queue of the controller
    work,     \* the Reconcile under way: its position, its resource, the copy
              \* it read (was), the copy it changes (pet), and its error
    store,    \* the pets in the store, by id, with the resource each was made for
    lock,     \* the RWMutex of the store: "leaked", a refused update has kept
              \* its read lock; "stuck", a write waits besides
    edits, trouble,
    padded    \* history: a resource has had a name that the store trims

vars == <<api, seen, queue, work, store, lock, edits, trouble, padded>>

PetT    == [there : BOOLEAN, spec : Specs, deleting : BOOLEAN, finalizer : BOOLEAN, id : Id \cup {NoId}]
StoredT == [spec : Specs, for : Resource]

\* The resources have just been applied, and no event has been delivered.
Init ==
    /\ api = [r \in Resource |->
          [there |-> TRUE, spec |-> Applied, deleting |-> FALSE, finalizer |-> FALSE, id |-> NoId]]
    /\ seen = [r \in Resource |-> [api[r] EXCEPT !.there = FALSE]]
    /\ queue = {}
    /\ work = [at |-> "idle"]
    /\ store = [id \in {} |-> {}]
    /\ lock = "free"
    /\ edits = 0 /\ trouble = 0
    /\ padded = Padded(Applied)

Trouble == trouble < MaxTrouble /\ trouble' = trouble + 1

-----------------------------------------------------------------------------
(* Kubernetes: the users, the API server, the cache and the work queue.    *)

\* A user changes the spec.  Only a new name or type is trouble: the store is
\* searched by them.
Edit(r) ==
    /\ api[r].there /\ edits < MaxEdits
    /\ edits' = edits + 1
    /\ \E s \in Specs \ {api[r].spec} :
         /\ api' = [api EXCEPT ![r].spec = s]
         /\ IF s.key # api[r].spec.key THEN Trouble ELSE UNCHANGED trouble
         /\ padded' = (padded \/ Padded(s))
    /\ UNCHANGED <<seen, queue, work, store, lock>>

\* A resource with a finalizer waits for it to be removed; one without goes at
\* once, which is trouble: nothing protects a pet that is being made for it.
Delete(r) ==
    /\ api[r].there /\ ~api[r].deleting
    /\ IF api[r].finalizer
       THEN api' = [api EXCEPT ![r].deleting = TRUE] /\ UNCHANGED trouble
       ELSE api' = [api EXCEPT ![r].there = FALSE] /\ Trouble
    /\ UNCHANGED <<seen, queue, work, store, lock, edits, padded>>

\* An event brings the cache up to date and puts the resource in the queue.
Observe(r) ==
    /\ seen[r] # api[r]
    /\ seen' = [seen EXCEPT ![r] = api[r]]
    /\ queue' = queue \cup {r}
    /\ UNCHANGED <<api, work, store, lock, edits, trouble, padded>>

\* The manager's periodic resync of every resource, hours after the last event.
Resync ==
    /\ seen = api /\ queue = {} /\ work.at = "idle"
    /\ queue' = {r \in Resource : api[r].there}
    /\ UNCHANGED <<api, seen, work, store, lock, edits, trouble, padded>>

\* The store keeps its pets in memory.
StoreRestart ==
    /\ DOMAIN store # {} \/ lock # "free"
    /\ Trouble
    /\ store' = [id \in {} |-> {}] /\ lock' = "free"
    /\ UNCHANGED <<api, seen, queue, work, edits, padded>>

\* The Reconcile is in a call to the store that writes.
Writing ==
    \/ work.at = "add"
    \/ work.at = "update" /\ work.pet.id \in DOMAIN store
    \/ work.at = "delete" /\ work.pet.id # NoId

\* A caller that leaves behind a write that waits: it waits on, and keeps
\* every later reader out.
Left == IF lock = "leaked" /\ Writing THEN {"leaked", "stuck"} ELSE {lock}

\* The operator stops anywhere, is started again and lists every resource.
Restart ==
    /\ work.at # "idle" /\ Trouble
    /\ work' = [at |-> "idle"]
    /\ queue' = Resource /\ seen' = api
    /\ lock' \in Left
    /\ UNCHANGED <<api, store, edits, padded>>

-----------------------------------------------------------------------------
(* Reconcile.                                                              *)

Goto(at) == work' = [work EXCEPT !.at = at]

\* An early return: the deferred Patch still runs, and the error requeues.
Fail == work' = [work EXCEPT !.at = "patchMeta", !.err = TRUE]

\* r.Get answers from the cache.  Not found ends the Reconcile.
Get(r) ==
    /\ work.at = "idle" /\ r \in queue
    /\ queue' = queue \ {r}
    /\ work' = IF ~seen[r].there THEN [at |-> "idle"]
               ELSE [at |-> IF seen[r].deleting THEN "delete" ELSE "find", r |-> r,
                     was |-> seen[r], pet |-> [seen[r] EXCEPT !.finalizer = TRUE], err |-> FALSE]
    /\ IF seen[r] # api[r] THEN Trouble ELSE UNCHANGED trouble
    /\ UNCHANGED <<api, seen, store, lock, edits, padded>>

\* findPetInStore: a pet under the name, untrimmed, and the type of the
\* resource, with its id.
InStore(p) == p.id \in DOMAIN store /\ store[p.id].spec.key = p.spec.key

\* Mistake: a pet that is found is taken to be as it should be.
FindSuffices ==
    /\ work.at = "find" /\ lock # "stuck"
    /\ Goto(IF InStore(work.pet) THEN "patchMeta" ELSE "add")
    /\ UNCHANGED <<api, seen, queue, store, lock, edits, trouble, padded>>

Find ==
    /\ work.at = "find" /\ lock # "stuck"
    /\ Goto(IF InStore(work.pet) THEN "update" ELSE "add")
    /\ UNCHANGED <<api, seen, queue, store, lock, edits, trouble, padded>>

\* The call fails, or an error comes out of the stream, which findPetInStore
\* takes for a pet that is not there.
FindFails ==
    /\ work.at = "find" /\ Trouble
    /\ Fail \/ Goto("add")
    /\ UNCHANGED <<api, seen, queue, store, lock, edits, padded>>

\* uuid.New: all that matters of an id is that nothing has it, the copy that
\* Reconcile works on included.
Fresh == Id \ (DOMAIN store \cup {work.pet.id} \cup {api[r].id : r \in Resource}
                  \cup {seen[r].id : r \in Resource})

NewId == CHOOSE id \in Fresh : TRUE

WithPet(id) == [k \in DOMAIN store \cup {id} |->
                  IF k = id THEN [spec |-> AsStored(work.pet.spec), for |-> work.r] ELSE store[k]]

\* createPetInStore.
Add ==
    /\ work.at = "add" /\ Fresh # {} /\ lock = "free"
    /\ store' = WithPet(NewId)
    /\ work' = [work EXCEPT !.at = "patchMeta", !.pet.id = NewId]
    /\ UNCHANGED <<api, seen, queue, lock, edits, trouble, padded>>

AddFails ==
    /\ work.at = "add" /\ Fresh # {} /\ Trouble /\ Fail
    /\ store' = store \/ (lock = "free" /\ store' = WithPet(NewId))
    /\ lock' \in Left
    /\ UNCHANGED <<api, seen, queue, edits, padded>>

\* updatePetInStore.
Update ==
    /\ work.at = "update" /\ work.pet.id \in DOMAIN store /\ lock = "free"
    /\ store' = WithPet(work.pet.id) /\ Goto("patchMeta")
    /\ UNCHANGED <<api, seen, queue, lock, edits, trouble, padded>>

\* The store refuses an id it no longer has, and keeps its read lock.
UpdateRefused ==
    /\ work.at = "update" /\ work.pet.id \notin DOMAIN store /\ lock # "stuck"
    /\ Fail /\ lock' = "leaked"
    /\ UNCHANGED <<api, seen, queue, store, edits, trouble, padded>>

UpdateFails ==
    /\ work.at = "update" /\ Trouble /\ Fail
    /\ \/ store' = store
       \/ lock = "free" /\ work.pet.id \in DOMAIN store /\ store' = WithPet(work.pet.id)
    /\ lock' \in Left
    /\ UNCHANGED <<api, seen, queue, edits, padded>>

\* Mistake: the store is asked to delete by name and type, as it is searched.
WithoutPetsLike(id) ==
    [k \in {k \in DOMAIN store : store[k].spec.key # work.pet.spec.key} |-> store[k]]

WithoutPet(id) == [k \in DOMAIN store \ {id} |-> store[k]]

\* Mistake: the finalizer is removed before the pet is deleted, which an early
\* return then skips.
DeleteInStoreSkipped ==
    /\ work.at = "delete"
    /\ store' = store
    /\ work' = [work EXCEPT !.at = "patchMeta", !.pet.finalizer = FALSE]
    /\ UNCHANGED <<api, seen, queue, lock, edits, trouble, padded>>

\* ReconcileDelete.  The store ignores an id it does not have, and is not asked
\* when the resource has none.
DeleteInStore ==
    /\ work.at = "delete" /\ (lock = "free" \/ work.pet.id = NoId)
    /\ store' = WithoutPet(work.pet.id)
    /\ work' = [work EXCEPT !.at = "patchMeta", !.pet.finalizer = FALSE]
    /\ UNCHANGED <<api, seen, queue, lock, edits, trouble, padded>>

DeleteFails ==
    /\ work.at = "delete" /\ Trouble /\ Fail
    /\ store' = store \/ (lock = "free" /\ store' = WithoutPet(work.pet.id))
    /\ lock' \in Left
    /\ UNCHANGED <<api, seen, queue, edits, padded>>

\* The deferred Patch sends what the copy changed: first the finalizer, then
\* the status.  It tries both, and the error of either requeues.
PatchMeta ==
    /\ work.at = "patchMeta"
    /\ IF work.pet.finalizer = work.was.finalizer
       THEN Goto("patchStatus") /\ UNCHANGED api
       ELSE IF api[work.r].there
       THEN /\ Goto("patchStatus")
            /\ api' = [api EXCEPT ![work.r].finalizer = work.pet.finalizer,
                                  ![work.r].there = work.pet.finalizer \/ ~api[work.r].deleting]
       ELSE work' = [work EXCEPT !.at = "patchStatus", !.err = TRUE] /\ UNCHANGED api
    /\ UNCHANGED <<seen, queue, store, lock, edits, trouble, padded>>

PatchMetaFails ==
    /\ work.at = "patchMeta" /\ work.pet.finalizer # work.was.finalizer /\ Trouble
    /\ work' = [work EXCEPT !.at = "patchStatus", !.err = TRUE]
    /\ UNCHANGED <<api, seen, queue, store, lock, edits, padded>>

Done(err) ==
    /\ work' = [at |-> "idle"]
    /\ queue' = IF err THEN queue \cup {work.r} ELSE queue

PatchStatus ==
    /\ work.at = "patchStatus"
    /\ IF work.pet.id = work.was.id THEN Done(work.err) /\ UNCHANGED api
       ELSE IF api[work.r].there
       THEN Done(work.err) /\ api' = [api EXCEPT ![work.r].id = work.pet.id]
       ELSE Done(TRUE) /\ UNCHANGED api
    /\ UNCHANGED <<seen, store, lock, edits, trouble, padded>>

PatchStatusFails ==
    /\ work.at = "patchStatus" /\ work.pet.id # work.was.id /\ Trouble
    /\ Done(TRUE)
    /\ UNCHANGED <<api, seen, store, lock, edits, padded>>

-----------------------------------------------------------------------------
Reconcile == Find \/ Add \/ Update \/ UpdateRefused \/ DeleteInStore \/ PatchMeta \/ PatchStatus

Faults == FindFails \/ AddFails \/ UpdateFails \/ DeleteFails \/ PatchMetaFails
            \/ PatchStatusFails \/ Restart \/ StoreRestart

Next ==
    \/ Reconcile \/ Faults \/ Resync
    \/ \E r \in Resource : Edit(r) \/ Delete(r) \/ Observe(r) \/ Get(r)

Spec == Init /\ [][Next]_vars

\* The worker goes on, every event and every resync comes in the end, and the
\* queue is fair.  Nobody has to edit or delete, and nothing has to fail.
Fairness ==
    /\ WF_vars(Reconcile) /\ WF_vars(Resync)
    /\ \A r \in Resource : SF_vars(Get(r)) /\ WF_vars(Observe(r))

FairSpec == Spec /\ Fairness

-----------------------------------------------------------------------------
(* Properties.                                                             *)

\* The type invariant.
TypeOK ==
    /\ api \in [Resource -> PetT] /\ seen \in [Resource -> PetT]
    /\ queue \subseteq Resource
    /\ work \in [at : {"idle"}]
          \cup [at : {"find", "add", "update", "delete", "patchMeta", "patchStatus"},
                r : Resource, was : PetT, pet : PetT, err : BOOLEAN]
    /\ store \in UNION {[S -> StoredT] : S \in SUBSET Id}
    /\ lock \in {"free", "leaked", "stuck"}
    /\ edits \in 0 .. MaxEdits /\ trouble \in 0 .. MaxTrouble /\ padded \in BOOLEAN

Held(id) == work.at # "idle" /\ work.pet.id = id

\* Pets that no resource points to and that the Reconcile under way does not hold.
Orphans ==
    {id \in DOMAIN store : ~Held(id) /\ \A r \in Resource : api[r].there => api[r].id # id}

\* As long as no resource has had a name with blanks around it, one failed
\* call, restart, stale read or new name costs at most one orphan: without any
\* of them the store holds no pet that no resource points to, also while a
\* resource is deleted, and no retry makes a second one (Reconcile,
\* findPetInStore, ReconcileDelete).
OrphanPerTrouble == ~padded => Cardinality(Orphans) <= trouble

\* "findPetInStore searches the pet store for a pet that matches the custom
\* resource" (pet_controller.go): the pet of a resource is found again, so that
\* nothing is orphaned when nothing has failed or changed.
OrphansNeedTrouble == Cardinality(Orphans) <= trouble

\* The refinement: a resource is wanted until a user deletes it.
Wanted == {r \in Resource : api[r].there /\ ~api[r].deleting}

Keeper == INSTANCE PetKeeper WITH wanted <- Wanted, pets <- store

\* However old the copy that Reconcile works on, and whatever has failed: it
\* touches only pets of its own resource, deletes one only when that resource
\* has been deleted, and makes each under an id that nobody has (Reconcile,
\* ReconcileDelete, createPetInStore, updatePetInStore).
KeeperSpec == Keeper!Spec

Synced(r) ==
    /\ api[r].there /\ ~api[r].deleting /\ api[r].finalizer
    /\ api[r].id \in DOMAIN store
    /\ store[api[r].id].spec = AsStored(api[r].spec)

\* "Reconcile moves the current state of the pet to be the desired state":
\* in the end each resource is gone for good, or the pet it points to is in the
\* store as its spec says.
Settles == \A r \in Resource : <>[](Synced(r) \/ ~api[r].there)

\* It does while the store can be written again and again, that is unless a
\* refused update has taken its lock for good.  (A padded name would use up
\* the bounded ids.)
Converges == []~padded /\ []<>(lock = "free") => Settles
=============================================================================
