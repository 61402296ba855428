------------------------- MODULE PetOperator_proofs -------------------------
(***************************************************************************)
(* Proofs about the controller of Pet resources, for any resources, specs  *)
(* and faults, and any finite set of ids.                                  *)
(***************************************************************************)
EXTENDS PetOperator, FiniteSetTheorems, TLAPS

-----------------------------------------------------------------------------
(* The invariant.  An orphan is the last of several steps, and trouble may *)
(* be many steps before it: the invariant counts the pets that no further  *)
(* trouble is needed to lose.                                              *)

Pointed(id) == \E r \in Resource : api[r].there /\ api[r].id = id

\* The Reconcile works on a copy without the id that the resource has by now.
Stale == work.was.id # api[work.r].id

\* It has made a pet, whose id the resource is still to be given.
New == work.at \in {"patchMeta", "patchStatus"} /\ work.pet.id # work.was.id

\* It is going to make a pet, unless it has.
Pending == \/ work.at = "find" /\ (~InStore(work.pet) \/ Stale)
           \/ work.at = "add"
           \/ New

\* It is going to remove the finalizer of its resource.
Deleting == work.at = "delete" \/ (work.at = "patchMeta" /\ ~work.pet.finalizer)

\* It is going to replace or drop the id of the resource r.
Endangers(r) == work.at # "idle" /\ work.r = r /\ (Pending \/ (Deleting /\ Stale))

\* The resource r points to the pet id, and some Reconcile of r will not find it.
Loses(r, id) ==
    /\ api[r].there /\ api[r].id = id
    /\ \/ store[id].spec.key # api[r].spec.key
       \/ seen[r].spec.key # api[r].spec.key
       \/ Endangers(r)

Risky(id) == (~Pointed(id) /\ ~(New /\ work.pet.id = id)) \/ \E r \in Resource : Loses(r, id)

AtRisk == {id \in DOMAIN store : Risky(id)}

\* The pet that the Reconcile makes is one that its resource will lose.
NewAtRisk ==
    /\ Pending
    /\ \/ ~api[work.r].there
       \/ work.pet.spec.key # api[work.r].spec.key
       \/ seen[work.r].spec.key # api[work.r].spec.key

\* Each pet at risk has cost one piece of trouble.
Debt == Cardinality(AtRisk) + (IF NewAtRisk THEN 1 ELSE 0) <= trouble

\* What the Reconcile has done to its copy, and to the pet of that id.
Copy ==
    work.at # "idle" =>
    /\ work.pet.spec = work.was.spec
    /\ work.at \in {"find", "add", "update", "delete"} =>
           work.pet.id = work.was.id /\ work.pet.finalizer
    /\ work.at = "patchMeta" /\ ~work.pet.finalizer =>
           work.pet.id = work.was.id /\ work.was.id \notin DOMAIN store

\* The pet that the Reconcile has found or made is in the store under its name.
Found ==
    (work.at = "update" \/ New) /\ work.pet.id \in DOMAIN store =>
        store[work.pet.id].spec.key = work.pet.spec.key

\* No name has blanks around it, in any of the copies.
Unpadded ==
    /\ \A r \in Resource : ~Padded(api[r].spec) /\ ~Padded(seen[r].spec)
    /\ work.at # "idle" => ~Padded(work.pet.spec)

Tidy == TypeOK /\ Copy /\ Unpadded /\ Found /\ Debt

\* A name that the store changes ends the accounts, for good.
IInv == TypeOK /\ Copy /\ (~padded => Tidy)

Working == [at : {"find", "add", "update", "delete", "patchMeta", "patchStatus"},
            r : Resource, was : PetT, pet : PetT, err : BOOLEAN]

-----------------------------------------------------------------------------
(* The types of a step.                                                    *)

\* The parts of the type invariant that need care.
StoreT == UNION {[S -> StoredT] : S \in SUBSET Id}
WorkT  == [at : {"idle"}] \cup Working

LEMMA TypeParts ==
    TypeOK <=> /\ api \in [Resource -> PetT] /\ seen \in [Resource -> PetT]
               /\ queue \subseteq Resource /\ work \in WorkT /\ store \in StoreT
               /\ lock \in {"free", "leaked", "stuck"} /\ padded \in BOOLEAN
               /\ edits \in 0 .. MaxEdits /\ trouble \in 0 .. MaxTrouble
  BY DEF TypeOK, StoreT, WorkT, Working

LEMMA WorkShape == ASSUME TypeOK, work.at # "idle" PROVE work \in Working
  BY TypeParts DEF WorkT

LEMMA Idles == [at |-> "idle"] \in WorkT
  BY DEF WorkT

LEMMA StoreShape ==
    ASSUME TypeOK
    PROVE  DOMAIN store \subseteq Id /\ store \in [DOMAIN store -> StoredT]
  BY DEF TypeOK

LEMMA StoreType == ASSUME NEW S \in SUBSET Id, NEW f \in [S -> StoredT] PROVE f \in StoreT
  BY DEF StoreT

\* A pet that is written has the spec of the copy, and the others stay.
LEMMA WithPetShape ==
    ASSUME TypeOK, work.at # "idle", NEW id \in Id
    PROVE  /\ WithPet(id) \in StoreT
           /\ DOMAIN WithPet(id) = DOMAIN store \cup {id}
           /\ WithPet(id)[id].spec = AsStored(work.pet.spec)
           /\ \A k \in DOMAIN store : k # id => WithPet(id)[k] = store[k]
<1>1. [spec |-> AsStored(work.pet.spec), for |-> work.r] \in StoredT
  <2>1. work.pet.spec \in Specs /\ work.r \in Resource
    BY WorkShape DEF Working, PetT
  <2> QED
    BY <2>1, TrimAssumption DEF StoredT
<1>2. WithPet(id) \in [DOMAIN store \cup {id} -> StoredT]
  BY <1>1, StoreShape DEF WithPet
<1>3. DOMAIN store \cup {id} \in SUBSET Id
  BY StoreShape
<1> QED
  BY <1>2, <1>3, StoreType DEF WithPet

LEMMA WithoutPetShape ==
    ASSUME TypeOK, NEW id
    PROVE  /\ WithoutPet(id) \in StoreT
           /\ DOMAIN WithoutPet(id) = DOMAIN store \ {id}
           /\ \A k \in DOMAIN store \ {id} : WithoutPet(id)[k] = store[k]
<1>1. WithoutPet(id) \in [DOMAIN store \ {id} -> StoredT]
  BY StoreShape DEF WithoutPet
<1>2. DOMAIN store \ {id} \in SUBSET Id
  BY StoreShape
<1> QED
  BY <1>1, <1>2, StoreType DEF WithoutPet

LEMMA EmptyStore == [id \in {} |-> {}] \in StoreT
<1>1. [id \in {} |-> {}] \in [{} -> StoredT]
  OBVIOUS
<1> QED
  BY <1>1, StoreType

\* A new id is one that nothing has.
LEMMA FreshId ==
    ASSUME Fresh # {}
    PROVE  /\ NewId \in Id /\ NewId \notin DOMAIN store /\ NewId # work.pet.id
           /\ \A r \in Resource : api[r].id # NewId /\ seen[r].id # NewId
<1>1. NewId \in Fresh
  BY DEF NewId
<1> QED
  BY <1>1 DEF Fresh

LEMMA TroubleType ==
    ASSUME trouble \in 0 .. MaxTrouble, trouble' = trouble \/ Trouble
    PROVE  trouble' \in 0 .. MaxTrouble
  BY BoundsAssumption DEF Trouble

LEMMA LeftType ==
    ASSUME lock \in {"free", "leaked", "stuck"}
    PROVE  Left \subseteq {"free", "leaked", "stuck"}
  BY DEF Left

\* A step that moves the Reconcile on keeps the types when it writes the store
\* and the resource as they are written.
LEMMA ReconcileTypes ==
    ASSUME TypeOK, work.at # "idle", work' \in WorkT, api' \in [Resource -> PetT], store' \in StoreT,
           UNCHANGED <<seen, edits, padded>>, queue' \subseteq queue \cup {work.r},
           lock' = lock \/ lock' \in Left \/ lock' = "leaked",
           trouble' = trouble \/ Trouble
    PROVE  TypeOK'
<1>1. work.r \in Resource
  BY WorkShape DEF Working
<1>2. trouble' \in 0 .. MaxTrouble
  BY TroubleType DEF TypeOK
<1>3. lock' \in {"free", "leaked", "stuck"}
  BY LeftType, TypeParts
<1> QED
  BY <1>1, <1>2, <1>3, TypeParts DEF TypeOK, StoreT, WorkT, Working

LEMMA TypeInit == Init => TypeOK
<1> SUFFICES ASSUME Init PROVE TypeOK
  OBVIOUS
<1>1. api \in [Resource -> PetT]
  BY BoundsAssumption DEF Init, PetT
<1>2. seen \in [Resource -> PetT]
  BY <1>1 DEF Init, PetT
<1>3. edits \in 0 .. MaxEdits /\ trouble \in 0 .. MaxTrouble
  BY BoundsAssumption DEF Init
<1>4. queue \subseteq Resource /\ work \in WorkT /\ store \in StoreT
  BY Idles, EmptyStore DEF Init
<1>5. lock \in {"free", "leaked", "stuck"} /\ padded \in BOOLEAN
  BY DEF Init, Padded
<1> QED
  BY <1>1, <1>2, <1>3, <1>4, <1>5, TypeParts

LEMMA TypeNext == TypeOK /\ [Next]_vars => TypeOK'
<1> SUFFICES ASSUME TypeOK, [Next]_vars PROVE TypeOK'
  OBVIOUS
<1>1. ASSUME NEW r \in Resource, Edit(r) \/ Delete(r) PROVE TypeOK'
  <2>1. api' \in [Resource -> PetT]
    <3>1. \A q \in PetT, t \in Specs : [q EXCEPT !.spec = t] \in PetT
      BY DEF PetT
    <3>2. \A q \in PetT : [q EXCEPT !.deleting = TRUE] \in PetT /\ [q EXCEPT !.there = FALSE] \in PetT
      BY DEF PetT
    <3>3. api \in [Resource -> PetT]
      BY DEF TypeOK
    <3>4. CASE Edit(r)
      <4>1. PICK t \in Specs : api' = [api EXCEPT ![r].spec = t]
        BY <3>4 DEF Edit
      <4> QED
        BY <4>1, <3>1, <3>3
    <3>5. CASE Delete(r)
      BY <3>2, <3>3, <3>5 DEF Delete
    <3> QED
      BY <1>1, <3>4, <3>5
  <2>2. trouble' \in 0 .. MaxTrouble
    BY <1>1, TroubleType DEF Edit, Delete, TypeOK
  <2>3. edits' \in 0 .. MaxEdits
    BY <1>1, BoundsAssumption DEF Edit, Delete, TypeOK
  <2>4. padded' \in BOOLEAN
    BY <1>1 DEF Edit, Delete, Padded, TypeOK
  <2> QED
    BY <1>1, <2>1, <2>2, <2>3, <2>4, Zenon DEF Edit, Delete, TypeOK
<1>2. ASSUME NEW r \in Resource, Observe(r) PROVE TypeOK'
  <2>1. seen' \in [Resource -> PetT]
    BY <1>2 DEF Observe, TypeOK
  <2> QED
    BY <1>2, <2>1, Zenon DEF Observe, TypeOK
<1>3. ASSUME NEW r \in Resource, Get(r) PROVE TypeOK'
  <2>1. seen[r] \in PetT /\ [seen[r] EXCEPT !.finalizer = TRUE] \in PetT
    BY DEF TypeOK, PetT
  <2>2. work' \in WorkT
    BY <1>3, <2>1 DEF Get, WorkT, Working
  <2>3. trouble' \in 0 .. MaxTrouble /\ queue' \subseteq Resource
    BY <1>3, TroubleType DEF Get, TypeOK
  <2> QED
    BY <1>3, <2>2, <2>3, Zenon DEF Get, TypeOK, WorkT, Working
<1>4. CASE Find \/ FindFails
  <2>1. work.at # "idle" /\ work' \in WorkT
    BY <1>4, WorkShape DEF Find, FindFails, Fail, Goto, WorkT, Working
  <2> QED
    BY <1>4, <2>1, ReconcileTypes DEF Find, FindFails, TypeOK, StoreT
<1>5. CASE Add \/ AddFails
  <2>1. work.at # "idle" /\ work' \in WorkT
    <3>1. \A q \in PetT, id \in Id : [q EXCEPT !.id = id] \in PetT
      BY DEF PetT
    <3>2. work.at # "idle" /\ NewId \in Id
      BY <1>5, FreshId DEF Add, AddFails
    <3>3. [work.pet EXCEPT !.id = NewId] \in PetT
      BY <3>1, <3>2, WorkShape DEF Working
    <3>4. work' = [work EXCEPT !.at = "patchMeta", !.pet = [work.pet EXCEPT !.id = NewId]]
            \/ work' = [work EXCEPT !.at = "patchMeta", !.err = TRUE]
      BY <1>5 DEF Add, AddFails, Fail
    <3> QED
      BY <3>2, <3>3, <3>4, WorkShape DEF WorkT, Working
  <2>2. store' \in StoreT
    BY <1>5, <2>1, FreshId, WithPetShape, TypeParts DEF Add, AddFails
  <2> QED
    BY <1>5, <2>1, <2>2, ReconcileTypes DEF Add, AddFails, TypeOK
<1>6. CASE Update \/ UpdateRefused \/ UpdateFails
  <2>1. work.at # "idle" /\ work' \in WorkT
    BY <1>6, WorkShape DEF Update, UpdateRefused, UpdateFails, Fail, Goto, WorkT, Working
  <2>2. store' \in StoreT
    BY <1>6, <2>1, WithPetShape, StoreShape, TypeParts DEF Update, UpdateRefused, UpdateFails
  <2> QED
    BY <1>6, <2>1, <2>2, ReconcileTypes DEF Update, UpdateRefused, UpdateFails, TypeOK
<1>7. CASE DeleteInStore \/ DeleteFails
  <2>1. work.at # "idle" /\ work' \in WorkT
    <3>1. \A q \in PetT : [q EXCEPT !.finalizer = FALSE] \in PetT
      BY DEF PetT
    <3> QED
      BY <1>7, <3>1, WorkShape DEF DeleteInStore, DeleteFails, Fail, WorkT, Working
  <2>2. store' \in StoreT
    BY <1>7, <2>1, WithoutPetShape, TypeParts DEF DeleteInStore, DeleteFails
  <2> QED
    BY <1>7, <2>1, <2>2, ReconcileTypes DEF DeleteInStore, DeleteFails, TypeOK
<1>8. CASE PatchMeta \/ PatchMetaFails
  <2>1. work.at # "idle" /\ work' \in WorkT
    BY <1>8, WorkShape DEF PatchMeta, PatchMetaFails, Goto, WorkT, Working
  <2>2. api' \in [Resource -> PetT]
    BY <1>8, <2>1, WorkShape DEF PatchMeta, PatchMetaFails, TypeOK, Working, PetT
  <2> QED
    BY <1>8, <2>1, <2>2, ReconcileTypes, TypeParts DEF PatchMeta, PatchMetaFails
<1>9. CASE PatchStatus \/ PatchStatusFails
  <2>1. work.at # "idle" /\ work' \in WorkT
    <3>1. work.at = "patchStatus" /\ work' = [at |-> "idle"]
      BY <1>9 DEF PatchStatus, PatchStatusFails, Done
    <3> QED
      BY <3>1, Idles
  <2>2. api' \in [Resource -> PetT]
    <3>1. \A q \in PetT, x \in Id \cup {NoId} : [q EXCEPT !.id = x] \in PetT
      BY DEF PetT
    <3>2. work.r \in Resource /\ work.pet.id \in Id \cup {NoId} /\ api \in [Resource -> PetT]
      BY <2>1, WorkShape DEF Working, PetT, TypeOK
    <3>3. api' = api \/ api' = [api EXCEPT ![work.r].id = work.pet.id]
      BY <1>9 DEF PatchStatus, PatchStatusFails
    <3> QED
      BY <3>1, <3>2, <3>3
  <2> QED
    BY <1>9, <2>1, <2>2, ReconcileTypes, TypeParts DEF PatchStatus, PatchStatusFails, Done
<1>10. CASE Resync
  <2>1. queue' \subseteq Resource
    BY <1>10 DEF Resync
  <2> QED
    BY <1>10, <2>1, Zenon DEF Resync, TypeOK
<1>11. CASE Restart \/ StoreRestart
  <2>1. work' \in WorkT /\ store' \in StoreT
    BY <1>11, Idles, EmptyStore, TypeParts DEF Restart, StoreRestart
  <2>2. trouble' \in 0 .. MaxTrouble /\ queue' \subseteq Resource
    BY <1>11, TroubleType DEF Restart, StoreRestart, TypeOK
  <2>3. lock' \in {"free", "leaked", "stuck"}
    BY <1>11, LeftType DEF Restart, StoreRestart, TypeOK
  <2> QED
    BY <1>11, <2>1, <2>2, <2>3 DEF Restart, StoreRestart, TypeOK, StoreT, WorkT, Working
<1>12. CASE UNCHANGED vars
  BY <1>12, Zenon DEF vars, TypeOK
<1> QED
  BY <1>1, <1>2, <1>3, <1>4, <1>5, <1>6, <1>7, <1>8, <1>9, <1>10, <1>11, <1>12
     DEF Next, Reconcile, Faults

-----------------------------------------------------------------------------
(* The copy.                                                               *)

\* The actions of the Reconcile keep its copy of the spec, and its id until the
\* pet is made; the rest of Kubernetes leaves both alone.
LEMMA CopyNext == TypeOK /\ Copy /\ [Next]_vars => Copy'
<1> SUFFICES ASSUME TypeOK, Copy, [Next]_vars PROVE Copy'
  OBVIOUS
<1>1. CASE work' = work /\ store' = store
  BY <1>1 DEF Copy, New
<1>2. ASSUME NEW r \in Resource, Get(r) PROVE Copy'
  <2>1. seen[r] \in PetT
    BY DEF TypeOK
  <2> QED
    BY <1>2, <2>1 DEF Get, Copy, New, PetT
<1>3. CASE Find \/ FindFails
  BY <1>3, WorkShape DEF Find, FindFails, Fail, Goto, Copy, New, InStore, Working, PetT
<1>4. CASE Add \/ AddFails
  <2>1. work.at = "add" /\ work \in Working /\ NewId \in Id /\ NewId # work.pet.id
    BY <1>4, WorkShape, FreshId DEF Add, AddFails
  <2>2. CASE Add
    BY <2>1, <2>2, WithPetShape DEF Add, Copy, New, Working, PetT
  <2>3. CASE AddFails
    BY <2>1, <2>3 DEF AddFails, Fail, Copy, New, Working, PetT
  <2> QED
    BY <1>4, <2>2, <2>3
<1>5. CASE Update \/ UpdateRefused \/ UpdateFails
  BY <1>5, WorkShape DEF Update, UpdateRefused, UpdateFails, Fail, Goto, Copy, New, Working, PetT
<1>6. CASE DeleteInStore \/ DeleteFails
  <2>1. work.at = "delete" /\ work \in Working
    BY <1>6, WorkShape DEF DeleteInStore, DeleteFails
  <2>2. CASE DeleteInStore
    <3>1. work' = [work EXCEPT !.at = "patchMeta", !.pet = [work.pet EXCEPT !.finalizer = FALSE]]
      BY <2>2 DEF DeleteInStore
    <3>2. work.pet.id \notin DOMAIN store'
      BY <2>2, WithoutPetShape DEF DeleteInStore
    <3> QED
      BY <2>1, <3>1, <3>2 DEF Copy, New, Working, PetT
  <2>3. CASE DeleteFails
    BY <2>1, <2>3 DEF DeleteFails, Fail, Copy, New, Working, PetT
  <2> QED
    BY <1>6, <2>2, <2>3
<1>7. CASE PatchMeta \/ PatchMetaFails
  BY <1>7, WorkShape DEF PatchMeta, PatchMetaFails, Goto, Copy, New, Working
<1>8. CASE PatchStatus \/ PatchStatusFails \/ Restart
  BY <1>8 DEF PatchStatus, PatchStatusFails, Done, Restart, Copy
<1>9. CASE StoreRestart
  BY <1>9 DEF StoreRestart, Copy, New
<1>10. CASE Resync \/ UNCHANGED vars
  BY <1>10, <1>1 DEF Resync, vars
<1>11. ASSUME NEW r \in Resource, Edit(r) \/ Delete(r) \/ Observe(r) PROVE Copy'
  BY <1>11, <1>1 DEF Edit, Delete, Observe
<1> QED
  BY <1>2, <1>3, <1>4, <1>5, <1>6, <1>7, <1>8, <1>9, <1>10, <1>11 DEF Next, Reconcile, Faults

LEMMA PaddedStays == TypeOK /\ [Next]_vars /\ ~padded' => ~padded
<1> SUFFICES ASSUME TypeOK, [Next]_vars, ~padded' PROVE ~padded
  OBVIOUS
<1>1. ASSUME NEW r \in Resource, Edit(r) PROVE ~padded
  BY <1>1 DEF Edit
<1>2. CASE padded' = padded
  BY <1>2
<1> QED
  BY <1>1, <1>2, Zenon DEF Next, Reconcile, Faults, vars, Find, FindFails, Add, AddFails, Update, UpdateRefused,
     UpdateFails, DeleteInStore, DeleteFails, PatchMeta, PatchMetaFails, PatchStatus, PatchStatusFails, Restart,
     StoreRestart, Resync, Delete, Observe, Get

\* Only a user brings in a name, and the rest copy it.
LEMMA UnpaddedNext == TypeOK /\ Copy /\ Unpadded /\ ~padded' /\ [Next]_vars => ~padded /\ Unpadded'
<1> SUFFICES ASSUME TypeOK, Copy, Unpadded, ~padded', [Next]_vars PROVE ~padded /\ Unpadded'
  OBVIOUS
<1>1. ASSUME UNCHANGED <<seen, padded>>, \A r \in Resource : api'[r].spec = api[r].spec,
             work'.at = "idle" \/ (work.at # "idle" /\ work'.pet.spec = work.pet.spec)
      PROVE  ~padded /\ Unpadded'
  BY <1>1 DEF Unpadded
<1>2. CASE UNCHANGED <<seen, padded, api, work>>
  BY <1>2 DEF Unpadded
<1>3. ASSUME NEW r \in Resource, Edit(r) PROVE ~padded /\ Unpadded'
  <2>1. PICK t \in Specs : api' = [api EXCEPT ![r].spec = t] /\ padded' = (padded \/ Padded(t))
    BY <1>3 DEF Edit
  <2>2. ~padded /\ ~Padded(t)
    BY <2>1
  <2>3. \A s \in Resource : api'[s].spec = IF s = r THEN t ELSE api[s].spec
    BY <2>1 DEF TypeOK, PetT
  <2> QED
    BY <1>3, <2>2, <2>3 DEF Edit, Unpadded
<1>4. ASSUME NEW r \in Resource, Delete(r) PROVE ~padded /\ Unpadded'
  <2>1. \A s \in Resource : api'[s].spec = api[s].spec
    BY <1>4 DEF Delete, TypeOK, PetT
  <2> QED
    BY <1>4, <2>1 DEF Delete, Unpadded
<1>5. ASSUME NEW r \in Resource, Observe(r) PROVE ~padded /\ Unpadded'
  <2>1. \A s \in Resource : seen'[s].spec \in {seen[s].spec, api[s].spec}
    BY <1>5 DEF Observe, TypeOK
  <2> QED
    BY <1>5, <2>1 DEF Observe, Unpadded
<1>6. ASSUME NEW r \in Resource, Get(r) PROVE ~padded /\ Unpadded'
  <2>1. work'.at # "idle" => work'.pet.spec = seen[r].spec
    BY <1>6 DEF Get, TypeOK, PetT
  <2> QED
    BY <1>6, <2>1 DEF Get, Unpadded
<1>7. CASE Restart
  BY <1>7 DEF Restart, Unpadded
<1>8. CASE PatchStatus \/ PatchStatusFails
  <2>1. work'.at = "idle" /\ UNCHANGED <<seen, padded>>
    BY <1>8 DEF PatchStatus, PatchStatusFails, Done
  <2>2. \A s \in Resource : api'[s].spec = api[s].spec
    <3>1. \A q \in PetT : [q EXCEPT !.id = work.pet.id].spec = q.spec
      BY DEF PetT
    <3>2. api' = api \/ api' = [api EXCEPT ![work.r] = [api[work.r] EXCEPT !.id = work.pet.id]]
      BY <1>8 DEF PatchStatus, PatchStatusFails
    <3>3. api \in [Resource -> PetT]
      BY DEF TypeOK
    <3> QED
      BY <3>1, <3>2, <3>3
  <2> QED
    BY <1>1, <2>1, <2>2
<1>9. CASE PatchMeta \/ PatchMetaFails
  <2>1. work.at # "idle" /\ work'.pet.spec = work.pet.spec /\ UNCHANGED <<seen, padded>>
    BY <1>9, WorkShape DEF PatchMeta, PatchMetaFails, Goto, Working
  <2>2. \A s \in Resource : api'[s].spec = api[s].spec
    BY <1>9, WorkShape DEF PatchMeta, PatchMetaFails, Working, TypeOK, PetT
  <2> QED
    BY <1>1, <2>1, <2>2
<1>10. CASE Find \/ FindFails \/ Update \/ UpdateRefused \/ UpdateFails \/ AddFails \/ DeleteFails
  <2>1. work.at # "idle" /\ work'.pet.spec = work.pet.spec /\ UNCHANGED <<api, seen, padded>>
    BY <1>10, WorkShape DEF Find, FindFails, Update, UpdateRefused, UpdateFails, AddFails, DeleteFails,
       Fail, Goto, Working
  <2> QED
    BY <1>1, <2>1
<1>11. CASE Add \/ DeleteInStore
  <2>1. work.at # "idle" /\ work \in Working /\ UNCHANGED <<api, seen, padded>>
    BY <1>11, WorkShape DEF Add, DeleteInStore
  <2>2. \/ work' = [work EXCEPT !.at = "patchMeta", !.pet = [work.pet EXCEPT !.id = NewId]]
        \/ work' = [work EXCEPT !.at = "patchMeta", !.pet = [work.pet EXCEPT !.finalizer = FALSE]]
    BY <1>11 DEF Add, DeleteInStore
  <2>3. work'.pet.spec = work.pet.spec
    <3>1. \A q \in PetT : [q EXCEPT !.id = NewId].spec = q.spec /\ [q EXCEPT !.finalizer = FALSE].spec = q.spec
      BY DEF PetT
    <3>2. \A q : [work EXCEPT !.at = "patchMeta", !.pet = q].pet = q
      BY <2>1 DEF Working
    <3>3. work.pet \in PetT
      BY <2>1 DEF Working
    <3>4. CASE work' = [work EXCEPT !.at = "patchMeta", !.pet = [work.pet EXCEPT !.id = NewId]]
      BY <3>1, <3>2, <3>3, <3>4
    <3>5. CASE work' = [work EXCEPT !.at = "patchMeta", !.pet = [work.pet EXCEPT !.finalizer = FALSE]]
      BY <3>1, <3>2, <3>3, <3>5
    <3> QED
      BY <2>2, <3>4, <3>5
  <2> QED
    BY <1>1, <2>1, <2>3
<1>12. CASE Resync \/ StoreRestart \/ UNCHANGED vars
  BY <1>2, <1>12 DEF Resync, StoreRestart, vars
<1> QED
  BY <1>3, <1>4, <1>5, <1>6, <1>7, <1>8, <1>9, <1>10, <1>11, <1>12 DEF Next, Reconcile, Faults

\* A pet is written under the name that the Reconcile searched it by.
LEMMA FoundNext == TypeOK /\ Copy /\ Unpadded /\ Found /\ [Next]_vars => Found'
<1> SUFFICES ASSUME TypeOK, Copy, Unpadded, Found, [Next]_vars PROVE Found'
  OBVIOUS
<1>1. CASE work' = work /\ store' = store
  BY <1>1 DEF Found, New
<1>2. ASSUME NEW r \in Resource, Get(r) PROVE Found'
  BY <1>2 DEF Get, Found, New
<1>3. CASE Find \/ FindFails
  BY <1>3, WorkShape DEF Find, FindFails, Fail, Goto, Copy, Found, New, InStore, Working, PetT
<1>4. CASE Add \/ AddFails
  <2>1. work.at = "add" /\ work \in Working /\ NewId \in Id /\ NewId # work.pet.id
    BY <1>4, WorkShape, FreshId DEF Add, AddFails
  <2>2. CASE Add
    <3>1. store'[NewId].spec.key = work.pet.spec.key
      <4>1. WithPet(NewId)[NewId].spec = AsStored(work.pet.spec)
        BY <2>1, WithPetShape
      <4>2. AsStored(work.pet.spec).key = work.pet.spec.key
        BY <2>1 DEF Unpadded, Padded, AsStored
      <4> QED
        BY <2>2, <4>1, <4>2 DEF Add
    <3>2. work' = [work EXCEPT !.at = "patchMeta", !.pet = [work.pet EXCEPT !.id = NewId]]
      BY <2>2 DEF Add
    <3>3. work'.pet.id = NewId /\ work'.pet.spec = work.pet.spec
      BY <2>1, <3>2 DEF Working, PetT
    <3> QED
      BY <3>1, <3>3 DEF Found
  <2>3. CASE AddFails
    BY <2>1, <2>3 DEF AddFails, Fail, Copy, Found, New, Working, PetT
  <2> QED
    BY <1>4, <2>2, <2>3
<1>5. CASE Update \/ UpdateRefused \/ UpdateFails
  BY <1>5, WorkShape DEF Update, UpdateRefused, UpdateFails, Fail, Goto, Copy, Found, New, Working, PetT
<1>6. CASE DeleteInStore \/ DeleteFails
  <2>1. work.at = "delete" /\ work \in Working
    BY <1>6, WorkShape DEF DeleteInStore, DeleteFails
  <2>2. CASE DeleteInStore
    <3>1. work' = [work EXCEPT !.at = "patchMeta", !.pet = [work.pet EXCEPT !.finalizer = FALSE]]
      BY <2>2 DEF DeleteInStore
    <3>2. work.pet.id \notin DOMAIN store'
      BY <2>2, WithoutPetShape DEF DeleteInStore
    <3> QED
      BY <2>1, <3>1, <3>2 DEF Found, New, Working, PetT
  <2>3. CASE DeleteFails
    BY <2>1, <2>3 DEF DeleteFails, Fail, Copy, Found, New, Working, PetT
  <2> QED
    BY <1>6, <2>2, <2>3
<1>7. CASE PatchMeta \/ PatchMetaFails
  BY <1>7, WorkShape DEF PatchMeta, PatchMetaFails, Goto, Found, New, Working
<1>8. CASE PatchStatus \/ PatchStatusFails \/ Restart
  BY <1>8 DEF PatchStatus, PatchStatusFails, Done, Restart, Found, New
<1>9. CASE StoreRestart
  BY <1>9 DEF StoreRestart, Found
<1>10. CASE Resync \/ UNCHANGED vars
  BY <1>10, <1>1 DEF Resync, vars
<1>11. ASSUME NEW r \in Resource, Edit(r) \/ Delete(r) \/ Observe(r) PROVE Found'
  BY <1>11, <1>1 DEF Edit, Delete, Observe
<1> QED
  BY <1>2, <1>3, <1>4, <1>5, <1>6, <1>7, <1>8, <1>9, <1>10, <1>11 DEF Next, Reconcile, Faults

-----------------------------------------------------------------------------
(* The debt.                                                               *)

LEMMA AtRiskFinite ==
    ASSUME TypeOK, TypeOK'
    PROVE  /\ AtRisk \in SUBSET Id /\ AtRisk' \in SUBSET Id
           /\ IsFiniteSet(AtRisk) /\ IsFiniteSet(AtRisk')
           /\ Cardinality(AtRisk) \in Nat /\ Cardinality(AtRisk') \in Nat
<1>1. AtRisk \subseteq Id /\ AtRisk' \subseteq Id
  BY DEF AtRisk, TypeOK
<1> QED
  BY <1>1, BoundsAssumption, FS_Subset, FS_CardinalityType

LEMMA OneMore ==
    ASSUME NEW S, NEW T, NEW x, IsFiniteSet(S), T \subseteq S \cup {x}
    PROVE  /\ Cardinality(T) <= Cardinality(S) + 1
           /\ T \subseteq S => Cardinality(T) <= Cardinality(S)
<1>1. /\ IsFiniteSet(S \cup {x})
      /\ Cardinality(S) \in Nat
      /\ Cardinality(S \cup {x}) = Cardinality(S) \/ Cardinality(S \cup {x}) = Cardinality(S) + 1
  BY FS_AddElement, FS_CardinalityType
<1>2. IsFiniteSet(T) /\ Cardinality(T) <= Cardinality(S \cup {x})
  BY <1>1, FS_Subset
<1>3. Cardinality(T) \in Nat
  BY <1>2, FS_CardinalityType
<1>4. T \subseteq S => Cardinality(T) <= Cardinality(S)
  BY FS_Subset
<1> QED
  BY <1>1, <1>2, <1>3, <1>4

\* How a step may change what is at risk: not at all, by one for one piece of
\* trouble, or by the pet that was going to be lost once it was made.
LEMMA DebtNext ==
    ASSUME TypeOK, TypeOK', Debt, NEW x,
           \/ AtRisk' \subseteq AtRisk /\ (NewAtRisk' => NewAtRisk) /\ trouble' \in {trouble, trouble + 1}
           \/ AtRisk' \subseteq AtRisk /\ trouble' = trouble + 1
           \/ AtRisk' \subseteq AtRisk \cup {x} /\ (NewAtRisk' => NewAtRisk) /\ trouble' = trouble + 1
           \/ AtRisk' \subseteq AtRisk \cup {x} /\ NewAtRisk /\ ~NewAtRisk' /\ trouble' = trouble
    PROVE  Debt'
<1> DEFINE c == Cardinality(AtRisk)  d == Cardinality(AtRisk')
<1>1. /\ c \in Nat /\ d \in Nat /\ d <= c + 1
      /\ AtRisk' \subseteq AtRisk => d <= c
  BY AtRiskFinite, OneMore
<1>2. trouble \in Nat
  BY BoundsAssumption DEF TypeOK
<1>3. c + (IF NewAtRisk THEN 1 ELSE 0) <= trouble
  BY DEF Debt
<1>4. d + (IF NewAtRisk' THEN 1 ELSE 0) <= trouble'
  BY <1>1, <1>2, <1>3
<1> QED
  BY <1>4 DEF Debt

\* A step of the Reconcile alone puts no pet at risk that was not: it endangers
\* no resource that it did not, and holds the pet it has made.
LEMMA RiskOfWork ==
    ASSUME UNCHANGED <<api, seen, store>>, New => New' /\ work'.pet.id = work.pet.id,
           \A r \in Resource : Endangers(r)' => Endangers(r)
    PROVE  AtRisk' \subseteq AtRisk
  BY DEF AtRisk, Risky, Pointed, Loses

\* A new name, and a resource that is gone at once, lose the pet of the resource
\* at most, or the one that is being made when that one is lost already.
LEMMA DebtEditDelete ==
    ASSUME Tidy, TypeOK', NEW r \in Resource, Edit(r) \/ Delete(r)
    PROVE  Debt'
<1> DEFINE x == api[r].id
<1>1. UNCHANGED <<seen, store, work>> /\ trouble \in Nat /\ api \in [Resource -> PetT]
  BY BoundsAssumption DEF Edit, Delete, Tidy, TypeOK
<1>2. CASE Edit(r)
  <2>1. PICK t \in Specs : /\ api' = [api EXCEPT ![r] = [api[r] EXCEPT !.spec = t]]
                            /\ trouble' = IF t.key # api[r].spec.key THEN trouble + 1 ELSE trouble
    BY <1>2 DEF Edit, Trouble
  <2>2. api[r].there /\ \A s \in Resource : /\ api'[s].there = api[s].there /\ api'[s].id = api[s].id
                                            /\ s # r => api'[s] = api[s]
    BY <1>1, <1>2, <2>1 DEF Edit, PetT
  <2>3. api'[r].spec = t
    BY <1>1, <2>1 DEF PetT
  <2>4. work.at # "idle" => work.r \in Resource
    BY WorkShape DEF Tidy, Working
  <2>5. Pending' = Pending /\ New' = New /\ \A s \in Resource : Endangers(s)' <=> Endangers(s)
    BY <1>1, <2>2, <2>4 DEF Endangers, Pending, New, Deleting, Stale, InStore
  <2>6. \A id : Pointed(id)' <=> Pointed(id)
    BY <2>2 DEF Pointed
  <2>7. \A id \in AtRisk' : id \in AtRisk \/ (id = x /\ ~Endangers(r) /\ t.key # api[r].spec.key)
    BY <1>1, <2>2, <2>3, <2>5, <2>6 DEF AtRisk, Risky, Loses
  <2>8. NewAtRisk' => NewAtRisk \/ (Endangers(r) /\ t.key # api[r].spec.key)
    BY <1>1, <2>2, <2>3, <2>4, <2>5 DEF NewAtRisk, Endangers, Pending, New
  <2> QED
    BY <1>1, <2>1, <2>7, <2>8, DebtNext DEF Tidy
<1>3. CASE Delete(r)
  <2>1. /\ api[r].there /\ api'[r].id = api[r].id /\ api'[r].spec = api[r].spec
        /\ \A s \in Resource : s # r => api'[s] = api[s]
        /\ \/ api'[r].there /\ trouble' = trouble
           \/ ~api'[r].there /\ trouble' = trouble + 1
    BY <1>1, <1>3 DEF Delete, Trouble, PetT
  <2>2. work.at # "idle" => work.r \in Resource
    BY WorkShape DEF Tidy, Working
  <2>3. Pending' = Pending /\ New' = New /\ \A s \in Resource : Endangers(s)' <=> Endangers(s)
    BY <1>1, <2>1, <2>2 DEF Endangers, Pending, New, Deleting, Stale, InStore
  <2>4. \A id : id # x => (Pointed(id)' <=> Pointed(id))
    BY <2>1 DEF Pointed
  <2>5. CASE api'[r].there
    <3>1. \A id : Pointed(id)' <=> Pointed(id)
      BY <2>1, <2>5 DEF Pointed
    <3>2. AtRisk' \subseteq AtRisk
      BY <1>1, <2>1, <2>3, <2>5, <3>1 DEF AtRisk, Risky, Loses
    <3>3. NewAtRisk' => NewAtRisk
      BY <1>1, <2>1, <2>2, <2>3, <2>5 DEF NewAtRisk, Pending, New
    <3> QED
      BY <2>1, <2>5, <3>2, <3>3, DebtNext DEF Tidy
  <2>6. CASE ~api'[r].there
    <3>1. \A id \in AtRisk' : id \in AtRisk \/ (id = x /\ ~Endangers(r))
      BY <1>1, <2>1, <2>3, <2>4, <2>6 DEF AtRisk, Risky, Loses
    <3>2. NewAtRisk' => NewAtRisk \/ Endangers(r)
      BY <1>1, <2>1, <2>2, <2>3 DEF NewAtRisk, Endangers, Pending, New
    <3> QED
      BY <1>1, <2>1, <2>6, <3>1, <3>2, DebtNext DEF Tidy
  <2> QED
    BY <2>5, <2>6
<1> QED
  BY <1>2, <1>3

\* An event can only make the copies agree.
LEMMA DebtObserve ==
    ASSUME Tidy, TypeOK', NEW r \in Resource, Observe(r)
    PROVE  Debt'
<1>1. UNCHANGED <<api, store, work, trouble>> /\ seen'[r] = api[r]
      /\ \A s \in Resource : s # r => seen'[s] = seen[s]
  BY DEF Observe, Tidy, TypeOK
<1>2. work.at # "idle" => work.r \in Resource
  BY WorkShape DEF Tidy, Working
<1>3. Pending' = Pending /\ New' = New /\ \A s \in Resource : Endangers(s)' <=> Endangers(s)
  BY <1>1 DEF Endangers, Pending, New, Deleting, Stale, InStore
<1>4. AtRisk' \subseteq AtRisk
  BY <1>1, <1>3 DEF AtRisk, Risky, Loses, Pointed
<1>5. NewAtRisk' => NewAtRisk
  BY <1>1, <1>2, <1>3 DEF NewAtRisk, Pending, New
<1> QED
  BY <1>1, <1>4, <1>5, DebtNext DEF Tidy

\* A Reconcile that starts with a copy as the resource is endangers no pet that
\* is not at risk; with another one it may endanger the pet of the resource, or
\* a new one when that pet is lost already.
LEMMA DebtGet ==
    ASSUME Tidy, TypeOK', NEW r \in Resource, Get(r)
    PROVE  Debt'
<1> DEFINE x == api[r].id
<1>1. /\ UNCHANGED <<api, seen, store>> /\ work.at = "idle" /\ trouble \in Nat
      /\ trouble' = IF seen[r] # api[r] THEN trouble + 1 ELSE trouble
      /\ seen[r] \in PetT
  BY BoundsAssumption DEF Get, Trouble, Tidy, TypeOK
<1>2. ~New /\ \A s \in Resource : ~Endangers(s)
  BY <1>1 DEF New, Endangers
<1>3. CASE ~seen[r].there
  <2>1. work'.at = "idle"
    BY <1>3 DEF Get
  <2>2. ~New' /\ ~NewAtRisk' /\ \A s \in Resource : ~Endangers(s)'
    BY <2>1 DEF New, NewAtRisk, Pending, Endangers
  <2>3. AtRisk' \subseteq AtRisk
    BY <1>1, <1>2, <2>2, RiskOfWork
  <2> QED
    BY <1>1, <2>2, <2>3, DebtNext DEF Tidy
<1>4. CASE seen[r].there
  <2>1. /\ work'.at = IF seen[r].deleting THEN "delete" ELSE "find"
        /\ work'.r = r /\ work'.was = seen[r]
        /\ work'.pet.id = seen[r].id /\ work'.pet.spec = seen[r].spec
    BY <1>1, <1>4 DEF Get, PetT
  <2>2. ~New' /\ \A s \in Resource : s # r => ~Endangers(s)'
    BY <2>1 DEF New, Endangers
  <2>3. \A id \in AtRisk' : id \in AtRisk \/ (id = x /\ api[r].there /\ Endangers(r)')
    BY <1>1, <1>2, <2>2 DEF AtRisk, Risky, Pointed, Loses
  <2>4. NewAtRisk' => /\ ~InStore(work.pet)' \/ seen[r].id # x
                      /\ ~api[r].there \/ seen[r].spec.key # api[r].spec.key
    BY <1>1, <2>1, <2>2 DEF NewAtRisk, Pending, Stale
  <2>5. x \in DOMAIN store /\ api[r].there /\ seen[r].spec.key # api[r].spec.key => x \in AtRisk
    BY DEF AtRisk, Risky, Loses
  <2>6. CASE seen[r] # api[r]
    <3>1. CASE NewAtRisk'
      <4>1. AtRisk' \subseteq AtRisk
        BY <1>1, <2>3, <2>4, <2>5, <3>1 DEF AtRisk
      <4> QED
        BY <1>1, <2>6, <4>1, DebtNext DEF Tidy
    <3>2. CASE ~NewAtRisk'
      BY <1>1, <2>3, <2>6, <3>2, DebtNext DEF Tidy
    <3> QED
      BY <3>1, <3>2
  <2>7. CASE seen[r] = api[r]
    <3>1. ~NewAtRisk' /\ ~Stale'
      BY <1>1, <1>4, <2>1, <2>4, <2>7 DEF Stale
    <3>2. Endangers(r)' => x \notin DOMAIN store \/ store[x].spec.key # api[r].spec.key
      BY <1>1, <2>1, <2>2, <2>7, <3>1 DEF Endangers, Pending, InStore
    <3>3. AtRisk' \subseteq AtRisk
      BY <1>1, <2>3, <3>2 DEF AtRisk, Risky, Loses
    <3> QED
      BY <1>1, <2>7, <3>1, <3>3, DebtNext DEF Tidy
  <2> QED
    BY <2>6, <2>7
<1> QED
  BY <1>3, <1>4

\* A search that finds the pet saves it; one that fails may put it at risk, or
\* the pet that is made in its place when it is at risk already.
LEMMA DebtFind ==
    ASSUME Tidy, TypeOK', Find \/ FindFails
    PROVE  Debt'
<1> DEFINE x == api[work.r].id
<1>1. /\ UNCHANGED <<api, seen, store>> /\ work.at = "find" /\ trouble \in Nat
      /\ work \in Working /\ work.pet.id = work.was.id
      /\ work'.r = work.r /\ work'.was = work.was /\ work'.pet = work.pet
  <2>1. work.at = "find" /\ work \in Working /\ trouble \in Nat
    BY BoundsAssumption, WorkShape DEF Find, FindFails, Tidy, TypeOK
  <2>2. work.pet.id = work.was.id
    BY <2>1 DEF Tidy, Copy
  <2>3. UNCHANGED <<api, seen, store>>
    BY DEF Find, FindFails
  <2>4. work'.r = work.r /\ work'.was = work.was /\ work'.pet = work.pet
    BY <2>1 DEF Find, FindFails, Fail, Goto, Working
  <2> QED
    BY <2>1, <2>2, <2>3, <2>4
<1>2. ~New /\ ~New' /\ ~Deleting /\ (Deleting' => FALSE) /\ work.r \in Resource
  <2>1. work.pet.finalizer /\ work'.at \in {"update", "add", "patchMeta"}
    BY <1>1 DEF Find, FindFails, Fail, Goto, Tidy, Copy, Working
  <2> QED
    BY <1>1, <2>1 DEF New, Deleting, Working
<1>3. \A s \in Resource : Endangers(s)' => s = work.r /\ Pending'
  BY <1>1, <1>2 DEF Endangers
<1>4. ASSUME Pending' => Pending, trouble' \in {trouble, trouble + 1} PROVE Debt'
  <2>1. \A s \in Resource : Endangers(s)' => Endangers(s)
    BY <1>1, <1>3, <1>4 DEF Endangers
  <2>2. AtRisk' \subseteq AtRisk
    BY <1>1, <1>2, <2>1, RiskOfWork
  <2>3. NewAtRisk' => NewAtRisk
    BY <1>1, <1>4 DEF NewAtRisk
  <2> QED
    BY <1>4, <2>2, <2>3, DebtNext DEF Tidy
<1>5. CASE Find
  BY <1>1, <1>2, <1>4, <1>5 DEF Find, Goto, Pending
<1>6. CASE FindFails /\ ~Pending
  <2>1. trouble' = trouble + 1
    BY <1>6 DEF FindFails, Trouble
  <2>2. InStore(work.pet) /\ work.pet.id = x
    BY <1>1, <1>6 DEF Pending, Stale
  <2>3. \A id \in AtRisk' : id \in AtRisk \/ (id = x /\ api[work.r].there)
    BY <1>1, <1>2, <1>3 DEF AtRisk, Risky, Pointed, Loses
  <2>4. CASE NewAtRisk'
    <3>1. \/ ~api[work.r].there \/ work.pet.spec.key # api[work.r].spec.key
          \/ seen[work.r].spec.key # api[work.r].spec.key
      BY <1>1, <2>4 DEF NewAtRisk
    <3>2. api[work.r].there => x \in AtRisk
      BY <1>2, <2>2, <3>1 DEF AtRisk, Risky, Loses, InStore
    <3> QED
      BY <2>1, <2>3, <3>2, DebtNext DEF Tidy
  <2>5. CASE ~NewAtRisk'
    BY <2>1, <2>3, <2>5, DebtNext DEF Tidy
  <2> QED
    BY <2>4, <2>5
<1>7. CASE FindFails /\ Pending
  BY <1>4, <1>7 DEF FindFails, Trouble
<1> QED
  BY <1>5, <1>6, <1>7

\* The pet that is made is the one that was going to be made; an answer that is
\* lost leaves it to nobody.
LEMMA DebtAdd ==
    ASSUME Tidy, TypeOK', Add \/ AddFails
    PROVE  Debt'
<1>1. /\ UNCHANGED <<api, seen>> /\ work.at = "add" /\ work \in Working /\ work.r \in Resource
      /\ work.pet.id = work.was.id /\ work.pet.finalizer
  BY WorkShape DEF Add, AddFails, Tidy, Copy, Working
<1>2. Pending /\ ~New
  BY <1>1 DEF Pending, New
<1>3. /\ NewId \in Id /\ NewId \notin DOMAIN store /\ NewId # work.pet.id /\ ~Pointed(NewId)
      /\ DOMAIN WithPet(NewId) = DOMAIN store \cup {NewId}
      /\ \A k \in DOMAIN store : WithPet(NewId)[k] = store[k]
  BY <1>1, FreshId, WithPetShape DEF Add, AddFails, Tidy, Pointed
<1>4. work'.r = work.r /\ work'.was = work.was /\ work'.at = "patchMeta" /\ work'.pet.finalizer
      /\ work'.pet.spec = work.pet.spec
  <2> DEFINE q == [work.pet EXCEPT !.id = NewId]
  <2>1. \/ work' = [work EXCEPT !.at = "patchMeta", !.pet = q]
        \/ work' = [work EXCEPT !.at = "patchMeta", !.err = TRUE]
    BY DEF Add, AddFails, Fail
  <2>2. q.finalizer /\ q.spec = work.pet.spec
    BY <1>1 DEF Working, PetT
  <2> QED
    <3> HIDE DEF q
    <3> QED
      BY <1>1, <2>1, <2>2 DEF Working
<1>5. \A s \in Resource : Endangers(s)' => Endangers(s)
  BY <1>1, <1>2, <1>4 DEF Endangers, Deleting
<1>6. NewAtRisk' => NewAtRisk
  BY <1>1, <1>2, <1>4 DEF NewAtRisk
<1>7. CASE Add
  <2>1. New' /\ work'.pet.id = NewId /\ store' = WithPet(NewId) /\ trouble' = trouble
    BY <1>1, <1>3, <1>4, <1>7 DEF Add, New, Working, PetT
  <2>2. AtRisk' \subseteq AtRisk
    BY <1>1, <1>2, <1>3, <1>5, <2>1 DEF AtRisk, Risky, Pointed, Loses
  <2> QED
    BY <1>6, <2>1, <2>2, DebtNext DEF Tidy
<1>8. CASE AddFails
  <2>1. ~New' /\ trouble' = trouble + 1
    BY <1>1, <1>8 DEF AddFails, Fail, Trouble, New, Working
  <2>2. AtRisk' \subseteq AtRisk \cup {NewId}
    BY <1>1, <1>2, <1>3, <1>5, <1>8, <2>1 DEF AddFails, AtRisk, Risky, Pointed, Loses
  <2> QED
    BY <1>6, <2>1, <2>2, DebtNext DEF Tidy
<1> QED
  BY <1>7, <1>8

\* An update writes the name that the pet has.
LEMMA DebtUpdate ==
    ASSUME Tidy, TypeOK', Update \/ UpdateRefused \/ UpdateFails
    PROVE  Debt'
<1>1. /\ UNCHANGED <<api, seen>> /\ work.at = "update" /\ work \in Working
      /\ work.pet.id = work.was.id /\ work.pet.finalizer
      /\ work.pet.id \in DOMAIN store => store[work.pet.id].spec.key = work.pet.spec.key
      /\ AsStored(work.pet.spec).key = work.pet.spec.key
  BY WorkShape DEF Update, UpdateRefused, UpdateFails, Tidy, Copy, Found, Unpadded, Padded, AsStored, Working
<1>2. work'.at = "patchMeta" /\ work'.was = work.was /\ work'.pet = work.pet
  BY <1>1 DEF Update, UpdateRefused, UpdateFails, Fail, Goto, Working
<1>3. ~New /\ ~New' /\ ~NewAtRisk' /\ \A s \in Resource : ~Endangers(s)'
  BY <1>1, <1>2 DEF New, NewAtRisk, Pending, Deleting, Endangers
<1>4. DOMAIN store' = DOMAIN store /\ \A k \in DOMAIN store : store'[k].spec.key = store[k].spec.key
  <2>1. CASE store' = store
    BY <2>1
  <2>2. CASE work.pet.id \in DOMAIN store /\ store' = WithPet(work.pet.id)
    <3>1. work.pet.id \in Id
      BY <2>2, StoreShape DEF Tidy
    <3>2. /\ DOMAIN store' = DOMAIN store \cup {work.pet.id} /\ store'[work.pet.id].spec = AsStored(work.pet.spec)
          /\ \A k \in DOMAIN store : k # work.pet.id => store'[k] = store[k]
      BY <1>1, <2>2, <3>1, WithPetShape DEF Tidy
    <3> QED
      BY <1>1, <2>2, <3>2
  <2> QED
    BY <2>1, <2>2 DEF Update, UpdateRefused, UpdateFails
<1>5. AtRisk' \subseteq AtRisk
  BY <1>1, <1>3, <1>4 DEF AtRisk, Risky, Pointed, Loses
<1> QED
  BY <1>3, <1>5, DebtNext DEF Tidy, Update, UpdateRefused, UpdateFails, Trouble

\* A pet that is deleted is at no risk.
LEMMA DebtDeleteInStore ==
    ASSUME Tidy, TypeOK', DeleteInStore \/ DeleteFails
    PROVE  Debt'
<1>1. /\ UNCHANGED <<api, seen>> /\ work.at = "delete" /\ work \in Working
      /\ work.pet.id = work.was.id
  BY WorkShape DEF DeleteInStore, DeleteFails, Tidy, Copy, Working
<1>2. work'.at = "patchMeta" /\ work'.was = work.was /\ work'.r = work.r /\ work'.pet.id = work.pet.id
  <2> DEFINE q == [work.pet EXCEPT !.finalizer = FALSE]
  <2>1. \/ work' = [work EXCEPT !.at = "patchMeta", !.pet = q]
        \/ work' = [work EXCEPT !.at = "patchMeta", !.err = TRUE]
    BY DEF DeleteInStore, DeleteFails, Fail
  <2>2. q.id = work.pet.id
    BY <1>1 DEF Working, PetT
  <2> QED
    <3> HIDE DEF q
    <3> QED
      BY <1>1, <2>1, <2>2 DEF Working
<1>3. ~New /\ ~New' /\ ~Pending' /\ ~NewAtRisk'
  BY <1>1, <1>2 DEF New, NewAtRisk, Pending
<1>4. \A s \in Resource : Endangers(s)' => Endangers(s)
  BY <1>1, <1>2, <1>3 DEF Endangers, Deleting, Stale
<1>5. DOMAIN store' \subseteq DOMAIN store /\ \A k \in DOMAIN store' : store'[k] = store[k]
  BY WithoutPetShape DEF DeleteInStore, DeleteFails, Tidy
<1>6. AtRisk' \subseteq AtRisk
  BY <1>1, <1>3, <1>4, <1>5 DEF AtRisk, Risky, Pointed, Loses
<1> QED
  BY <1>3, <1>6, DebtNext DEF Tidy, DeleteInStore, DeleteFails, Trouble

\* The finalizer that is removed protected a pet that is deleted, unless the
\* resource had another one by then.
LEMMA DebtPatchMeta ==
    ASSUME Tidy, TypeOK', PatchMeta \/ PatchMetaFails
    PROVE  Debt'
<1> DEFINE r == work.r
<1>1. /\ UNCHANGED <<seen, store>> /\ work.at = "patchMeta" /\ work \in Working /\ r \in Resource
      /\ ~work.pet.finalizer => work.pet.id = work.was.id /\ work.was.id \notin DOMAIN store
      /\ api \in [Resource -> PetT]
  BY WorkShape DEF PatchMeta, PatchMetaFails, Tidy, TypeOK, Copy, Working
<1>2. work'.at = "patchStatus" /\ work'.was = work.was /\ work'.r = r /\ work'.pet = work.pet
  BY <1>1 DEF PatchMeta, PatchMetaFails, Goto, Working
<1>3. /\ \A s \in Resource : /\ api'[s].id = api[s].id /\ api'[s].spec = api[s].spec
                             /\ api'[s].there => api[s].there
                             /\ s # r => api'[s] = api[s]
      /\ ~api'[r].there /\ api[r].there => ~work.pet.finalizer
  <2>1. CASE api' = api
    BY <2>1
  <2>2. CASE /\ api[r].there
             /\ api' = [api EXCEPT ![r].finalizer = work.pet.finalizer,
                                   ![r].there = work.pet.finalizer \/ ~api[r].deleting]
    BY <1>1, <2>2 DEF PetT, Working
  <2> QED
    BY <2>1, <2>2 DEF PatchMeta, PatchMetaFails
<1>4. (New' <=> New) /\ (Pending' <=> Pending) /\ \A s \in Resource : Endangers(s)' => Endangers(s)
  BY <1>1, <1>2 DEF New, Pending, Endangers, Deleting
<1>5. ASSUME NEW id \in DOMAIN store, Pointed(id), ~Pointed(id)' PROVE Loses(r, id)
  <2>1. api[r].there /\ api[r].id = id /\ ~api'[r].there
    <3>1. PICK s \in Resource : api[s].there /\ api[s].id = id
      BY <1>5 DEF Pointed
    <3>2. ~api'[s].there
      BY <1>3, <1>5, <3>1 DEF Pointed
    <3> QED
      BY <1>3, <3>1, <3>2
  <2>2. Stale /\ Deleting
    BY <1>1, <1>3, <2>1 DEF Stale, Deleting
  <2> QED
    BY <1>1, <2>1, <2>2 DEF Loses, Endangers
<1>6. AtRisk' \subseteq AtRisk
  <2>1. ASSUME NEW id, NEW s \in Resource, Loses(s, id)' PROVE Loses(s, id)
    <3>1. api[s].there /\ api[s].id = id /\ api'[s].spec = api[s].spec
      BY <1>3, <2>1 DEF Loses
    <3> QED
      BY <1>1, <1>4, <2>1, <3>1 DEF Loses
  <2> QED
    BY <1>1, <1>2, <1>4, <1>5, <2>1 DEF AtRisk, Risky
<1>7. NewAtRisk' => NewAtRisk
  <2>1. New => work.pet.finalizer
    BY <1>1 DEF New
  <2>2. Pending <=> New
    BY <1>1 DEF Pending
  <2> QED
    <3>1. Pending => (~api'[r].there => ~api[r].there)
      BY <1>3, <2>1, <2>2
    <3>2. api'[r].spec = api[r].spec
      BY <1>1, <1>3
    <3> QED
      BY <1>1, <1>2, <1>4, <3>1, <3>2 DEF NewAtRisk
<1> QED
  BY <1>6, <1>7, DebtNext DEF Tidy, PatchMeta, PatchMetaFails, Trouble

\* The status gives the resource the id of the pet that was made, in place of
\* one that was endangered.  Without it the pet is nobody's.
LEMMA DebtPatchStatus ==
    ASSUME Tidy, TypeOK', PatchStatus \/ PatchStatusFails
    PROVE  Debt'
<1> DEFINE r == work.r  n == work.pet.id
<1>1. /\ UNCHANGED <<seen, store>> /\ work.at = "patchStatus" /\ work \in Working /\ r \in Resource
      /\ New /\ n \in DOMAIN store => store[n].spec.key = work.pet.spec.key
      /\ api \in [Resource -> PetT]
  BY WorkShape DEF PatchStatus, PatchStatusFails, Tidy, TypeOK, Found, Working
<1>2. work'.at = "idle"
  BY DEF PatchStatus, PatchStatusFails, Done
<1>3. ~New' /\ ~NewAtRisk' /\ \A s \in Resource : ~Endangers(s)'
  BY <1>2 DEF New, NewAtRisk, Pending, Endangers
<1>4. CASE ~New
  <2>1. UNCHANGED <<api, trouble>>
    BY <1>1, <1>4 DEF PatchStatus, PatchStatusFails, New
  <2>2. AtRisk' \subseteq AtRisk
    BY <1>1, <1>3, <1>4, <2>1, RiskOfWork
  <2> QED
    BY <1>3, <2>1, <2>2, DebtNext DEF Tidy
<1>5. CASE New /\ (~api[r].there \/ PatchStatusFails)
  <2>1. api' = api
    BY <1>5 DEF PatchStatus, PatchStatusFails, New
  <2>2. AtRisk' \subseteq AtRisk \cup {n}
    BY <1>1, <1>3, <1>5, <2>1 DEF AtRisk, Risky, Pointed, Loses
  <2>3. trouble' = trouble + 1 \/ (~api[r].there /\ trouble' = trouble)
    BY <1>5 DEF PatchStatus, PatchStatusFails, Trouble
  <2>4. ~api[r].there => NewAtRisk
    BY <1>5 DEF NewAtRisk, Pending
  <2> QED
    BY <1>3, <2>2, <2>3, <2>4, DebtNext DEF Tidy
<1>6. CASE New /\ api[r].there /\ api' = [api EXCEPT ![r].id = n]
  <2>1. /\ api'[r].id = n /\ api'[r].there = api[r].there /\ api'[r].spec = api[r].spec
        /\ \A s \in Resource : s # r => api'[s] = api[s]
    BY <1>1, <1>6 DEF PetT
  <2>2. api[r].id \in DOMAIN store => api[r].id \in AtRisk
    BY <1>1, <1>6 DEF AtRisk, Risky, Loses, Endangers, Pending
  <2>3. \A id : id # n /\ id # api[r].id =>
            (Pointed(id)' <=> Pointed(id)) /\ \A s \in Resource : Loses(s, id)' => Loses(s, id)
    BY <1>1, <1>3, <2>1 DEF Pointed, Loses
  <2>4. AtRisk' \subseteq AtRisk \cup {n}
    BY <1>1, <2>2, <2>3 DEF AtRisk, Risky
  <2>5. CASE NewAtRisk
    BY <1>3, <1>6, <2>4, <2>5, DebtNext DEF Tidy, PatchStatus, PatchStatusFails, Trouble
  <2>6. CASE ~NewAtRisk
    <3>1. work.pet.spec.key = api[r].spec.key /\ seen[r].spec.key = api[r].spec.key
      BY <1>6, <2>6 DEF NewAtRisk, Pending
    <3>2. \A id : id = n => Pointed(id)'
      BY <1>1, <1>6, <2>1 DEF Pointed
    <3>3. ASSUME NEW id \in DOMAIN store, id = n, NEW s \in Resource, Loses(s, id)' PROVE Loses(s, id)
      <4>1. s # r
        BY <1>1, <1>3, <1>6, <2>1, <3>1, <3>3 DEF Loses
      <4> QED
        BY <1>1, <1>3, <2>1, <3>3, <4>1 DEF Loses
    <3>4. AtRisk' \subseteq AtRisk
      BY <1>1, <1>3, <2>4, <3>2, <3>3 DEF AtRisk, Risky
    <3> QED
      BY <1>3, <3>4, DebtNext DEF Tidy, PatchStatus, PatchStatusFails, Trouble
  <2> QED
    BY <2>5, <2>6
<1> QED
  BY <1>4, <1>5, <1>6 DEF PatchStatus, PatchStatusFails, New

\* A restart of the operator forgets one pet at most; one of the store leaves none.
LEMMA DebtRestart ==
    ASSUME Tidy, TypeOK', Restart \/ StoreRestart
    PROVE  Debt'
<1>1. UNCHANGED api /\ trouble' = trouble + 1
  BY DEF Restart, StoreRestart, Trouble
<1>2. CASE Restart
  <2>1. ~New' /\ ~NewAtRisk' /\ \A s \in Resource : ~Endangers(s)'
    BY <1>2 DEF Restart, New, NewAtRisk, Pending, Endangers
  <2>2. store' = store /\ seen' = api
    BY <1>2 DEF Restart
  <2>3. AtRisk' \subseteq AtRisk \cup {work.pet.id}
    BY <1>1, <2>1, <2>2 DEF AtRisk, Risky, Pointed, Loses
  <2> QED
    BY <1>1, <2>1, <2>3, DebtNext DEF Tidy
<1>3. CASE StoreRestart
  <2>1. AtRisk' = {}
    BY <1>3 DEF StoreRestart, AtRisk
  <2> QED
    BY <1>1, <2>1, DebtNext DEF Tidy
<1> QED
  BY <1>2, <1>3

-----------------------------------------------------------------------------
(* The theorems.                                                           *)

LEMMA DebtInit == Init => Debt
<1> SUFFICES ASSUME Init PROVE Debt
  OBVIOUS
<1>1. AtRisk = {} /\ ~NewAtRisk
  BY DEF Init, AtRisk, NewAtRisk, Pending, New
<1>2. Cardinality({}) = 0 /\ trouble = 0
  BY FS_EmptySet DEF Init
<1> QED
  BY <1>1, <1>2 DEF Debt

LEMMA IInvInit == Init => IInv
<1>1. Init => Copy
  BY DEF Init, Copy
<1>2. Init /\ ~padded => Unpadded
  BY DEF Init, Unpadded
<1>3. Init => Found
  BY DEF Init, Found, New
<1> QED
  BY <1>1, <1>2, <1>3, TypeInit, DebtInit DEF IInv, Tidy

LEMMA IInvNext == IInv /\ [Next]_vars => IInv'
<1> SUFFICES ASSUME IInv, [Next]_vars PROVE IInv'
  OBVIOUS
<1>1. TypeOK' /\ Copy'
  BY TypeNext, CopyNext DEF IInv
<1>2. SUFFICES ASSUME ~padded' PROVE Unpadded' /\ Found' /\ Debt'
  BY <1>1 DEF IInv, Tidy
<1>3. ~padded
  BY <1>1, <1>2, PaddedStays DEF IInv
<1>4. Tidy
  BY <1>3 DEF IInv
<1>5. Unpadded' /\ Found'
  BY <1>2, <1>4, UnpaddedNext, FoundNext DEF Tidy
<1> SUFFICES Debt'
  BY <1>5
<1>6. CASE Resync \/ UNCHANGED vars
  <2>1. UNCHANGED <<api, seen, work, store, trouble>>
    BY <1>6 DEF Resync, vars
  <2>2. AtRisk' = AtRisk /\ NewAtRisk' = NewAtRisk
    BY <2>1 DEF AtRisk, Risky, Pointed, Loses, NewAtRisk, Endangers, Pending, Deleting, New, Stale, InStore
  <2> QED
    BY <1>4, <2>1, <2>2 DEF Tidy, Debt
<1> QED
  BY <1>1, <1>4, <1>6, DebtEditDelete, DebtObserve, DebtGet, DebtFind, DebtAdd, DebtUpdate, DebtDeleteInStore,
     DebtPatchMeta, DebtPatchStatus, DebtRestart DEF Next, Reconcile, Faults

\* The types of the controller, its queue, the API server and the store (the
\* Reconcile of pet_controller.go and what it patches).
THEOREM TypeCorrect == Spec => []TypeOK
<1>1. Init => TypeOK
  BY TypeInit
<1>2. TypeOK /\ [Next]_vars => TypeOK'
  BY TypeNext
<1> QED
  BY <1>1, <1>2, PTL DEF Spec

\* As long as no resource has had a name with blanks around it, however the
\* edits, deletions, restarts, stale reads and failed calls follow each other,
\* the pets that no resource points to are no more than the faults, stale reads
\* and new names so far (Reconcile, findPetInStore, ReconcileDelete).
THEOREM OrphanPerTroubleAlways == Spec => []OrphanPerTrouble
<1>1. IInv => OrphanPerTrouble
  <2> SUFFICES ASSUME IInv, ~padded PROVE Cardinality(Orphans) <= trouble
    BY DEF OrphanPerTrouble
  <2> USE DEF Tidy
  <2>1. Orphans \subseteq AtRisk
    BY DEF Orphans, AtRisk, Risky, Pointed, New, Held
  <2>2. AtRisk \subseteq Id
    BY DEF AtRisk, IInv, TypeOK
  <2>3. IsFiniteSet(AtRisk)
    BY <2>2, BoundsAssumption, FS_Subset
  <2>4. Cardinality(Orphans) <= Cardinality(AtRisk) /\ IsFiniteSet(Orphans)
    BY <2>1, <2>3, FS_Subset
  <2>5. Cardinality(Orphans) \in Nat /\ Cardinality(AtRisk) \in Nat /\ trouble \in Nat
    BY <2>3, <2>4, FS_CardinalityType, BoundsAssumption DEF IInv, TypeOK
  <2> QED
    BY <2>4, <2>5 DEF IInv, Debt
<1> QED
  BY <1>1, IInvInit, IInvNext, PTL DEF Spec

-----------------------------------------------------------------------------
(* The refinement.  The calls to the store name a pet by its id alone, so   *)
(* what has to hold is that an id which a resource, the cache or the        *)
(* Reconcile under way has is the id of no other resource's pet, and that   *)
(* a copy which says that its resource is being deleted is right.           *)

Owned ==
    /\ \A r \in Resource :
           /\ api[r].id \in DOMAIN store => store[api[r].id].for = r
           /\ seen[r].id \in DOMAIN store => store[seen[r].id].for = r
    /\ work.at # "idle" /\ work.pet.id \in DOMAIN store => store[work.pet.id].for = work.r

Unwanted ==
    /\ \A r \in Resource : seen[r].deleting => r \notin Wanted
    /\ work.at = "delete" => work.r \notin Wanted

KInv == TypeOK /\ Copy /\ Owned /\ Unwanted

\* A step does not bring a resource back, and only its user gives it up.
LEMMA WantedNext ==
    ASSUME TypeOK, [Next]_vars
    PROVE  \/ Wanted' = Wanted
           \/ \E r \in Wanted : Delete(r) /\ Wanted' = Wanted \ {r}
<1>1. CASE UNCHANGED api
  BY <1>1 DEF Wanted
<1>2. ASSUME NEW r \in Resource, Edit(r) PROVE Wanted' = Wanted
  <2>1. \A s \in Resource : api'[s].there = api[s].there /\ api'[s].deleting = api[s].deleting
    BY <1>2 DEF Edit, TypeOK, PetT
  <2> QED
    BY <2>1 DEF Wanted
<1>3. ASSUME NEW r \in Resource, Delete(r) PROVE r \in Wanted /\ Wanted' = Wanted \ {r}
  <2>1. /\ \A s \in Resource \ {r} : api'[s] = api[s]
        /\ api[r].there /\ ~api[r].deleting /\ (api'[r].deleting \/ ~api'[r].there)
    BY <1>3 DEF Delete, TypeOK, PetT
  <2> QED
    BY <2>1 DEF Wanted
<1>4. CASE PatchMeta \/ PatchStatus
  <2>1. work.r \in Resource /\ work \in Working
    BY <1>4, WorkShape DEF PatchMeta, PatchStatus, Working
  <2>2. \A s \in Resource : (api'[s].there /\ ~api'[s].deleting) <=> (api[s].there /\ ~api[s].deleting)
    <3>1. CASE api' = api
      BY <3>1
    <3>2. CASE api[work.r].there /\ api' = [api EXCEPT ![work.r].id = work.pet.id]
      BY <2>1, <3>2 DEF TypeOK, PetT
    <3>3. CASE /\ api[work.r].there
               /\ api' = [api EXCEPT ![work.r].finalizer = work.pet.finalizer,
                                     ![work.r].there = work.pet.finalizer \/ ~api[work.r].deleting]
      <4>1. api \in [Resource -> PetT] /\ work.pet.finalizer \in BOOLEAN
        BY <2>1 DEF TypeOK, Working, PetT
      <4>2. /\ \A s \in Resource \ {work.r} : api'[s] = api[s]
            /\ api'[work.r].deleting = api[work.r].deleting
            /\ api'[work.r].there = (work.pet.finalizer \/ ~api[work.r].deleting)
        BY <2>1, <3>3, <4>1 DEF PetT
      <4> QED
        BY <3>3, <4>2
    <3> QED
      BY <1>4, <3>1, <3>2, <3>3 DEF PatchMeta, PatchStatus
  <2> QED
    BY <2>2 DEF Wanted
<1> QED
  BY <1>1, <1>2, <1>3, <1>4 DEF Next, Reconcile, Faults, vars, Find, FindFails, Add, AddFails, Update,
     UpdateRefused, UpdateFails, DeleteInStore, DeleteFails, PatchMetaFails, PatchStatusFails, Restart, StoreRestart,
     Resync, Observe, Get

\* A deleted resource is never wanted again, so a copy that says it is being
\* deleted stays right.
LEMMA UnwantedNext == TypeOK /\ Unwanted /\ [Next]_vars => Unwanted'
<1> SUFFICES ASSUME TypeOK, Unwanted, [Next]_vars PROVE Unwanted'
  OBVIOUS
<1>1. Wanted' \subseteq Wanted
  BY WantedNext
<1>2. \A r \in Resource : seen'[r].deleting => r \notin Wanted'
  <2>1. CASE seen' = seen
    BY <1>1, <2>1 DEF Unwanted
  <2>2. CASE Restart
    BY <2>2 DEF Restart, Wanted
  <2>3. ASSUME NEW r \in Resource, Observe(r) PROVE \A s \in Resource : seen'[s].deleting => s \notin Wanted'
    <3>1. \A s \in Resource : seen'[s] = seen[s] \/ (seen'[s] = api[s] /\ api' = api)
      BY <2>3 DEF Observe, TypeOK
    <3> QED
      BY <1>1, <3>1 DEF Unwanted, Wanted
  <2> QED
    BY <2>1, <2>2, <2>3 DEF Next, Reconcile, Faults, vars, Find, FindFails, Add, AddFails, Update,
       UpdateRefused, UpdateFails, DeleteInStore, DeleteFails, PatchMeta, PatchMetaFails, PatchStatus,
       PatchStatusFails, StoreRestart, Resync, Edit, Delete, Get
<1>3. work'.at = "delete" => work'.r \notin Wanted'
  <2>1. CASE work' = work
    BY <1>1, <2>1 DEF Unwanted
  <2>2. ASSUME NEW r \in Resource, Get(r) PROVE work'.at = "delete" => work'.r \notin Wanted'
    BY <1>1, <2>2 DEF Get, Unwanted
  <2>3. CASE Restart \/ PatchStatus \/ PatchStatusFails
    BY <2>3 DEF Restart, PatchStatus, PatchStatusFails, Done
  <2>4. CASE Find \/ FindFails \/ Add \/ AddFails \/ Update \/ UpdateRefused \/ UpdateFails \/ DeleteInStore \/ DeleteFails
             \/ PatchMeta \/ PatchMetaFails
    <3>1. work.at # "idle"
      BY <2>4 DEF Find, FindFails, Add, AddFails, Update, UpdateRefused, UpdateFails, DeleteInStore, DeleteFails,
         PatchMeta, PatchMetaFails
    <3>2. work'.at # "delete"
      BY <2>4, <3>1, WorkShape DEF Find, FindFails, Add, AddFails, Update, UpdateRefused, UpdateFails, DeleteInStore,
         DeleteFails, PatchMeta, PatchMetaFails, Goto, Fail, Working
    <3> QED
      BY <3>2
  <2> QED
    BY <2>1, <2>2, <2>3, <2>4 DEF Next, Reconcile, Faults, vars, StoreRestart, Resync, Edit, Delete, Observe
<1> QED
  BY <1>2, <1>3 DEF Unwanted

\* Ids move between the API, the cache and the Reconcile within one resource, and
\* the pets that are there stay whose they are; a new pet has an id that is nowhere.
LEMMA OwnedOf ==
    ASSUME TypeOK, Owned,
           \A k \in DOMAIN store' \cap DOMAIN store : store'[k].for = store[k].for,
           \A r \in Resource :
               /\ \/ api'[r].id = api[r].id
                  \/ work.at # "idle" /\ work.r = r /\ api'[r].id = work.pet.id
               /\ seen'[r].id \in {api[r].id, seen[r].id},
           \A k \in DOMAIN store' \ DOMAIN store :
               /\ work.at # "idle" => work.pet.id # k
               /\ \A r \in Resource : api[r].id # k /\ seen[r].id # k,
           work'.at # "idle" /\ work'.pet.id \in DOMAIN store' => store'[work'.pet.id].for = work'.r
    PROVE  Owned'
<1>1. ASSUME NEW r \in Resource, NEW id \in {api[r].id, seen[r].id}, id \in DOMAIN store'
      PROVE  store'[id].for = r
  <2>1. id \in DOMAIN store
    BY <1>1
  <2>2. store[id].for = r
    BY <1>1, <2>1 DEF Owned
  <2> QED
    BY <1>1, <2>1, <2>2
<1>2. ASSUME NEW r \in Resource, work.at # "idle", work.r = r, work.pet.id \in DOMAIN store'
      PROVE  store'[work.pet.id].for = r
  BY <1>2 DEF Owned
<1>3. ASSUME NEW r \in Resource
      PROVE  /\ api'[r].id \in DOMAIN store' => store'[api'[r].id].for = r
             /\ seen'[r].id \in DOMAIN store' => store'[seen'[r].id].for = r
  BY <1>1, <1>2
<1> QED
  BY <1>3 DEF Owned

\* A pet that is written is for the resource of the Reconcile.
LEMMA WithPetFor ==
    ASSUME NEW id
    PROVE  WithPet(id)[id].for = work.r
  BY DEF WithPet

\* What the actions on the store do to it: a pet is added for the resource, written
\* for the same resource, or removed.
LEMMA StoreNext ==
    ASSUME TypeOK, Copy, Owned, [Next]_vars
    PROVE  \/ UNCHANGED store
           \/ (Add \/ AddFails) /\ store' = WithPet(NewId)
           \/ /\ Update \/ UpdateFails
              /\ work.pet.id \in DOMAIN store
              /\ store' = [store EXCEPT ![work.pet.id].spec = AsStored(work.pet.spec)]
           \/ (DeleteInStore \/ DeleteFails) /\ store' = WithoutPet(work.pet.id)
           \/ StoreRestart
<1>1. CASE Update \/ UpdateFails
  <2>1. work \in Working
    BY <1>1, WorkShape DEF Update, UpdateFails
  <2>2. ASSUME work.pet.id \in DOMAIN store
        PROVE  WithPet(work.pet.id) = [store EXCEPT ![work.pet.id].spec = AsStored(work.pet.spec)]
    <3>1. store[work.pet.id] \in StoredT /\ store[work.pet.id].for = work.r
      BY <1>1, <2>2, StoreShape DEF Owned, Update, UpdateFails
    <3>2. [store[work.pet.id] EXCEPT !.spec = AsStored(work.pet.spec)] = [spec |-> AsStored(work.pet.spec), for |-> work.r]
      BY <3>1 DEF StoredT
    <3>3. [store EXCEPT ![work.pet.id].spec = AsStored(work.pet.spec)]
            = [k \in DOMAIN store |-> IF k = work.pet.id THEN [store[work.pet.id] EXCEPT !.spec = AsStored(work.pet.spec)]
                                      ELSE store[k]]
      OBVIOUS
    <3>4. DOMAIN store \cup {work.pet.id} = DOMAIN store
      BY <2>2
    <3> QED
      BY <3>2, <3>3, <3>4 DEF WithPet
  <2> QED
    BY <1>1, <2>2 DEF Update, UpdateFails
<1> QED
  BY <1>1 DEF Next, Reconcile, Faults, vars, Find, FindFails, Add, AddFails, UpdateRefused, DeleteInStore,
     DeleteFails, PatchMeta, PatchMetaFails, PatchStatus, PatchStatusFails, Restart, StoreRestart, Resync, Edit,
     Delete, Observe, Get

\* The pet that the Reconcile has is that of its resource.
LEMMA OwnedNext == TypeOK /\ Copy /\ Owned /\ [Next]_vars => Owned'
<1> SUFFICES ASSUME TypeOK, Copy, Owned, [Next]_vars PROVE Owned'
  OBVIOUS
<1>1. \A k \in DOMAIN store' \cap DOMAIN store : store'[k].for = store[k].for
  <2>1. CASE store' = [store EXCEPT ![work.pet.id].spec = AsStored(work.pet.spec)]
    BY <2>1, StoreShape DEF StoredT
  <2>2. CASE (Add \/ AddFails) /\ store' = WithPet(NewId)
    BY <2>2, FreshId, WithPetShape DEF Add, AddFails
  <2>3. CASE store' = WithoutPet(work.pet.id)
    BY <2>3, WithoutPetShape
  <2>4. CASE StoreRestart
    BY <2>4 DEF StoreRestart
  <2> QED
    BY <2>1, <2>2, <2>3, <2>4, StoreNext
<1>2. \A r \in Resource :
          /\ \/ api'[r].id = api[r].id
             \/ work.at # "idle" /\ work.r = r /\ api'[r].id = work.pet.id
          /\ seen'[r].id \in {api[r].id, seen[r].id}
  <2>1. CASE PatchStatus
    <3>1. work.r \in Resource /\ work.at # "idle"
      BY <2>1, WorkShape DEF PatchStatus, Working
    <3>2. CASE api' = [api EXCEPT ![work.r].id = work.pet.id]
      BY <2>1, <3>1, <3>2 DEF PatchStatus, TypeOK, PetT
    <3> QED
      BY <2>1, <3>2 DEF PatchStatus
  <2>2. CASE PatchMeta
    <3>1. work.r \in Resource
      BY <2>2, WorkShape DEF PatchMeta, Working
    <3> QED
      BY <2>2, <3>1 DEF PatchMeta, TypeOK, PetT
  <2>3. ASSUME NEW r \in Resource, Edit(r) \/ Delete(r) \/ Observe(r)
        PROVE  \A q \in Resource : api'[q].id = api[q].id /\ seen'[q].id \in {api[q].id, seen[q].id}
    <3>1. CASE Edit(r)
      BY <3>1 DEF Edit, TypeOK, PetT
    <3>2. CASE Delete(r)
      <4>1. api \in [Resource -> PetT] /\ seen' = seen
        BY <3>2 DEF Delete, TypeOK
      <4>2. \/ api' = [api EXCEPT ![r].deleting = TRUE]
            \/ api' = [api EXCEPT ![r].there = FALSE]
        BY <3>2 DEF Delete
      <4> QED
        BY <4>1, <4>2 DEF PetT
    <3>3. CASE Observe(r)
      BY <3>3 DEF Observe, TypeOK, PetT
    <3> QED
      BY <2>3, <3>1, <3>2, <3>3
  <2>4. CASE Restart
    BY <2>4 DEF Restart
  <2>5. CASE UNCHANGED <<api, seen>>
    BY <2>5
  <2> QED
    BY <2>1, <2>2, <2>3, <2>4, <2>5 DEF Next, Reconcile, Faults, vars, Find, FindFails, Add, AddFails,
       Update, UpdateRefused, UpdateFails, DeleteInStore, DeleteFails, PatchMetaFails, PatchStatusFails, StoreRestart,
       Resync, Get
<1>3. \A k \in DOMAIN store' \ DOMAIN store :
          /\ work.at # "idle" => work.pet.id # k
          /\ \A r \in Resource : api[r].id # k /\ seen[r].id # k
  <2>1. CASE (Add \/ AddFails) /\ store' = WithPet(NewId)
    BY <2>1, FreshId, WithPetShape DEF Add, AddFails
  <2>2. CASE store' = [store EXCEPT ![work.pet.id].spec = AsStored(work.pet.spec)]
    BY <2>2
  <2>3. CASE store' = WithoutPet(work.pet.id)
    BY <2>3, WithoutPetShape
  <2>4. CASE StoreRestart
    BY <2>4 DEF StoreRestart
  <2> QED
    BY <2>1, <2>2, <2>3, <2>4, StoreNext
<1>4. work'.at # "idle" /\ work'.pet.id \in DOMAIN store' => store'[work'.pet.id].for = work'.r
  <2>1. ASSUME NEW r \in Resource, Get(r)
        PROVE  work'.at # "idle" => work'.r = r /\ work'.pet.id = seen[r].id
    BY <2>1 DEF Get, TypeOK, PetT
  <2>2. CASE Add
    <3>1. work \in Working /\ NewId \in Id /\ work.at # "idle"
      BY <2>2, WorkShape, FreshId DEF Add
    <3>2. work'.pet.id = NewId /\ work'.r = work.r
      BY <2>2, <3>1 DEF Add, Working, PetT
    <3> QED
      BY <2>2, <3>1, <3>2, WithPetFor DEF Add
  <2>3. CASE work'.at = "idle"
    BY <2>3
  <2>4. CASE work'.r = work.r /\ work'.pet.id = work.pet.id /\ work.at # "idle"
    BY <1>1, <1>3, <2>4 DEF Owned
  <2>5. CASE work' = work
    BY <1>1, <1>3, <2>5 DEF Owned
  <2>6. CASE Find \/ FindFails \/ AddFails \/ Update \/ UpdateRefused \/ UpdateFails \/ DeleteFails \/ PatchMeta \/ PatchMetaFails
    BY <2>4, <2>6, WorkShape DEF Find, FindFails, AddFails, Update, UpdateRefused, UpdateFails, DeleteFails, PatchMeta,
       PatchMetaFails, Goto, Fail, Working
  <2>7. CASE DeleteInStore
    <3>1. work.at # "idle" /\ work \in Working
      BY <2>7, WorkShape DEF DeleteInStore
    <3>2. \A q \in PetT : [q EXCEPT !.finalizer = FALSE].id = q.id
      BY DEF PetT
    <3>3. work' = [work EXCEPT !.at = "patchMeta", !.pet = [work.pet EXCEPT !.finalizer = FALSE]]
      BY <2>7 DEF DeleteInStore
    <3>4. work'.r = work.r /\ work'.pet = [work.pet EXCEPT !.finalizer = FALSE] /\ work.pet \in PetT
      BY <3>1, <3>3, Zenon DEF Working
    <3> QED
      BY <2>4, <3>1, <3>2, <3>4
  <2>8. CASE \E r \in Resource : Get(r)
    BY <2>1, <2>8 DEF Get, Owned
  <2> QED
    BY <2>2, <2>3, <2>5, <2>6, <2>7, <2>8 DEF Next, Reconcile, Faults, vars, PatchStatus, PatchStatusFails,
       Done, Restart, StoreRestart, Resync, Edit, Delete, Observe
<1> QED
  BY <1>1, <1>2, <1>3, <1>4, OwnedOf

LEMMA KInvInvariant == Spec => []KInv
<1>1. Init => KInv
  BY TypeInit DEF Init, KInv, Copy, Owned, Unwanted
<1>2. KInv /\ [Next]_vars => KInv'
  BY TypeNext, CopyNext, OwnedNext, UnwantedNext DEF KInv
<1> QED
  BY <1>1, <1>2, PTL DEF Spec

\* The controller implements PetKeeper: whatever fails, restarts or is read stale,
\* it changes and deletes in the store only pets of the resource it reconciles, and
\* deletes one only when its resource has been deleted (Reconcile, createPetInStore,
\* updatePetInStore, ReconcileDelete).
THEOREM ImplementsKeeper == Spec => KeeperSpec
<1>1. Init => Keeper!Init
  BY DEF Init, Keeper!Init, Wanted
<1>2. KInv /\ [Next]_vars => [Keeper!Next]_(Keeper!vars)
  <2> SUFFICES ASSUME KInv, [Next]_vars PROVE [Keeper!Next]_(Keeper!vars)
    OBVIOUS
  <2> USE DEF KInv
  <2>1. CASE \E r \in Resource : Delete(r)
    <3>1. store' = store
      BY <2>1 DEF Delete
    <3>2. \/ Wanted' = Wanted
          \/ \E r \in Wanted : Wanted' = Wanted \ {r}
      BY WantedNext
    <3> QED
      BY <3>1, <3>2 DEF Keeper!Next, Keeper!Unwant, Keeper!vars, Wanted
  <2>2. CASE ~\E r \in Resource : Delete(r)
    <3>1. Wanted' = Wanted
      BY <2>2, WantedNext DEF Wanted
    <3>2. CASE UNCHANGED store
      BY <3>1, <3>2 DEF Keeper!vars
    <3>3. CASE (Add \/ AddFails) /\ store' = WithPet(NewId)
      <4>1. NewId \in Id /\ NewId \notin DOMAIN store
        BY <3>3, FreshId DEF Add, AddFails
      <4>2. work.r \in Resource /\ AsStored(work.pet.spec) \in Specs
        BY <3>3, WorkShape, TrimAssumption DEF Add, AddFails, Working, PetT
      <4>3. Keeper!Make(work.r, NewId)
        BY <3>1, <3>3, <4>1, <4>2 DEF Keeper!Make, WithPet
      <4> QED
        BY <4>1, <4>2, <4>3 DEF Keeper!Next
    <3>4. CASE /\ Update \/ UpdateFails
               /\ work.pet.id \in DOMAIN store
               /\ store' = [store EXCEPT ![work.pet.id].spec = AsStored(work.pet.spec)]
      <4>1. work.pet.id \in Id /\ AsStored(work.pet.spec) \in Specs
        BY <3>4, WorkShape, StoreShape, TrimAssumption DEF Update, UpdateFails, Working, PetT
      <4>2. Keeper!Renew(work.pet.id)
        BY <3>1, <3>4, <4>1 DEF Keeper!Renew
      <4> QED
        BY <4>1, <4>2 DEF Keeper!Next
    <3>5. CASE (DeleteInStore \/ DeleteFails) /\ store' = WithoutPet(work.pet.id)
      <4>1. work.at = "delete" /\ work.r \notin Wanted
        BY <3>5 DEF DeleteInStore, DeleteFails, Unwanted
      <4>2. CASE work.pet.id \in DOMAIN store
        <5>1. store[work.pet.id].for \notin Wanted /\ work.pet.id \in Id
          BY <4>1, <4>2, StoreShape DEF Owned
        <5>2. Keeper!Remove(work.pet.id)
          BY <3>1, <3>5, <4>2, <5>1 DEF Keeper!Remove, WithoutPet
        <5> QED
          BY <5>1, <5>2 DEF Keeper!Next
      <4>3. CASE work.pet.id \notin DOMAIN store
        <5>1. store' = store
          BY <3>5, <4>3, StoreShape DEF WithoutPet
        <5> QED
          BY <3>1, <5>1 DEF Keeper!vars
      <4> QED
        BY <4>2, <4>3
    <3>6. CASE StoreRestart
      BY <3>1, <3>6 DEF StoreRestart, Keeper!LoseAll, Keeper!Next
    <3> QED
      BY <3>2, <3>3, <3>4, <3>5, <3>6, StoreNext
  <2> QED
    BY <2>1, <2>2
<1> QED
  BY <1>1, <1>2, KInvInvariant, PTL DEF Spec, KeeperSpec, Keeper!Spec
=============================================================================
