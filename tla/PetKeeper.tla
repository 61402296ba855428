----------------------------- MODULE PetKeeper -----------------------------
(***************************************************************************)
(* What the operator promises for the pets in the store                    *)
(* (controllers/pet_controller.go): a pet belongs to the resource it was   *)
(* made for.  It is never rewritten for another one, nor deleted while its *)
(* own is wanted, although the store knows nothing of resources and two of *)
(* them may ask for the same name and type.                                *)
(***************************************************************************)
CONSTANTS Resource, Specs, Id

VARIABLES
    wanted,    \* the resources that nobody has deleted
    pets       \* the pets in the store, by id, each with its spec and the
               \* resource it is for

vars == <<wanted, pets>>

Init ==
    /\ wanted = Resource
    /\ pets = [id \in {} |-> {}]

\* A user deletes a resource, for good.
Unwant(r) ==
    /\ r \in wanted
    /\ wanted' = wanted \ {r}
    /\ UNCHANGED pets

\* A pet is made under an id of its own.
Make(r, id) ==
    /\ id \notin DOMAIN pets
    /\ \E s \in Specs :
         pets' = [k \in DOMAIN pets \cup {id} |-> IF k = id THEN [spec |-> s, for |-> r] ELSE pets[k]]
    /\ UNCHANGED wanted

\* Its spec is brought up to date.
Renew(id) ==
    /\ id \in DOMAIN pets
    /\ \E s \in Specs : pets' = [pets EXCEPT ![id].spec = s]
    /\ UNCHANGED wanted

\* It goes, when its resource has been deleted.
Remove(id) ==
    /\ id \in DOMAIN pets /\ pets[id].for \notin wanted
    /\ pets' = [k \in DOMAIN pets \ {id} |-> pets[k]]
    /\ UNCHANGED wanted

\* The store restarts.
LoseAll ==
    /\ pets' = [id \in {} |-> {}]
    /\ UNCHANGED wanted

Next ==
    \/ \E r \in Resource : Unwant(r) \/ \E id \in Id : Make(r, id)
    \/ \E id \in Id : Renew(id) \/ Remove(id)
    \/ LoseAll

Spec == Init /\ [][Next]_vars
=============================================================================
