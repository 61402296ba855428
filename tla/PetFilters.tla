---------------------------- MODULE PetFilters ----------------------------
(***************************************************************************)
(* The search compared with its reference on every store of a few pets     *)
(* built by additions alone, and on every filter of bounded length.        *)
(***************************************************************************)
EXTENDS PetSearch, TLC

CONSTANT MaxLength   \* of the lists of a filter

VARIABLES pets, index, filter

vars == <<pets, index, filter>>

\* Ids, names and types are interchangeable.
Sym == Permutations(Id) \cup Permutations(Name) \cup Permutations(Type)

NoFilter == [names |-> <<>>, types |-> <<>>, born |-> <<>>]

Init == pets = [id \in {} |-> {}] /\ index = EmptyIndex /\ filter = NoFilter

AddPet(id, p) ==
    /\ id \notin DOMAIN pets
    /\ pets' = [k \in DOMAIN pets \cup {id} |-> IF k = id THEN p ELSE pets[k]]
    /\ index' = Enter(index, id, p)
    /\ filter' = NoFilter

Ask ==
    /\ filter' \in {f \in Filter(MaxLength) : Distinct(f.names) /\ Distinct(f.types)}
    /\ UNCHANGED <<pets, index>>

Next == Ask \/ \E id \in Id, p \in Pet : AddPet(id, p)

Spec == Init /\ [][Next]_vars

\* When no list of a filter repeats a value, a search finds exactly the pets
\* that every filter of the request matches, although it only counts how often
\* the indexes name an id (mem.go: "if all matches succeed we stream the entry
\* found").
FoundIsMatching ==
    filter # NoFilter => Found(index, filter) = {id \in DOMAIN pets : Matches(pets[id], filter)}
=============================================================================
