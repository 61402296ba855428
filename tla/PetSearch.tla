----------------------------- MODULE PetSearch -----------------------------
(***************************************************************************)
(* The indexes of the in-memory pet storage and the search over them       *)
(* (petstore/server/storage/mem/mem.go), as functions of a value: how one  *)
(* pet enters and leaves the indexes, and which ids a filter selects.      *)
(***************************************************************************)
EXTENDS Naturals, Sequences, FiniteSets

CONSTANTS
    Id,      \* pet ids
    Name, Type,
    Day      \* birthdays, as day numbers

ASSUME DayAssumption == Day \subseteq Nat

Pet == [name : Name, type : Type, birthday : Day]

\* The key sets of Data.names, Data.types and of the birthday tree's nodes.
\* An empty set stands for a key, or a node, that is not there.
Index == [names : [Name -> SUBSET Id], types : [Type -> SUBSET Id], birthday : [Day -> SUBSET Id]]

EmptyIndex == [names |-> [n \in Name |-> {}], types |-> [t \in Type |-> {}], birthday |-> [d \in Day |-> {}]]

\* populate, for one pet: it enters under its present name, type and
\* birthday; what an older version left under other keys stays.
Enter(x, id, p) ==
    [names    |-> [x.names    EXCEPT ![p.name]     = @ \cup {id}],
     types    |-> [x.types    EXCEPT ![p.type]     = @ \cup {id}],
     birthday |-> [x.birthday EXCEPT ![p.birthday] = @ \cup {id}]]

\* Mistake: a key with two entries is taken for one with a single entry.
DropTwo(S, id) == IF Cardinality(S) <= 2 THEN {} ELSE S \ {id}

\* DeletePets on the entries under one key: a single entry takes the key with
\* it, whichever pet it belongs to.
Drop(S, id) == IF Cardinality(S) = 1 THEN {} ELSE S \ {id}

Leave(x, id, p) ==
    [names    |-> [x.names    EXCEPT ![p.name]     = Drop(@, id)],
     types    |-> [x.types    EXCEPT ![p.type]     = Drop(@, id)],
     birthday |-> [x.birthday EXCEPT ![p.birthday] = Drop(@, id)]]

-----------------------------------------------------------------------------
(* Searches.  A filter has a list of names, a list of types and a range of *)
(* birthdays, each possibly empty.                                         *)

\* validateSearch lets a range through whatever the order of its ends; the
\* tree's DoRange panics on a reversed one, so none is a filter here.
DateRange == {<<>>} \cup {r \in Day \X Day : r[1] <= r[2]}
Filter(n) ==                                   \* n bounds the lengths
    [names : UNION {[1 .. k -> Name] : k \in 0 .. n},
     types : UNION {[1 .. k -> Type] : k \in 0 .. n},
     born  : DateRange]

Distinct(s) == \A j, k \in DOMAIN s : s[j] = s[k] => j = k    \* no value twice

NumFilters(f) == Cardinality({x \in {"names", "types", "born"} : f[x] # <<>>})

\* How often each search returns an id: once for each element of the list
\* under which it is indexed.
ByNames(x, f, id) == Cardinality({k \in DOMAIN f.names : id \in x.names[f.names[k]]})
ByTypes(x, f, id) == Cardinality({k \in DOMAIN f.types : id \in x.types[f.types[k]]})

\* Mistake: the end of the range is inclusive.
ByBirthdaysToEnd(x, f, id) ==
    IF f.born = <<>> THEN 0
    ELSE Cardinality({d \in Day : f.born[1] <= d /\ d <= f.born[2] /\ id \in x.birthday[d]})

\* DoRange: the start is inclusive, the end exclusive.
ByBirthdays(x, f, id) ==
    IF f.born = <<>> THEN 0
    ELSE Cardinality({d \in Day : f.born[1] <= d /\ d < f.born[2] /\ id \in x.birthday[d]})

\* searchPets counts the ids of all the searches; one whose count reaches the
\* number of filters is sent.
Found(x, f) ==
    {id \in Id : ByNames(x, f, id) + ByTypes(x, f, id) + ByBirthdays(x, f, id) >= NumFilters(f)}

-----------------------------------------------------------------------------
(* The reference: what a filter asks for, said of the pet itself.          *)

Matches(p, f) ==
    /\ f.names # <<>> => \E k \in DOMAIN f.names : f.names[k] = p.name
    /\ f.types # <<>> => \E k \in DOMAIN f.types : f.types[k] = p.type
    /\ f.born # <<>>  => f.born[1] <= p.birthday /\ p.birthday < f.born[2]
=============================================================================
