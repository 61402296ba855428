---------------------------- MODULE PetStorage ----------------------------
(***************************************************************************)
(* What the storage of the pet store promises its callers (the interface   *)
(* Data of petstore/server/storage/storage.go): a call that changes pets   *)
(* takes effect at one instant, as a whole, and a search answers from the  *)
(* pets there are at one instant.  The indexes, the loops over a batch and *)
(* the lock are left to the implementation.                                *)
(***************************************************************************)
EXTENDS PetSearch

CONSTANTS
    Client,
    Filters         \* the searches clients ask for

VARIABLES
    pets,     \* the stored pets, a function on their ids
    asked,    \* what each client has asked for
    renewed   \* history: ids whose pet a batch has replaced

vars == <<pets, asked, renewed>>

Nothing == [op |-> "nothing"]
Answer  == [op |-> "answer"]      \* on its way

Init ==
    /\ pets = [id \in {} |-> {}]
    /\ asked = [c \in Client |-> Nothing]
    /\ renewed = {}

Become(c, r) == asked' = [asked EXCEPT ![c] = r]

-----------------------------------------------------------------------------
\* A batch of new pets, or of new versions of pets there are.  Others may
\* change the store before it takes effect, so that the new version of a pet
\* that is deleted meanwhile brings it back.
AskPut(c) ==
    /\ asked[c].op = "nothing"
    /\ \E S \in (SUBSET Id) \ {{}} : \E b \in [S -> Pet] :
         /\ S \cap DOMAIN pets = {} \/ S \subseteq DOMAIN pets
         /\ Become(c, [op |-> "put", batch |-> b])
    /\ UNCHANGED <<pets, renewed>>

Put(c) ==
    /\ asked[c].op = "put"
    /\ LET b == asked[c].batch IN
         /\ pets' = [id \in DOMAIN pets \cup DOMAIN b |-> IF id \in DOMAIN b THEN b[id] ELSE pets[id]]
         /\ renewed' = renewed \cup (DOMAIN b \cap DOMAIN pets)
    /\ Become(c, Answer)

\* "Will not error on IDs not found."
AskDelete(c) ==
    /\ asked[c].op = "nothing"
    /\ \E S \in (SUBSET Id) \ {{}} : Become(c, [op |-> "delete", ids |-> S])
    /\ UNCHANGED <<pets, renewed>>

Delete(c) ==
    /\ asked[c].op = "delete"
    /\ pets' = [id \in DOMAIN pets \ asked[c].ids |-> pets[id]]
    /\ Become(c, Answer)
    /\ UNCHANGED renewed

Return(c) ==
    /\ asked[c].op = "answer"
    /\ Become(c, Nothing)
    /\ UNCHANGED <<pets, renewed>>

-----------------------------------------------------------------------------
\* A search is of the pets there are when it begins.
Search(c) ==
    /\ asked[c].op = "nothing"
    /\ \E f \in Filters :
         Become(c, [op |-> "search", filter |-> f, of |-> pets, sent |-> {}, listens |-> TRUE])
    /\ UNCHANGED <<pets, renewed>>

\* Each id is sent once, and its pet matches, unless it was replaced at some
\* time: an update does not undo what an older version of a pet matched.
Send(c) ==
    /\ asked[c].op = "search"
    /\ \E id \in Id \ asked[c].sent :
         /\ \/ id \in DOMAIN asked[c].of /\ Matches(asked[c].of[id], asked[c].filter)
            \/ id \in renewed /\ NumFilters(asked[c].filter) # 0
         /\ asked' = [asked EXCEPT ![c].sent = @ \cup {id}]
    /\ UNCHANGED <<pets, renewed>>

\* The client is gone, and the search may be cut short.
HangUp(c) ==
    /\ asked[c].op = "search" /\ asked[c].listens
    /\ asked' = [asked EXCEPT ![c].listens = FALSE]
    /\ UNCHANGED <<pets, renewed>>

CutShort(c) ==
    /\ asked[c].op = "search" /\ ~asked[c].listens
    /\ Become(c, Nothing)
    /\ UNCHANGED <<pets, renewed>>

\* A search that ends has sent every pet that matches.
Complete(r) == \A id \in DOMAIN r.of : Matches(r.of[id], r.filter) => id \in r.sent

Finish(c) ==
    /\ asked[c].op = "search" /\ asked[c].listens /\ Complete(asked[c])
    /\ Become(c, Answer)
    /\ UNCHANGED <<pets, renewed>>

-----------------------------------------------------------------------------
Next ==
    \E c \in Client :
        \/ AskPut(c) \/ Put(c) \/ AskDelete(c) \/ Delete(c) \/ Return(c)
        \/ Search(c) \/ Send(c) \/ HangUp(c) \/ CutShort(c) \/ Finish(c)

Spec == Init /\ [][Next]_vars
=============================================================================
