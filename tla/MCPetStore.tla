----------------------------- MODULE MCPetStore -----------------------------
(***************************************************************************)
(* A store of two pets for TLC.                                            *)
(***************************************************************************)
EXTENDS PetStore

CONSTANT SearchNames     \* names that clients search for

\* One search for everything and one for each name.
MCFilters == {[names |-> <<>>, types |-> <<>>, born |-> <<>>]}
               \cup {[names |-> <<n>>, types |-> <<>>, born |-> <<>>] : n \in SearchNames}
=============================================================================
