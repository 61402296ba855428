--------------------------- MODULE MCPetOperator ---------------------------
(***************************************************************************)
(* Resources that share their first spec, for TLC: an edit changes the     *)
(* birthday alone, or the name, which may get blanks around it.            *)
(***************************************************************************)
EXTENDS PetOperator

CONSTANTS k, l, kb    \* two names, and the first with blanks around it

MCApplied == [key |-> k, day |-> 1]
MCSpecs == {MCApplied, [key |-> k, day |-> 2], [key |-> l, day |-> 1], [key |-> kb, day |-> 1]}
MCTrim == [n \in {k, l, kb} |-> IF n = kb THEN k ELSE n]
=============================================================================
