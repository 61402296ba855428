------------------------------- MODULE MCP2C -------------------------------
(***************************************************************************)
(* Small pools for TLC.                                                    *)
(***************************************************************************)
EXTENDS P2C, TLC

\* URLs and object names are interchangeable.
Sym == Permutations(URL) \cup Permutations(Instance)
RequestSym == Permutations(Request) \cup Permutations(URL)
=============================================================================
