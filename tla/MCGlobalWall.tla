--------------------------- MODULE MCGlobalWall ---------------------------
(* Instances of GlobalWall for TLC.                                         *)
EXTENDS GlobalWall, FiniteSets, TLC

\* Requests and kernel identities are interchangeable.
Symmetry == Permutations(Request) \cup Permutations(Ident)
===========================================================================
