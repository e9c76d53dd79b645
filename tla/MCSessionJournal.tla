-------------------------- MODULE MCSessionJournal --------------------------
(***************************************************************************)
(* SessionJournal for TLC.                                                 *)
(***************************************************************************)
EXTENDS SessionJournal, TLC

CONSTANTS p1, p2, s1, s2, o1

Symmetry ==
  {f @@ g : f \in Permutations({p1, p2}), g \in Permutations({s1, s2})}
=============================================================================
