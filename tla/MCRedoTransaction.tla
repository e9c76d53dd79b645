-------------------------- MODULE MCRedoTransaction --------------------------
(***************************************************************************)
(* RedoTransaction for TLC: two processes, and the kinds of two stories.   *)
(***************************************************************************)
EXTENDS RedoTransaction, TLC

CONSTANTS p1, p2

Symmetry == Permutations({p1, p2})

\* Session traffic on one project journal, which may close.
SessionKinds == TxnKind \ (Finalize \cup {"ReopenProductionProject"})

\* The life of a Production project: open, destroy, and up again.
ProductionKinds == {"OpenProject", "OpenSession", "FinalizeProductionProject",
                    "FinalizeProductionPreEffect", "ReopenProductionProject"}

=============================================================================
