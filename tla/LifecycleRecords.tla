-------------------------- MODULE LifecycleRecords --------------------------
(***************************************************************************)
(* The vocabulary shared by the abstract lifecycle specification and by    *)
(* the redo protocol that implements it: the records one project plan      *)
(* keeps in the protected store, the closed set of transaction kinds, the  *)
(* records each kind replaces, and the contents a caller may ask for.      *)
(*                                                                         *)
(* One record stands for each target role of                               *)
(* HostBootstrap.Lifecycle.Transaction: the project journal, one session,  *)
(* one operation, and the three project-wide Production records (reverse-  *)
(* root intent, lease, mode).  A content is its lifecycle state and the    *)
(* broker generation it names; generation 0 means that it names none.      *)
(***************************************************************************)
EXTENDS Naturals, Sequences

CONSTANT Payload    \* what a session or an operation record can say

ProductionKey == {"Intent", "Lease", "Mode"}
PlanKey == {"Project", "Session", "Operation"}
Key == PlanKey \cup ProductionKey

State == {"absent", "open", "closing", "closed", "pending", "committed",
          "terminal", "unbound", "bound", "held"} \cup Payload
Content == [state : State, gen : Nat]

Plain(s) == [state |-> s, gen |-> 0]
Nothing == Plain("absent")

\* The kinds some caller emits.  The two kinds reserved for later code
\* (TxnCloseProductionInvocation, TxnFinalizeHarnessClose) name no target.
TxnKind == {"OpenProject", "OpenSession", "RegisterIntent",
            "PrepareOperation", "AcknowledgeOutcome", "RebindSession",
            "CloseSession", "BeginProjectClose", "RecordProjectClosed",
            "FinalizeProductionProject", "FinalizeProductionPreEffect",
            "ReopenProductionProject"}

Finalize == {"FinalizeProductionProject", "FinalizeProductionPreEffect"}

\* Mutants: the mode is given up first; the lease is not closed at all.
rolesModeFirst(kind) ==
  CASE kind = "FinalizeProductionProject" ->
         <<"Project", "Mode", "Intent", "Lease">>
    [] kind = "FinalizeProductionPreEffect" -> <<"Project", "Mode", "Lease">>
    [] kind = "RegisterIntent" -> <<"Operation", "Session">>
    [] kind = "OpenSession" -> <<"Session">>
    [] OTHER -> <<"Project">>

rolesLeaseForgotten(kind) ==
  CASE kind = "FinalizeProductionProject" -> <<"Project", "Intent", "Mode">>
    [] kind = "OpenSession" -> <<"Session">>
    [] OTHER -> <<"Project">>

\* The targets of a kind, in the order in which they are materialised.
expectedRoles(kind) ==
  CASE kind = "RegisterIntent" -> <<"Operation", "Session">>
    [] kind = "FinalizeProductionProject" ->
         <<"Project", "Intent", "Lease", "Mode">>
    [] kind = "FinalizeProductionPreEffect" -> <<"Project", "Lease", "Mode">>
    [] kind \in {"OpenSession", "RebindSession", "CloseSession"} ->
         <<"Session">>
    [] kind \in {"PrepareOperation", "AcknowledgeOutcome"} -> <<"Operation">>
    [] OTHER -> <<"Project">>

RolesOf(kind) == {expectedRoles(kind)[i] : i \in 1..Len(expectedRoles(kind))}

\* The journal state a kind that rewrites the project journal asks for.
JournalAfter(kind) ==
  CASE kind \in {"OpenProject", "ReopenProductionProject"} -> "open"
    [] kind = "BeginProjectClose" -> "closing"
    [] OTHER -> "closed"

\* What its callers check of the current contents before they emit a kind.
Permitted(kind, value) ==
  CASE kind = "OpenProject" -> value["Project"] = Nothing
    [] kind = "ReopenProductionProject" -> value["Project"] = Plain("closed")
    [] kind = "RecordProjectClosed" -> value["Project"] = Plain("closing")
    [] kind = "RebindSession" -> TRUE
    [] kind = "FinalizeProductionProject" ->
         /\ value["Project"] = Plain("open")
         /\ value["Intent"].state = "committed"
         /\ value["Lease"] = [state |-> "bound", gen |-> value["Intent"].gen]
         /\ value["Mode"] = [state |-> "held", gen |-> value["Intent"].gen]
    [] kind = "FinalizeProductionPreEffect" ->
         /\ value["Project"] \in {Plain("open"), Nothing}
         /\ value["Lease"].state = "unbound"
         /\ value["Mode"] = [state |-> "held", gen |-> value["Lease"].gen]
    [] OTHER -> value["Project"] = Plain("open")

\* The contents a kind asks for at its targets; op and sess are what the
\* caller wants an operation and a session record to say.
Desired(kind, value, op, sess) ==
  [key \in Key |->
     CASE key \notin RolesOf(kind) -> Nothing
       [] key = "Project" -> Plain(JournalAfter(kind))
       [] key = "Operation" -> Plain(op)
       [] key = "Session" -> Plain(sess)
       [] key = "Intent" -> [value["Intent"] EXCEPT !.state = "terminal"]
       [] key = "Lease" -> [value["Lease"] EXCEPT !.state = "closed"]
       [] OTHER -> Nothing]

\* The contents after a whole transaction: the targets as asked, the rest kept.
Overlay(value, kind, to) ==
  [key \in Key |-> IF key \in RolesOf(kind) THEN to[key] ELSE value[key]]

(***************************************************************************)
(* What Mode checks before its own compare-and-swap writes, in terms of    *)
(* the contents it has read.                                               *)
(***************************************************************************)
\* withOrdinaryProjectAdmission: no reverse-root intent short of terminal.
NoReverseRoot(value) == value["Intent"].state \in {"absent", "terminal"}

\* A lease a fresh Up may arm (readUnboundLeaseAdmission).
Armable(value) == value["Lease"].state \in {"absent", "unbound", "closed"}

\* A closed lease is rearmed only over a cleared intent and an open journal.
Rearmed(value) ==
  value["Lease"].state = "closed" =>
     value["Intent"] = Nothing /\ value["Project"] \in {Nothing, Plain("open")}
=============================================================================
