--------------------------- MODULE AtomicLifecycle ---------------------------
(***************************************************************************)
(* What the redo protocol promises: the records of one plan change only by *)
(* whole transactions.  A transaction replaces the contents of all its     *)
(* targets in one step; Mode's own writes change one record each.  There   *)
(* are no versions, no descriptors, no processes and no crashes here.      *)
(***************************************************************************)
EXTENDS LifecycleRecords

CONSTANT Kinds      \* the transaction kinds the instance uses

VARIABLES value,    \* the content of every record
          commits,  \* how many transactions have been committed
          epoch     \* the last broker generation allocated

vars == <<value, commits, epoch>>

Init ==
  /\ value = [key \in Key |-> Nothing]
  /\ commits = 0
  /\ epoch = 0

Transact(kind) ==
  /\ Permitted(kind, value)
  /\ \E op, sess \in Payload :
       value' = Overlay(value, kind, Desired(kind, value, op, sess))
  /\ commits' = commits + 1
  /\ UNCHANGED epoch

Put(key, state, gen) == value' = [value EXCEPT ![key] = [state |-> state, gen |-> gen]]

TakeMode ==
  /\ NoReverseRoot(value) /\ Armable(value)
  /\ epoch' = epoch + 1
  /\ Put("Mode", "held", epoch')
  /\ UNCHANGED commits

ClearIntent ==
  /\ value["Mode"].state = "held" /\ value["Lease"].state = "closed"
  /\ value["Intent"].state = "terminal"
  /\ value' = [value EXCEPT !["Intent"] = Nothing]
  /\ UNCHANGED <<commits, epoch>>

ArmLease ==
  /\ value["Mode"].state = "held" /\ Armable(value) /\ Rearmed(value)
  /\ Put("Lease", "unbound", value["Mode"].gen)
  /\ UNCHANGED <<commits, epoch>>

BindLease ==
  /\ value["Lease"].state = "unbound"
  /\ Put("Lease", "bound", value["Lease"].gen)
  /\ UNCHANGED <<commits, epoch>>

RecordIntent ==
  /\ value["Intent"] = Nothing /\ value["Lease"].state = "bound"
  /\ Put("Intent", "pending", value["Lease"].gen)
  /\ UNCHANGED <<commits, epoch>>

CommitIntent ==
  /\ value["Intent"].state = "pending"
  /\ epoch' = epoch + 1
  /\ Put("Intent", "committed", epoch')
  /\ UNCHANGED commits

RotateMode ==
  /\ value["Intent"].state = "committed"
  /\ value["Mode"].gen < value["Intent"].gen
  /\ Put("Mode", "held", value["Intent"].gen)
  /\ UNCHANGED <<commits, epoch>>

RotateLease ==
  /\ value["Intent"].state = "committed"
  /\ value["Mode"].gen = value["Intent"].gen
  /\ value["Lease"].gen < value["Intent"].gen
  /\ Put("Lease", "bound", value["Intent"].gen)
  /\ UNCHANGED <<commits, epoch>>

Next ==
  \/ \E kind \in Kinds : Transact(kind)
  \/ TakeMode \/ ClearIntent \/ ArmLease \/ BindLease
  \/ RecordIntent \/ CommitIntent \/ RotateMode \/ RotateLease

Spec == Init /\ [][Next]_vars
=============================================================================
