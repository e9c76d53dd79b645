--------------------------- MODULE RedoTransaction ---------------------------
(***************************************************************************)
(* The redo transaction coordinator of one project plan                    *)
(* (HostBootstrap.Lifecycle.Transaction) over the protected store          *)
(* (HostBootstrap.Protected), at the granularity of one record write.      *)
(*                                                                         *)
(* A multi-record transition is published as one Applying descriptor in    *)
(* the coordinator record, materialised target by target, and committed by *)
(* writing the coordinator Idle again.  A process may die between any two  *)
(* writes, a write may fail without landing, or land and yet be reported   *)
(* as failed (the parent directory sync after the rename).  Whoever enters *)
(* the store next finishes the descriptor.                                 *)
(*                                                                         *)
(* The three Production records are also written directly by Mode: the     *)
(* root bracket (take the mode, rearm the lease), the lease binding, and   *)
(* the reverse-root intent of a destroy.  Those entries first recover      *)
(* every descriptor that finalizes Production.                             *)
(***************************************************************************)
EXTENDS LifecycleRecords

CONSTANTS
  Proc,       \* processes that share the store
  Kinds,      \* the transaction kinds the instance uses
  MaxSeq,     \* the last transaction sequence number (maxBound of Word64)
  MaxEpoch,   \* the last broker generation an instance allocates
  MaxFaults   \* how many crashes and failed writes an instance suffers

ASSUME ProcAssumption == "nobody" \notin Proc
ASSUME KindsAssumption == Kinds \subseteq TxnKind
ASSUME BoundsAssumption ==
  MaxSeq \in Nat /\ MaxEpoch \in Nat /\ MaxFaults \in Nat

VARIABLES
  coord,    \* the coordinator record
  rec,      \* the target records
  holder,   \* who holds the exclusive entry of the store
  pc,       \* where each process stands in its entry
  job,      \* what that entry is for
  next,     \* the target each process is about to materialise
  permit,   \* the coordinator version each process was last handed
  basis,    \* ghost: the plan's records when that permit was issued
  seen,     \* the Production records a closing process has read
  epoch,    \* the last broker generation allocated
  faults    \* how many faults have happened

vars == <<coord, rec, holder, pc, job, next, permit, basis, seen, epoch, faults>>
procVars == <<holder, pc, job, next, permit, basis, seen>>

NoRecord == [ver |-> 0, stamp |-> 0, content |-> Nothing]
NoTargets == [key \in Key |-> Nothing]

\* What a target expects: the version, and for Production the content too.
Expectation == [key \in Key |-> [ver |-> 0, content |-> Nothing]]

Contents == [key \in Key |-> rec[key].content]
PlanContents == [key \in PlanKey |-> rec[key].content]
ProductionRecords == [key \in ProductionKey |-> rec[key]]
NotSeen == [key \in ProductionKey |-> NoRecord]

NoCoordinator ==
  [ver |-> 0, st |-> "absent", seq |-> 0, kind |-> "none",
   from |-> Expectation, to |-> NoTargets]

Applying == coord.st = "applying"
Finalizing == Applying /\ coord.kind \in Finalize
Targets == expectedRoles(coord.kind)

Init ==
  /\ coord = NoCoordinator
  /\ rec = [key \in Key |-> NoRecord]
  /\ holder = "nobody"
  /\ pc = [p \in Proc |-> "out"]
  /\ job = [p \in Proc |-> "none"]
  /\ next = [p \in Proc |-> 1]
  /\ permit = [p \in Proc |-> 0]
  /\ basis = [p \in Proc |-> [key \in PlanKey |-> Nothing]]
  /\ seen = [p \in Proc |-> NotSeen]
  /\ epoch = 0
  /\ faults = 0

(***************************************************************************)
(* The protected store.                                                    *)
(***************************************************************************)
\* compareAndSwapProtectedRecord: the sole successor of the observed record.
Successor(key, stamp, content) ==
  [ver |-> rec[key].ver + 1, stamp |-> stamp, content |-> content]

\* A write that landed either returns, or reports a failure and the caller's
\* call is over.
Returns(p) == UNCHANGED <<job, faults>>

ReportsFailure(p) ==
  /\ faults < MaxFaults
  /\ faults' = faults + 1
  /\ job' = [job EXCEPT ![p] = "done"]

\* withProtectedEntry: one process at a time holds the store.
Enter(p, purpose) ==
  /\ holder = "nobody" /\ pc[p] = "out"
  /\ holder' = p
  /\ pc' = [pc EXCEPT ![p] = "enter"]
  /\ job' = [job EXCEPT ![p] = purpose]
  /\ UNCHANGED <<coord, rec, next, permit, basis, seen, epoch, faults>>

\* The entry ends.  A permit is a plain value and outlives it.
Leave(p) ==
  /\ pc[p] = "in" /\ job[p] \notin {"arm", "rotate"}
  /\ holder' = "nobody"
  /\ pc' = [pc EXCEPT ![p] = "out"]
  /\ job' = [job EXCEPT ![p] = "none"]
  /\ seen' = [seen EXCEPT ![p] = NotSeen]
  /\ UNCHANGED <<coord, rec, next, permit, basis, epoch, faults>>

\* The kernel releases the lock of a dead process; its memory is gone.
Crash(p) ==
  /\ pc[p] # "out" /\ faults < MaxFaults
  /\ holder' = "nobody"
  /\ pc' = [pc EXCEPT ![p] = "out"]
  /\ job' = [job EXCEPT ![p] = "none"]
  /\ next' = [next EXCEPT ![p] = 1]
  /\ permit' = [permit EXCEPT ![p] = 0]
  /\ basis' = [basis EXCEPT ![p] = [key \in PlanKey |-> Nothing]]
  /\ seen' = [seen EXCEPT ![p] = NotSeen]
  /\ faults' = faults + 1
  /\ UNCHANGED <<coord, rec, epoch>>

\* A write fails and nothing has landed: the call returns its error.
WriteFails(p) ==
  /\ pc[p] = "apply" \/ (pc[p] = "in" /\ job[p] \in {"arm", "rotate"})
  /\ faults < MaxFaults
  /\ faults' = faults + 1
  /\ pc' = [pc EXCEPT ![p] = "in"]
  /\ job' = [job EXCEPT ![p] = "done"]
  /\ UNCHANGED <<coord, rec, holder, next, permit, basis, seen, epoch>>

(***************************************************************************)
(* The coordinator.                                                        *)
(***************************************************************************)
\* Entries that go through the plan's coordinator, at any time while they
\* hold the store; a Mode entry only needs it to reopen or close a journal.
Coordinates(p) ==
  \/ pc[p] = "enter" /\ job[p] = "session"
  \/ pc[p] = "in" /\ job[p] \in {"session", "arm", "close"}

Issue(p, version) ==
  /\ permit' = [permit EXCEPT ![p] = version]
  /\ basis' = [basis EXCEPT ![p] = PlanContents]

\* ensureTransactionCoordinator with no descriptor pending.
Ensure(p) ==
  /\ Coordinates(p) /\ ~Applying
  /\ coord' = IF coord.st = "absent"
                THEN [coord EXCEPT !.ver = 1, !.st = "idle"] ELSE coord
  /\ Issue(p, coord'.ver)
  /\ pc' = [pc EXCEPT ![p] = "in"]
  /\ UNCHANGED <<rec, holder, job, next, seen, epoch, faults>>

\* Mutant: a descriptor somebody else published is refused.
RedoRefused(p) ==
  /\ Applying
  /\ Coordinates(p) \/ (pc[p] = "enter" /\ job[p] = "mode" /\ Finalizing)
  /\ pc' = [pc EXCEPT ![p] = "in"] /\ job' = [job EXCEPT ![p] = "done"]
  /\ UNCHANGED <<coord, rec, holder, next, permit, basis, seen, epoch, faults>>

\* recoverApplying: the process that finds a descriptor materialises it.  A
\* Mode entry recovers only the descriptors that finalize Production.
Redo(p) ==
  /\ Applying
  /\ Coordinates(p) \/ (pc[p] = "enter" /\ job[p] = "mode" /\ Finalizing)
  /\ pc' = [pc EXCEPT ![p] = "apply"]
  /\ next' = [next EXCEPT ![p] = 1]
  /\ UNCHANGED <<coord, rec, holder, job, permit, basis, seen, epoch, faults>>

\* A Mode entry with nothing of Production to recover goes ahead.
Admit(p) ==
  /\ pc[p] = "enter" /\ job[p] = "mode" /\ ~Finalizing
  /\ pc' = [pc EXCEPT ![p] = "in"]
  /\ UNCHANGED <<coord, rec, holder, job, next, permit, basis, seen, epoch, faults>>

\* The kinds an entry emits.
Emits(p, kind) ==
  \/ job[p] = "session" /\ kind \notin Finalize \cup {"ReopenProductionProject"}
  \/ job[p] = "arm" /\ kind = "ReopenProductionProject"
  \/ job[p] = "close" /\ kind \in Finalize

\* The records a caller has read for its targets.  A close read the
\* Production records before the coordinator was ensured.
Read(p, key) ==
  IF job[p] = "close" /\ key \in ProductionKey THEN seen[p][key] ELSE rec[key]

\* Mutant: any permit ever issued will do.
Presented(p) == coord.st = "idle" /\ permit[p] > 0

\* A permit is live while the coordinator is the Idle record it names.
Live(p) == coord.st = "idle" /\ permit[p] = coord.ver

\* runLifecycleTransaction up to the Applying write.  A close is the last
\* call of its entry.
Begin(p, kind) ==
  /\ pc[p] = "in" /\ Emits(p, kind)
  /\ Live(p) /\ coord.seq < MaxSeq
  /\ LET known == [key \in Key |-> Read(p, key).content]
     IN  /\ Permitted(kind, known)
         /\ \E op, sess \in Payload :
              coord' = [ver |-> coord.ver + 1, st |-> "applying",
                        seq |-> coord.seq + 1, kind |-> kind,
                        from |-> [key \in Key |->
                                    IF key \in RolesOf(kind)
                                      THEN [ver |-> Read(p, key).ver,
                                            content |-> known[key]]
                                      ELSE Expectation[key]],
                        to |-> Desired(kind, known, op, sess)]
  /\ next' = [next EXCEPT ![p] = 1]
  /\ \/ /\ pc' = [pc EXCEPT ![p] = "apply"]
        /\ job' = [job EXCEPT ![p] = IF @ = "close" THEN "done" ELSE @]
        /\ UNCHANGED faults
     \/ ReportsFailure(p) /\ UNCHANGED pc
  /\ UNCHANGED <<rec, holder, permit, basis, seen, epoch>>

\* Mutant: the stamp of the transaction that will come next.
AppliedNextStamp(key) ==
  rec[key].stamp = coord.seq + 1 /\ rec[key].content = coord.to[key]

\* targetAlreadyApplied and alreadyApplied of applyProductionTarget.
AlreadyApplied(key) ==
  CASE key = "Mode" -> rec[key].ver = 0
    [] key \in ProductionKey -> /\ rec[key].ver = coord.from[key].ver + 1
                                /\ rec[key].content = coord.to[key]
    [] OTHER -> rec[key].stamp = coord.seq /\ rec[key].content = coord.to[key]

\* targetExpectationMatches; a Production target also compares the bytes.
ExpectationMatches(key) ==
  /\ rec[key].ver = coord.from[key].ver
  /\ key \in ProductionKey =>
       rec[key].ver > 0 /\ rec[key].content = coord.from[key].content

\* What a target is replaced by: the mode is deleted, Production records keep
\* their own format, every other target carries the descriptor's stamp.
Materialized(key) ==
  CASE key = "Mode" -> NoRecord
    [] key \in ProductionKey -> Successor(key, 0, coord.to[key])
    [] OTHER -> Successor(key, coord.seq, coord.to[key])

\* applyTarget and applyProductionTarget, one target of applyTargets.  A target
\* in neither state is a conflict, and the call stops there.
Apply(p) ==
  /\ pc[p] = "apply" /\ next[p] <= Len(Targets)
  /\ LET key == Targets[next[p]]
     IN  \/ /\ AlreadyApplied(key)
            /\ next' = [next EXCEPT ![p] = @ + 1]
            /\ UNCHANGED <<rec, pc, job, faults>>
         \/ /\ ~AlreadyApplied(key)
            /\ IF ExpectationMatches(key)
                 THEN /\ rec' = [rec EXCEPT ![key] = Materialized(key)]
                      /\ next' = [next EXCEPT ![p] = @ + 1]
                      /\ \/ Returns(p) /\ UNCHANGED pc
                         \/ /\ ReportsFailure(p)
                            /\ pc' = [pc EXCEPT ![p] = "in"]
                 ELSE /\ pc' = [pc EXCEPT ![p] = "in"]
                      /\ job' = [job EXCEPT ![p] = "done"]
                      /\ UNCHANGED <<rec, next, faults>>
  /\ UNCHANGED <<coord, holder, permit, basis, seen, epoch>>

\* Mutant: the last target is forgotten.
AlmostMaterialized(p) == next[p] >= Len(Targets)

AllMaterialized(p) == next[p] > Len(Targets)

\* The Idle write that commits.  The runner of the transaction and a caller
\* that ensured the coordinator receive the new version as their permit; one
\* that only meant to recover, or presented an older permit, keeps its own.
Commit(p) ==
  /\ pc[p] = "apply" /\ AllMaterialized(p)
  /\ coord' = [NoCoordinator EXCEPT !.ver = coord.ver + 1, !.st = "idle",
                                    !.seq = coord.seq]
  /\ \/ Returns(p) /\ Issue(p, coord'.ver)
     \/ Returns(p) /\ UNCHANGED <<permit, basis>>
     \/ ReportsFailure(p) /\ UNCHANGED <<permit, basis>>
  /\ pc' = [pc EXCEPT ![p] = IF job'[p] = "mode" THEN "enter" ELSE "in"]
  /\ UNCHANGED <<rec, holder, next, seen, epoch>>

(***************************************************************************)
(* Mode's direct writes of the Production records.                         *)
(***************************************************************************)
\* One compare-and-swap of a Production record, in an entry of Mode.
Put(p, key, state, gen, then) ==
  /\ rec' = [rec EXCEPT ![key] =
                Successor(key, 0, [state |-> state, gen |-> gen])]
  /\ \/ job' = [job EXCEPT ![p] = then] /\ UNCHANGED faults
     \/ ReportsFailure(p)
  /\ UNCHANGED <<coord, holder, pc, next, permit, basis, seen>>

ModeStep(p, jobs) == pc[p] = "in" /\ job[p] \in jobs

\* withProductionRoot for an Up: preflight, a fresh epoch, acquireModeWire.
TakeMode(p) ==
  /\ ModeStep(p, {"mode"})
  /\ NoReverseRoot(Contents) /\ Armable(Contents) /\ epoch < MaxEpoch
  /\ epoch' = epoch + 1
  /\ Put(p, "Mode", "held", epoch', "arm")

\* clearTerminalReverseRoot, on the way to rearm a closed lease.
ClearIntent(p) ==
  /\ ModeStep(p, {"arm"})
  /\ rec["Lease"].content.state = "closed"
  /\ rec["Intent"].content.state = "terminal"
  /\ rec' = [rec EXCEPT !["Intent"] = NoRecord]
  /\ \/ Returns(p)
     \/ ReportsFailure(p)
  /\ UNCHANGED <<coord, holder, pc, next, permit, basis, seen, epoch>>

\* recordUnboundLease: the lease write that ends the root bracket's entry.  A
\* closed lease is armed after its intent is cleared and its journal reopened,
\* which went through the coordinator.
ArmLease(p) ==
  /\ ModeStep(p, {"arm"})
  /\ rec["Lease"].content.state = "closed" => ~Applying
  /\ Rearmed(Contents)
  /\ Put(p, "Lease", "unbound", rec["Mode"].content.gen, "mode")
  /\ UNCHANGED epoch

\* A journal left Closing cannot be reopened, nor one whose coordinator has
\* spent its last sequence number: the root bracket is refused.
RefuseArm(p) ==
  /\ ModeStep(p, {"arm"}) /\ ~Applying
  /\ rec["Lease"].content.state = "closed"
  /\ \/ rec["Project"].content = Plain("closing")
     \/ rec["Project"].content = Plain("closed") /\ coord.seq = MaxSeq
  /\ job' = [job EXCEPT ![p] = "done"]
  /\ UNCHANGED <<coord, rec, holder, pc, next, permit, basis, seen, epoch, faults>>

\* bindFreshRunLease.
BindLease(p) ==
  /\ ModeStep(p, {"mode"})
  /\ rec["Lease"].content.state = "unbound"
  /\ Put(p, "Lease", "bound", rec["Lease"].content.gen, "mode")
  /\ UNCHANGED epoch

\* admit: the Pending reverse-root intent of a destroy.
RecordIntent(p) ==
  /\ ModeStep(p, {"mode"})
  /\ rec["Intent"].content = Nothing /\ epoch < MaxEpoch
  /\ rec["Lease"].content.state = "bound"
  /\ Put(p, "Intent", "pending", rec["Lease"].content.gen, "rotate")
  /\ UNCHANGED epoch

\* commitAllocated: a fresh epoch and the Committed intent that names it.
CommitIntent(p) ==
  /\ ModeStep(p, {"mode", "rotate"})
  /\ rec["Intent"].content.state = "pending" /\ epoch < MaxEpoch
  /\ epoch' = epoch + 1
  /\ Put(p, "Intent", "committed", epoch', "rotate")

\* finishCommitted: the mode and then the lease move to the intent's epoch.
RotateMode(p) ==
  /\ ModeStep(p, {"mode", "rotate"})
  /\ rec["Intent"].content.state = "committed"
  /\ rec["Mode"].content.gen < rec["Intent"].content.gen
  /\ Put(p, "Mode", "held", rec["Intent"].content.gen, "rotate")
  /\ UNCHANGED epoch

RotateLease(p) ==
  /\ ModeStep(p, {"mode", "rotate"})
  /\ rec["Intent"].content.state = "committed"
  /\ rec["Mode"].content.gen = rec["Intent"].content.gen
  /\ rec["Lease"].content.gen < rec["Intent"].content.gen
  /\ Put(p, "Lease", "bound", rec["Intent"].content.gen, "mode")
  /\ UNCHANGED epoch

\* releaseProductionMode reads the Production records it will close, and only
\* then ensures the coordinator (productionProjectCloseTargetKernel).
ReadProduction(p) ==
  /\ ModeStep(p, {"mode"})
  /\ rec["Mode"].content.state = "held"
  /\ seen' = [seen EXCEPT ![p] = ProductionRecords]
  /\ permit' = [permit EXCEPT ![p] = 0]
  /\ job' = [job EXCEPT ![p] = "close"]
  /\ UNCHANGED <<coord, rec, holder, pc, next, basis, epoch, faults>>

Next ==
  \E p \in Proc :
    \/ \E purpose \in {"session", "mode"} : Enter(p, purpose)
    \/ Leave(p) \/ Crash(p) \/ WriteFails(p)
    \/ Ensure(p) \/ Redo(p) \/ Admit(p)
    \/ \E kind \in Kinds : Begin(p, kind)
    \/ Apply(p) \/ Commit(p)
    \/ TakeMode(p) \/ ClearIntent(p) \/ ArmLease(p) \/ RefuseArm(p)
    \/ BindLease(p) \/ RecordIntent(p) \/ CommitIntent(p)
    \/ RotateMode(p) \/ RotateLease(p) \/ ReadProduction(p)

Spec == Init /\ [][Next]_vars

(***************************************************************************)
(* Fairness: a process inside its entry runs on, and the plan's next       *)
(* session entry eventually gets the store.  Nothing makes a process use   *)
(* Mode, take the mode or begin a transaction.                             *)
(***************************************************************************)
Fairness ==
  \A p \in Proc :
    /\ WF_vars(Leave(p)) /\ WF_vars(Ensure(p)) /\ WF_vars(Redo(p))
    /\ WF_vars(Admit(p)) /\ WF_vars(Apply(p)) /\ WF_vars(Commit(p))
    /\ WF_vars(ClearIntent(p)) /\ WF_vars(ArmLease(p))
    /\ WF_vars(RefuseArm(p)) /\ WF_vars(CommitIntent(p))
    /\ WF_vars(RotateMode(p)) /\ WF_vars(RotateLease(p))
    /\ WF_vars("ReopenProductionProject" \in Kinds
               /\ Begin(p, "ReopenProductionProject"))
    /\ SF_vars(Enter(p, "session"))

FairSpec == Spec /\ Fairness

-----------------------------------------------------------------------------
Record == [ver : Nat, stamp : Nat, content : Content]
Coordinator ==
  [ver : Nat, st : {"absent", "idle", "applying"}, seq : Nat,
   kind : TxnKind \cup {"none"},
   from : [Key -> [ver : Nat, content : Content]], to : [Key -> Content]]
Job == {"none", "session", "mode", "arm", "rotate", "close", "done"}

\* Every variable has its type; only the holder of the store is in an entry.
TypeOK ==
  /\ coord \in Coordinator
  /\ Applying => coord.kind \in TxnKind
  /\ rec \in [Key -> Record]
  /\ holder \in Proc \cup {"nobody"}
  /\ pc \in [Proc -> {"out", "enter", "in", "apply"}]
  /\ job \in [Proc -> Job]
  /\ next \in [Proc -> Nat \ {0}]
  /\ permit \in [Proc -> Nat]
  /\ basis \in [Proc -> [PlanKey -> Content]]
  /\ seen \in [Proc -> [ProductionKey -> Record]]
  /\ epoch \in Nat /\ faults \in Nat
  /\ \A p \in Proc : IF pc[p] = "out" THEN job[p] = "none" ELSE holder = p

\* Wherever the processes of a descriptor died, whoever redoes it never meets a
\* TransactionTargetConflict: its targets are a materialised prefix followed by
\* records that still match what the descriptor expects.  A conflict would
\* wedge the plan, since every later entry redoes the same descriptor.
RedoNeverConflicts ==
  Applying =>
    \E done \in 0..Len(Targets) :
      \A i \in 1..Len(Targets) :
        IF i <= done THEN AlreadyApplied(Targets[i])
                     ELSE ExpectationMatches(Targets[i])

\* The mode record is the last thing a Production release gives up: whoever
\* reads the store and finds no mode, recovery pending or not, finds no live
\* lease and no destroy in progress (applyProductionTarget, releaseProductionMode).
ModeAbsentMeansReleased ==
  rec["Mode"] = NoRecord =>
    /\ rec["Lease"].content.state \in {"absent", "closed"}
    /\ rec["Intent"].content.state \notin {"pending", "committed"}

\* A destroy retried after its close, wherever the first attempt was cut off,
\* reads the whole terminal closure that releaseProductionMode demands: closed
\* journal, lease closed at the intent's generation, no mode.
TerminalClosureIsWhole ==
  /\ ~Finalizing
  /\ rec["Mode"] = NoRecord /\ rec["Intent"].content.state = "terminal"
  => /\ rec["Lease"].content = [state |-> "closed",
                                gen |-> rec["Intent"].content.gen]
     /\ coord.st = "idle" => rec["Project"].content = Plain("closed")

\* Why a redo never conflicts.  An absent record has no content; a Mode entry
\* that writes has no finalization to redo; a closing process still sees the
\* Production records as they are; and a process that materialises a
\* descriptor has materialised what it has passed.
AbsentIsEmpty == \A key \in Key : rec[key].ver = 0 => rec[key].content = Nothing

ModeEntryIsAdmitted ==
  \A p \in Proc :
    \/ pc[p] = "in" /\ job[p] \in {"mode", "arm", "rotate"}
    \/ job[p] = "close"
    => ~Finalizing

ClosingSeesRecords ==
  \A p \in Proc : job[p] = "close" => seen[p] = ProductionRecords

PassedIsApplied ==
  \A p \in Proc :
    pc[p] = "apply" =>
      /\ Applying
      /\ next[p] <= Len(Targets) + 1
      /\ \A i \in 1..Len(Targets) : i < next[p] => AlreadyApplied(Targets[i])

RedoInvariant ==
  /\ TypeOK
  /\ AbsentIsEmpty /\ ModeEntryIsAdmitted /\ ClosingSeesRecords
  /\ PassedIsApplied /\ RedoNeverConflicts

\* No lost update: a transaction begins only while the plan's records say what
\* they said when its permit was issued, whatever was redone, committed or cut
\* off in between (runLifecycleTransaction's stale-permit refusal).
BeginsOnIssuedRecords ==
  [][~Applying /\ Applying' => basis[holder] = PlanContents]_vars

\* What the records mean: a published descriptor is already committed.
Logical ==
  [key \in Key |-> IF Applying /\ key \in RolesOf(coord.kind)
                     THEN coord.to[key] ELSE rec[key].content]

Atomic == INSTANCE AtomicLifecycle WITH value <- Logical, commits <- coord.seq

\* The records change by whole transactions only: publishing the descriptor is
\* the commit, and no crash, failed write, redo or concurrent Mode entry makes
\* a part of a transaction, or the same transaction twice, take effect.
TransactionsAreAtomic == Atomic!Spec

\* A published descriptor is eventually committed, after any number of crashes
\* in the middle of it, once the faults stop and the plan is used again.
DescriptorsAreFinished == Applying ~> ~Applying
=============================================================================
