------------------------ MODULE RedoTransactionProofs ------------------------
(***************************************************************************)
(* What TLAPS proves of RedoTransaction, for any processes, kinds, bounds  *)
(* and payloads: the type invariant; that a redo never conflicts; that the *)
(* detailed specification implements AtomicLifecycle; that a transaction   *)
(* begins only on the records its permit was issued on; and what an absent *)
(* mode and a closed project vouch for.  The last three rest on            *)
(* AtomicInvariant, which says what a permit is worth (PermitsAreCurrent), *)
(* what a descriptor asks for (DescriptorIsSound), and how the three       *)
(* Production records are tied to each other (LeaseLedgers,                *)
(* TerminalIsClosed).                                                      *)
(***************************************************************************)
EXTENDS RedoTransaction, TLAPS

-----------------------------------------------------------------------------
(* The transaction kinds and the contents they ask for.                    *)

\* Every kind names one to four distinct records, and only a finalization
\* names a Production record.
LEMMA RolesFacts ==
  ASSUME NEW kind \in TxnKind \cup {"none"}
  PROVE  /\ expectedRoles(kind) \in Seq(Key)
         /\ Len(expectedRoles(kind)) \in 1..4
         /\ \A i, j \in 1..Len(expectedRoles(kind)) :
              expectedRoles(kind)[i] = expectedRoles(kind)[j] => i = j
         /\ \A i \in 1..Len(expectedRoles(kind)) :
              kind \notin Finalize => expectedRoles(kind)[i] \in PlanKey
<1> USE DEF Finalize, PlanKey, Key, ProductionKey
<1>1. CASE kind = "RegisterIntent"
  <2>1. expectedRoles(kind) = <<"Operation", "Session">>
    BY <1>1 DEF expectedRoles
  <2> QED  BY <2>1
<1>2. CASE kind = "FinalizeProductionProject"
  <2>1. expectedRoles(kind) = <<"Project", "Intent", "Lease", "Mode">>
    BY <1>2 DEF expectedRoles
  <2> QED  BY <2>1, <1>2
<1>3. CASE kind = "FinalizeProductionPreEffect"
  <2>1. expectedRoles(kind) = <<"Project", "Lease", "Mode">>
    BY <1>3 DEF expectedRoles
  <2> QED  BY <2>1, <1>3
<1>4. CASE kind \in {"OpenSession", "RebindSession", "CloseSession"}
  <2>1. expectedRoles(kind) = <<"Session">>
    BY <1>4 DEF expectedRoles
  <2> QED  BY <2>1
<1>5. CASE kind \in {"PrepareOperation", "AcknowledgeOutcome"}
  <2>1. expectedRoles(kind) = <<"Operation">>
    BY <1>5 DEF expectedRoles
  <2> QED  BY <2>1
<1>6. CASE kind \in {"OpenProject", "BeginProjectClose", "RecordProjectClosed",
                     "ReopenProductionProject", "none"}
  <2>1. expectedRoles(kind) = <<"Project">>
    BY <1>6 DEF expectedRoles
  <2> QED  BY <2>1
<1> QED  BY <1>1, <1>2, <1>3, <1>4, <1>5, <1>6 DEF TxnKind

\* Nothing, and every content a caller asks for, is a content.
LEMMA NothingType == Nothing \in Content
BY DEF Nothing, Plain, Content, State

LEMMA DesiredType ==
  ASSUME NEW kind \in TxnKind, NEW value \in [Key -> Content],
         NEW op \in Payload, NEW sess \in Payload
  PROVE  Desired(kind, value, op, sess) \in [Key -> Content]
<1> SUFFICES ASSUME NEW key \in Key
             PROVE  Desired(kind, value, op, sess)[key] \in Content
  BY DEF Desired
<1>1. Plain(op) \in Content /\ Plain(sess) \in Content
  BY DEF Plain, Content, State
<1>2. Plain(JournalAfter(kind)) \in Content
  BY DEF Plain, Content, State, JournalAfter
<1>3. [value["Intent"] EXCEPT !.state = "terminal"] \in Content
  BY DEF Content, State, Key, ProductionKey
<1>4. [value["Lease"] EXCEPT !.state = "closed"] \in Content
  BY DEF Content, State, Key, ProductionKey
<1> QED
  BY <1>1, <1>2, <1>3, <1>4, NothingType DEF Desired

LEMMA ContentOfStates ==
  /\ \A s \in State, g \in Nat : [state |-> s, gen |-> g] \in Content
  /\ {"held", "unbound", "bound", "pending", "committed"} \subseteq State
BY DEF Content, State

-----------------------------------------------------------------------------
(* Type correctness.                                                       *)

USE DEF ModeStep, Returns, ReportsFailure

LEMMA NoCoordinatorType == NoCoordinator \in Coordinator
BY NothingType DEF NoCoordinator, Coordinator, Expectation, NoTargets

LEMMA InitTypes == Init => TypeOK
<1> SUFFICES ASSUME Init PROVE TypeOK
  OBVIOUS
<1>2. NoRecord \in Record
  BY NothingType DEF NoRecord, Record
<1>3. rec \in [Key -> Record]
  BY <1>2 DEF Init
<1>4. basis \in [Proc -> [PlanKey -> Content]]
  BY NothingType DEF Init
<1>5. seen \in [Proc -> [ProductionKey -> Record]]
  BY <1>2 DEF Init, NotSeen
<1>6. coord \in Coordinator /\ (Applying => coord.kind \in TxnKind)
  BY NoCoordinatorType DEF Init, Applying, NoCoordinator
<1> QED
  BY <1>3, <1>4, <1>5, <1>6 DEF Init, TypeOK, Job

\* The direct writes of Mode, whatever they write and wherever they lead.
LEMMA PutTypes ==
  ASSUME TypeOK, NEW p \in Proc, NEW key \in ProductionKey, NEW state \in State,
         NEW gen \in Nat, NEW then \in {"mode", "arm", "rotate"},
         pc[p] = "in", Put(p, key, state, gen, then), epoch' \in Nat
  PROVE  TypeOK'
<1>1. [state |-> state, gen |-> gen] \in Content
  BY ContentOfStates
<1>2. Successor(key, 0, [state |-> state, gen |-> gen]) \in Record
  BY <1>1 DEF Successor, Record, TypeOK, Key
<1>3. rec' \in [Key -> Record]
  BY <1>2 DEF Put, TypeOK
<1>4. \E j \in Job : j # "none" /\ job' = [job EXCEPT ![p] = j]
  BY DEF Put, Job
<1>6. job' \in [Proc -> Job] /\ faults' \in Nat
  <2>1. faults' = faults \/ faults' = faults + 1
    BY DEF Put
  <2> QED  BY <1>4, <2>1 DEF TypeOK
<1>5. \A q \in Proc : IF pc'[q] = "out" THEN job'[q] = "none" ELSE holder' = q
  BY <1>4 DEF Put, TypeOK
<1> QED
  BY <1>3, <1>5, <1>6 DEF Put, TypeOK, Applying

\* The records as a function of contents, and what a caller has read of them.
LEMMA ContentsTypes ==
  ASSUME TypeOK
  PROVE  /\ Contents \in [Key -> Content]
         /\ PlanContents \in [PlanKey -> Content]
         /\ ProductionRecords \in [ProductionKey -> Record]
         /\ \A key \in Key : rec[key].content.state \in State
                             /\ rec[key].content.gen \in Nat
         /\ \A p \in Proc, key \in Key : Read(p, key) \in Record
<1>1. \A key \in Key : rec[key] \in Record
  BY DEF TypeOK
<1>2. \A p \in Proc, key \in ProductionKey : seen[p][key] \in Record
  BY DEF TypeOK
<1> QED
  BY <1>1, <1>2 DEF Contents, PlanContents, ProductionRecords, Record, Content,
                    Read, Key

\* A step of the store's own bookkeeping or of the coordinator.
LEMMA EntryTypes ==
  ASSUME TypeOK, NEW p \in Proc,
         \/ \E purpose \in {"session", "mode"} : Enter(p, purpose)
         \/ Leave(p) \/ Crash(p) \/ WriteFails(p) \/ Admit(p) \/ Redo(p)
         \/ RefuseArm(p) \/ ReadProduction(p)
  PROVE  TypeOK'
<1>1. CASE \E purpose \in {"session", "mode"} : Enter(p, purpose)
  BY <1>1, ProcAssumption DEF Enter, TypeOK, Applying, Job
<1>2. CASE Leave(p)
  <2>1. seen' \in [Proc -> [ProductionKey -> Record]]
    BY <1>2, NothingType DEF Leave, TypeOK, NotSeen, NoRecord, Record
  <2>2. holder = p
    BY <1>2 DEF Leave, TypeOK
  <2> QED  BY <1>2, <2>1, <2>2, ProcAssumption DEF Leave, TypeOK, Applying, Job
<1>3. CASE Crash(p)
  <2>1. seen' \in [Proc -> [ProductionKey -> Record]]
    BY <1>3, NothingType DEF Crash, TypeOK, NotSeen, NoRecord, Record
  <2>2. basis' \in [Proc -> [PlanKey -> Content]]
    BY <1>3, NothingType DEF Crash, TypeOK
  <2>3. holder = p
    BY <1>3 DEF Crash, TypeOK
  <2> QED
    BY <1>3, <2>1, <2>2, <2>3, ProcAssumption DEF Crash, TypeOK, Applying, Job
<1>4. CASE WriteFails(p)
  BY <1>4 DEF WriteFails, TypeOK, Applying, Job
<1>5. CASE Admit(p)
  BY <1>5 DEF Admit, TypeOK, Applying, Job
<1>6. CASE Redo(p)
  BY <1>6 DEF Redo, Coordinates, TypeOK, Applying, Job
<1>7. CASE RefuseArm(p)
  BY <1>7 DEF RefuseArm, TypeOK, Applying, Job
<1>8. CASE ReadProduction(p)
  <2>1. seen' \in [Proc -> [ProductionKey -> Record]]
    BY <1>8, ContentsTypes DEF ReadProduction, TypeOK
  <2> QED  BY <1>8, <2>1 DEF ReadProduction, TypeOK, Applying, Job
<1> QED
  BY <1>1, <1>2, <1>3, <1>4, <1>5, <1>6, <1>7, <1>8

LEMMA EnsureTypes ==
  ASSUME TypeOK, NEW p \in Proc, Ensure(p)
  PROVE  TypeOK'
<1>1. coord' \in Coordinator /\ ~Applying'
  BY DEF Ensure, TypeOK, Coordinator, Applying
<1>2. permit' \in [Proc -> Nat]
  BY <1>1 DEF Ensure, Issue, TypeOK, Coordinator
<1>3. basis' \in [Proc -> [PlanKey -> Content]]
  BY ContentsTypes DEF Ensure, Issue, TypeOK
<1>4. pc[p] # "out"
  BY DEF Ensure, Coordinates
<1> QED
  BY <1>1, <1>2, <1>3, <1>4 DEF Ensure, TypeOK, Job

LEMMA BeginTypes ==
  ASSUME TypeOK, NEW p \in Proc, NEW kind \in Kinds, Begin(p, kind)
  PROVE  TypeOK'
<1> DEFINE known == [key \in Key |-> Read(p, key).content]
           from == [key \in Key |->
                      IF key \in RolesOf(kind)
                        THEN [ver |-> Read(p, key).ver, content |-> known[key]]
                        ELSE Expectation[key]]
<1>1. kind \in TxnKind
  BY KindsAssumption
<1>2. known \in [Key -> Content]
  BY ContentsTypes DEF Record
<1>3. from \in [Key -> [ver : Nat, content : Content]]
  BY <1>2, ContentsTypes, NothingType DEF Record, Expectation
<1>4. PICK op \in Payload, sess \in Payload :
        coord' = [ver |-> coord.ver + 1, st |-> "applying",
                  seq |-> coord.seq + 1, kind |-> kind, from |-> from,
                  to |-> Desired(kind, known, op, sess)]
  BY DEF Begin, Live
<1>5. Desired(kind, known, op, sess) \in [Key -> Content]
  BY <1>1, <1>2, DesiredType
<1>6. coord' \in Coordinator /\ coord'.kind \in TxnKind
  <2> HIDE DEF from, known
  <2> QED  BY <1>1, <1>3, <1>4, <1>5 DEF Coordinator, TypeOK
<1>7. pc' \in [Proc -> {"out", "enter", "in", "apply"}] /\ job' \in [Proc -> Job]
  <2>1. pc' = pc \/ pc' = [pc EXCEPT ![p] = "apply"]
    BY DEF Begin, Live
  <2>2. job' = [job EXCEPT ![p] = "done"] \/ job' = job
    BY DEF Begin, Live, TypeOK
  <2> QED  BY <2>1, <2>2 DEF TypeOK, Job
<1>8. next' \in [Proc -> Nat \ {0}] /\ faults' \in Nat
  BY DEF Begin, Live, TypeOK
<1>9. \A q \in Proc : IF pc'[q] = "out" THEN job'[q] = "none" ELSE holder' = q
  BY DEF Begin, Live, TypeOK, Job
<1> QED
  BY <1>6, <1>7, <1>8, <1>9 DEF Begin, Live, TypeOK, Applying

LEMMA ApplyTypes ==
  ASSUME TypeOK, NEW p \in Proc, Apply(p)
  PROVE  TypeOK'
<1> DEFINE key == Targets[next[p]]
<1>1. key \in Key
  <2>1. coord.kind \in TxnKind \cup {"none"}
    BY DEF TypeOK, Coordinator
  <2>2. next[p] \in 1..Len(Targets)
    BY <2>1, RolesFacts DEF TypeOK, Apply, Targets
  <2> QED  BY <2>1, <2>2, RolesFacts DEF Targets
<1>2. Materialized(key) \in Record
  <2>1. coord.to[key] \in Content
    BY <1>1 DEF TypeOK, Coordinator
  <2>2. NoRecord \in Record
    BY NothingType DEF NoRecord, Record
  <2>3. \A stamp \in Nat : Successor(key, stamp, coord.to[key]) \in Record
    BY <1>1, <2>1 DEF Successor, Record, TypeOK
  <2> QED
    BY <2>2, <2>3 DEF Materialized, TypeOK, Coordinator
<1>3. rec' \in [Key -> Record]
  BY <1>1, <1>2 DEF Apply, TypeOK
<1>4. next' \in [Proc -> Nat \ {0}] /\ faults' \in Nat
  BY DEF Apply, TypeOK
<1>5. pc' \in [Proc -> {"out", "enter", "in", "apply"}] /\ job' \in [Proc -> Job]
  BY DEF Apply, TypeOK, Job
<1>6. \A q \in Proc : IF pc'[q] = "out" THEN job'[q] = "none" ELSE holder' = q
  BY DEF Apply, TypeOK, Job
<1> QED
  BY <1>3, <1>4, <1>5, <1>6 DEF Apply, TypeOK, Applying

LEMMA CommitTypes ==
  ASSUME TypeOK, NEW p \in Proc, Commit(p)
  PROVE  TypeOK'
<1>1. coord' \in Coordinator /\ ~Applying' /\ coord'.ver \in Nat
  <2>1. coord.ver + 1 \in Nat /\ coord.seq \in Nat
    BY DEF TypeOK, Coordinator
  <2>2. coord' = [NoCoordinator EXCEPT !.ver = coord.ver + 1, !.st = "idle",
                                       !.seq = coord.seq]
    BY DEF Commit
  <2> QED  BY <2>1, <2>2, NoCoordinatorType DEF Coordinator, Applying
<1>2. permit' \in [Proc -> Nat]
  BY <1>1 DEF Commit, Issue, TypeOK
<1>3. basis' \in [Proc -> [PlanKey -> Content]]
  BY ContentsTypes DEF Commit, Issue, TypeOK
<1>4. pc' \in [Proc -> {"out", "enter", "in", "apply"}] /\ job' \in [Proc -> Job]
  BY DEF Commit, TypeOK, Job
<1>5. faults' \in Nat
  BY DEF Commit, TypeOK
<1>6. \A q \in Proc : IF pc'[q] = "out" THEN job'[q] = "none" ELSE holder' = q
  BY DEF Commit, TypeOK, Job
<1> QED
  BY <1>1, <1>2, <1>3, <1>4, <1>5, <1>6 DEF Commit, TypeOK

LEMMA ModeWriteTypes ==
  ASSUME TypeOK, NEW p \in Proc,
         \/ TakeMode(p) \/ ArmLease(p) \/ BindLease(p) \/ RecordIntent(p)
         \/ CommitIntent(p) \/ RotateMode(p) \/ RotateLease(p)
  PROVE  TypeOK'
<1> USE ContentOfStates DEF ProductionKey
<1>1. \A key \in ProductionKey : rec[key].content.gen \in Nat
  BY ContentsTypes DEF Key
<1>2. CASE TakeMode(p)
  <2>1. epoch' \in Nat
    BY <1>2 DEF TakeMode, TypeOK
  <2> QED  BY <1>2, <2>1, PutTypes DEF TakeMode
<1>3. CASE ArmLease(p)
  BY <1>1, <1>3, PutTypes DEF ArmLease, TypeOK
<1>4. CASE BindLease(p)
  BY <1>1, <1>4, PutTypes DEF BindLease, TypeOK
<1>5. CASE RecordIntent(p)
  BY <1>1, <1>5, PutTypes DEF RecordIntent, TypeOK
<1>6. CASE CommitIntent(p)
  <2>1. epoch' \in Nat
    BY <1>6 DEF CommitIntent, TypeOK
  <2> QED  BY <1>6, <2>1, PutTypes DEF CommitIntent
<1>7. CASE RotateMode(p)
  BY <1>1, <1>7, PutTypes DEF RotateMode, TypeOK
<1>8. CASE RotateLease(p)
  BY <1>1, <1>8, PutTypes DEF RotateLease, TypeOK
<1> QED
  BY <1>2, <1>3, <1>4, <1>5, <1>6, <1>7, <1>8

LEMMA ClearIntentTypes ==
  ASSUME TypeOK, NEW p \in Proc, ClearIntent(p)
  PROVE  TypeOK'
<1>1. rec' \in [Key -> Record]
  BY NothingType DEF ClearIntent, TypeOK, NoRecord, Record
<1>2. job' \in [Proc -> Job] /\ faults' \in Nat
  <2>1. job' = job \/ job' = [job EXCEPT ![p] = "done"]
    BY DEF ClearIntent
  <2>2. faults' = faults \/ faults' = faults + 1
    BY DEF ClearIntent
  <2> QED  BY <2>1, <2>2 DEF TypeOK, Job
<1>3. \A q \in Proc : IF pc'[q] = "out" THEN job'[q] = "none" ELSE holder' = q
  BY DEF ClearIntent, TypeOK, Job
<1> QED
  BY <1>1, <1>2, <1>3 DEF ClearIntent, TypeOK, Applying

LEMMA StutterTypes == TypeOK /\ UNCHANGED vars => TypeOK'
BY DEF TypeOK, vars, Applying

LEMMA StepTypes == TypeOK /\ [Next]_vars => TypeOK'
BY EntryTypes, EnsureTypes, BeginTypes, ApplyTypes, CommitTypes,
   ModeWriteTypes, ClearIntentTypes, StutterTypes DEF Next

\* The store, the coordinator and every process keep their types, and nobody
\* but the holder of the exclusive entry is inside it (withProtectedEntry).
THEOREM TypeCorrect == Spec => []TypeOK
BY InitTypes, StepTypes, PTL DEF Spec

-----------------------------------------------------------------------------
(* A redo never conflicts.                                                 *)

LEMMA TargetFacts ==
  ASSUME TypeOK
  PROVE  /\ Len(Targets) \in 1..4
         /\ \A i \in 1..Len(Targets) : Targets[i] \in Key
         /\ \A i, j \in 1..Len(Targets) : Targets[i] = Targets[j] => i = j
         /\ ~Finalizing /\ Applying =>
              \A i \in 1..Len(Targets) : Targets[i] \in PlanKey
<1>1. coord.kind \in TxnKind \cup {"none"}
  BY DEF TypeOK, Coordinator
<1> QED
  BY <1>1, RolesFacts DEF Targets, Finalizing

\* Everybody but the process in the entry is out of the store.
LEMMA OnlyHolder ==
  ASSUME TypeOK, NEW p \in Proc, pc[p] # "out", NEW q \in Proc, q # p
  PROVE  pc[q] = "out" /\ job[q] = "none"
BY DEF TypeOK

\* What a target looks like depends on its record and the descriptor only.
LEMMA TargetFrame ==
  ASSUME NEW key \in Key, rec'[key] = rec[key], UNCHANGED coord
  PROVE  /\ AlreadyApplied(key)' = AlreadyApplied(key)
         /\ ExpectationMatches(key)' = ExpectationMatches(key)
BY DEF AlreadyApplied, ExpectationMatches

LEMMA InitRedo == Init => RedoInvariant
<1> SUFFICES ASSUME Init PROVE RedoInvariant
  OBVIOUS
<1>1. ~Applying
  BY DEF Init, Applying, NoCoordinator
<1> QED
  BY <1>1, InitTypes DEF Init, RedoInvariant, AbsentIsEmpty, NoRecord, Finalizing,
       ModeEntryIsAdmitted, ClosingSeesRecords, PassedIsApplied, RedoNeverConflicts

\* Steps that write no record: the descriptor and its targets stand.
LEMMA EntryRedo ==
  ASSUME RedoInvariant, NEW p \in Proc,
         \/ \E purpose \in {"session", "mode"} : Enter(p, purpose)
         \/ Leave(p) \/ Crash(p) \/ WriteFails(p) \/ Admit(p) \/ Redo(p)
         \/ RefuseArm(p) \/ ReadProduction(p)
  PROVE  RedoInvariant'
<1>1. TypeOK /\ TypeOK'
  BY EntryTypes DEF RedoInvariant
<1>2. UNCHANGED <<rec, coord>>
  BY DEF Enter, Leave, Crash, WriteFails, Admit, Redo, RefuseArm, ReadProduction
<1>3. AbsentIsEmpty' /\ RedoNeverConflicts'
  BY <1>2 DEF RedoInvariant, AbsentIsEmpty, RedoNeverConflicts, Applying, Targets,
              AlreadyApplied, ExpectationMatches
<1>4. ModeEntryIsAdmitted' /\ ClosingSeesRecords'
  BY <1>1, <1>2 DEF RedoInvariant, TypeOK, ModeEntryIsAdmitted, Finalizing,
       Applying, ClosingSeesRecords, ProductionRecords, Enter, Leave, Crash,
       WriteFails, Admit, Redo, RefuseArm, ReadProduction, Coordinates, Job
<1>5. PassedIsApplied'
  <2>1. ASSUME NEW q \in Proc, pc'[q] = "apply"
        PROVE  \/ pc[q] = "apply" /\ next'[q] = next[q]
               \/ next'[q] = 1 /\ Applying
    BY <1>1, <2>1 DEF TypeOK, Enter, Leave, Crash, WriteFails, Admit, Redo,
                      RefuseArm, ReadProduction
  <2>2. Len(Targets) \in 1..4
    BY <1>1, TargetFacts
  <2> QED
    BY <1>2, <2>1, <2>2 DEF RedoInvariant, PassedIsApplied, Applying, Targets,
                            AlreadyApplied
<1> QED
  BY <1>1, <1>3, <1>4, <1>5 DEF RedoInvariant

LEMMA EnsureRedo ==
  ASSUME RedoInvariant, NEW p \in Proc, Ensure(p)
  PROVE  RedoInvariant'
<1>1. TypeOK'
  BY EnsureTypes DEF RedoInvariant
<1>2. ~Applying /\ ~Applying' /\ UNCHANGED <<rec, seen, job>>
  BY DEF Ensure, Applying, RedoInvariant, TypeOK, Coordinator
<1>3. \A q \in Proc : pc'[q] # "apply"
  BY <1>2 DEF Ensure, RedoInvariant, PassedIsApplied, TypeOK
<1> QED
  BY <1>1, <1>2, <1>3 DEF RedoInvariant, AbsentIsEmpty, ModeEntryIsAdmitted,
       Finalizing, ClosingSeesRecords, ProductionRecords, PassedIsApplied,
       RedoNeverConflicts

\* The Idle write leaves nothing to redo.
LEMMA CommitRedo ==
  ASSUME RedoInvariant, NEW p \in Proc, Commit(p)
  PROVE  RedoInvariant'
<1>1. TypeOK /\ TypeOK'
  BY CommitTypes DEF RedoInvariant
<1>2. ~Applying' /\ UNCHANGED <<rec, seen>> /\ coord'.st = "idle"
  BY DEF Commit, Applying, NoCoordinator
<1>3. \A q \in Proc : pc'[q] # "apply"
  BY <1>1, OnlyHolder DEF Commit, TypeOK
<1>4. \A q \in Proc : job'[q] = "close" => job[q] = "close"
  BY <1>1 DEF Commit, TypeOK
<1> QED
  BY <1>1, <1>2, <1>3, <1>4 DEF RedoInvariant, AbsentIsEmpty,
       ModeEntryIsAdmitted, Finalizing, ClosingSeesRecords, ProductionRecords,
       PassedIsApplied, RedoNeverConflicts

\* A fresh descriptor expects its targets exactly as they are.  The records a
\* finalization names exist: their contents are not Nothing.
LEMMA BeginRedo ==
  ASSUME RedoInvariant, NEW p \in Proc, NEW kind \in Kinds, Begin(p, kind)
  PROVE  RedoInvariant'
<1> DEFINE known == [key \in Key |-> Read(p, key).content]
           from == [key \in Key |->
                      IF key \in RolesOf(kind)
                        THEN [ver |-> Read(p, key).ver, content |-> known[key]]
                        ELSE Expectation[key]]
<1>1. TypeOK /\ TypeOK' /\ kind \in TxnKind
  BY BeginTypes, KindsAssumption DEF RedoInvariant
<1>2. \A key \in Key : Read(p, key) = rec[key]
  BY DEF Read, RedoInvariant, ClosingSeesRecords, ProductionRecords
<1>3. PICK op \in Payload, sess \in Payload :
        coord' = [ver |-> coord.ver + 1, st |-> "applying",
                  seq |-> coord.seq + 1, kind |-> kind, from |-> from,
                  to |-> Desired(kind, known, op, sess)]
  BY DEF Begin, Live
<1>4. UNCHANGED <<rec, seen>> /\ ~Applying /\ pc[p] = "in" /\ Applying'
  BY <1>3 DEF Begin, Live, Applying
<1>5. \A q \in Proc : q # p => pc'[q] = "out" /\ job'[q] = "none"
  BY <1>1, <1>4, OnlyHolder DEF Begin, Live, TypeOK
<1>6. ModeEntryIsAdmitted'
  <2>1. job'[p] # "close" /\ (job'[p] \in {"mode", "arm", "rotate"} => kind \notin Finalize)
    BY <1>1 DEF Begin, Live, Emits, TypeOK, Finalize
  <2>2. coord'.kind = kind
    BY <1>3
  <2> QED
    BY <1>5, <2>1, <2>2 DEF ModeEntryIsAdmitted, Finalizing
<1>7. ClosingSeesRecords'
  BY <1>1, <1>4, <1>5 DEF Begin, Live, TypeOK, ClosingSeesRecords
<1>8. PassedIsApplied'
  <2>1. next'[p] = 1 /\ Len(Targets') \in 1..4
    BY <1>1, <1>3, RolesFacts DEF Begin, Live, TypeOK, Targets
  <2> QED
    BY <1>4, <1>5, <2>1 DEF PassedIsApplied
<1>9. \A i \in 1..Len(Targets') : ExpectationMatches(Targets[i])'
  <2> SUFFICES ASSUME NEW i \in 1..Len(Targets')
               PROVE  ExpectationMatches(Targets[i])'
    OBVIOUS
  <2> DEFINE key == expectedRoles(kind)[i]
  <2>1. Targets' = expectedRoles(kind)
    BY <1>3 DEF Targets
  <2>2. key \in Key /\ key \in RolesOf(kind)
    BY <1>1, <2>1, RolesFacts DEF RolesOf
  <2>3. from[key] = [ver |-> rec[key].ver, content |-> rec[key].content]
    BY <1>2, <2>2
  <2>4. rec'[key].ver = coord'.from[key].ver
        /\ rec'[key].content = coord'.from[key].content
    BY <1>3, <1>4, <2>3
  <2>5. key \in ProductionKey => rec[key].ver > 0
    <3> SUFFICES ASSUME key \in ProductionKey PROVE rec[key].content # Nothing
      <4>1. TypeOK /\ (rec[key].ver = 0 => rec[key].content = Nothing)
        BY <1>1, <2>2 DEF RedoInvariant, AbsentIsEmpty
      <4>2. rec[key].ver \in Nat
        BY <2>2, <4>1 DEF TypeOK, Record
      <4> QED  BY <4>1, <4>2
    <3>1. kind \in Finalize
      BY <1>1, <2>1, RolesFacts DEF PlanKey, ProductionKey
    <3>2. key = "Intent" => kind = "FinalizeProductionProject"
      <4>1. kind = "FinalizeProductionPreEffect" =>
              expectedRoles(kind) = <<"Project", "Lease", "Mode">>
        BY DEF expectedRoles
      <4> QED  BY <1>1, <2>1, <3>1, <4>1 DEF Finalize
    <3>3. known[key] = rec[key].content
      BY <1>2, <2>2
    <3>4. Permitted(kind, known)
      BY DEF Begin, Live
    <3>5. known[key].state # "absent"
      BY <3>1, <3>2, <3>4 DEF Permitted, Finalize, ProductionKey
    <3> QED
      BY <3>3, <3>5 DEF Nothing, Plain
  <2> QED
    BY <1>4, <2>1, <2>4, <2>5 DEF ExpectationMatches
<1>10. RedoNeverConflicts'
  <2>1. Len(Targets') \in 1..4
    BY <1>1, <1>3, RolesFacts DEF Targets
  <2> SUFFICES \A i \in 1..Len(Targets') :
                 IF i <= 0 THEN AlreadyApplied(Targets[i])'
                           ELSE ExpectationMatches(Targets[i])'
    BY <2>1 DEF RedoNeverConflicts
  <2> QED  BY <1>9, <2>1
<1> QED
  BY <1>1, <1>4, <1>6, <1>7, <1>8, <1>10 DEF RedoInvariant, AbsentIsEmpty

\* A materialised target is applied.
LEMMA MaterializedIsApplied ==
  ASSUME TypeOK, NEW key \in Key, ExpectationMatches(key),
         rec' = [rec EXCEPT ![key] = Materialized(key)], UNCHANGED coord
  PROVE  AlreadyApplied(key)'
<1>1. rec'[key] = Materialized(key)
  BY DEF TypeOK
<1> QED
  BY <1>1 DEF AlreadyApplied, Materialized, ExpectationMatches, Successor, NoRecord

LEMMA ApplyRedo ==
  ASSUME RedoInvariant, NEW p \in Proc, Apply(p)
  PROVE  RedoInvariant'
<1>1. TypeOK /\ TypeOK'
  BY ApplyTypes DEF RedoInvariant
<1>2. /\ pc[p] = "apply" /\ Applying /\ Applying' /\ UNCHANGED <<coord, seen>>
      /\ UNCHANGED Targets
  BY DEF Apply, RedoInvariant, PassedIsApplied, Applying, Targets
<1>3. PICK n \in 1..Len(Targets), key \in Key : n = next[p] /\ key = Targets[n]
  <2>1. next[p] \in 1..Len(Targets)
    BY <1>1, TargetFacts DEF Apply, TypeOK
  <2> QED  BY <1>1, <2>1, TargetFacts
<1>15. Len(Targets) \in 1..4
  BY <1>1, TargetFacts
<1>4. \A q \in Proc : q # p => pc[q] = "out" /\ pc'[q] = "out" /\ job'[q] = "none"
  BY <1>1, <1>2, OnlyHolder DEF Apply, TypeOK
<1>5. \A i \in 1..Len(Targets) : i < n => AlreadyApplied(Targets[i])
  BY <1>2, <1>3 DEF RedoInvariant, PassedIsApplied
<1>6. \/ rec' = rec
      \/ /\ ~AlreadyApplied(key) /\ ExpectationMatches(key)
         /\ rec' = [rec EXCEPT ![key] = Materialized(key)]
  BY <1>3 DEF Apply
<1>7. \A i \in 1..Len(Targets) : i # n => rec'[Targets[i]] = rec[Targets[i]]
  BY <1>1, <1>3, <1>6, TargetFacts DEF TypeOK
<1>8. \A i \in 1..Len(Targets) : i # n =>
        /\ AlreadyApplied(Targets[i])' = AlreadyApplied(Targets[i])
        /\ ExpectationMatches(Targets[i])' = ExpectationMatches(Targets[i])
  BY <1>1, <1>2, <1>7, TargetFrame, TargetFacts
<1>9. PICK done \in 0..Len(Targets) : \A i \in 1..Len(Targets) :
        IF i <= done THEN AlreadyApplied(Targets[i])
                     ELSE ExpectationMatches(Targets[i])
  BY <1>2 DEF RedoInvariant, RedoNeverConflicts
<1>10. RedoNeverConflicts'
  <2>1. CASE rec' = rec
    BY <1>2, <2>1 DEF RedoInvariant, RedoNeverConflicts, AlreadyApplied,
                      ExpectationMatches
  <2>2. CASE rec' # rec
    <3>1. ExpectationMatches(key) /\ ~AlreadyApplied(key) /\ AlreadyApplied(key)'
      BY <1>1, <1>2, <1>6, <2>2, MaterializedIsApplied
    <3>2. \A i \in 1..Len(Targets) :
            IF i <= n THEN AlreadyApplied(Targets[i])'
                      ELSE ExpectationMatches(Targets[i])'
      <4> SUFFICES ASSUME NEW i \in 1..Len(Targets)
                   PROVE  IF i <= n THEN AlreadyApplied(Targets[i])'
                                    ELSE ExpectationMatches(Targets[i])'
        OBVIOUS
      <4>1. CASE i = n
        BY <1>2, <1>3, <3>1, <4>1
      <4>2. CASE i < n
        BY <1>3, <1>5, <1>8, <4>2
      <4>3. CASE i > n
        <5>1. n > done
          BY <1>3, <1>9, <3>1
        <5> QED  BY <1>3, <1>8, <1>9, <4>3, <5>1
      <4> QED  BY <1>3, <4>1, <4>2, <4>3
    <3> QED
      BY <1>2, <1>15, <3>2 DEF RedoNeverConflicts
  <2> QED  BY <2>1, <2>2
<1>11. PassedIsApplied'
  <2> SUFFICES ASSUME pc'[p] = "apply"
               PROVE  /\ next'[p] <= Len(Targets) + 1
                      /\ \A i \in 1..Len(Targets) :
                           i < next'[p] => AlreadyApplied(Targets[i])'
    BY <1>2, <1>4 DEF PassedIsApplied
  <2>1. next'[p] = n + 1 /\ AlreadyApplied(key)'
    <3>1. next'[p] = n + 1
      BY <1>1, <1>3 DEF Apply, TypeOK
    <3>2. CASE rec' = rec
      <4>1. AlreadyApplied(key)
        <5>1. CASE AlreadyApplied(key)
          BY <5>1
        <5>2. CASE ~AlreadyApplied(key)
          <6>1. ExpectationMatches(key) /\ rec' = [rec EXCEPT ![key] = Materialized(key)]
            BY <1>1, <1>3, <5>2 DEF Apply, TypeOK
          <6>2. AlreadyApplied(key)'
            BY <1>1, <1>2, <6>1, MaterializedIsApplied
          <6> QED  BY <1>2, <3>2, <6>2 DEF AlreadyApplied
        <5> QED  BY <5>1, <5>2
      <4> QED  BY <1>2, <3>1, <3>2, <4>1 DEF AlreadyApplied
    <3>3. CASE rec' # rec
      BY <1>1, <1>2, <1>6, <3>1, <3>3, MaterializedIsApplied
    <3> QED  BY <3>1, <3>2, <3>3
  <2>2. next'[p] <= Len(Targets) + 1
    BY <1>3, <1>15, <2>1
  <2>3. ASSUME NEW i \in 1..Len(Targets), i < next'[p]
        PROVE  AlreadyApplied(Targets[i])'
    <3>1. CASE i = n
      BY <1>2, <1>3, <2>1, <3>1
    <3>2. CASE i < n
      BY <1>3, <1>5, <1>8, <3>2
    <3> QED  BY <1>3, <1>15, <2>1, <2>3, <3>1, <3>2
  <2> QED  BY <2>2, <2>3
<1>12. AbsentIsEmpty'
  <2>1. CASE rec' = rec
    BY <2>1 DEF RedoInvariant, AbsentIsEmpty
  <2>2. CASE rec' # rec
    <3>1. rec' = [rec EXCEPT ![key] = Materialized(key)]
      BY <1>6, <2>2
    <3>2. Materialized(key).ver = 0 => Materialized(key).content = Nothing
      BY <1>1, <1>3 DEF Materialized, Successor, NoRecord, TypeOK, Record
    <3> QED
      BY <1>1, <1>3, <3>1, <3>2 DEF RedoInvariant, AbsentIsEmpty, TypeOK
  <2> QED  BY <2>1, <2>2
<1>13. ModeEntryIsAdmitted'
  <2>1. pc'[p] = "in" => job'[p] = "done"
    BY <1>1 DEF Apply, TypeOK
  <2>2. job'[p] = "close" => job[p] = "close"
    BY <1>1 DEF Apply, TypeOK
  <2> QED
    BY <1>2, <1>4, <2>1, <2>2 DEF RedoInvariant, ModeEntryIsAdmitted, Finalizing
<1>14. ClosingSeesRecords'
  <2> SUFFICES ASSUME job'[p] = "close" PROVE seen'[p] = ProductionRecords'
    BY <1>4 DEF ClosingSeesRecords
  <2>1. job[p] = "close"
    BY <1>1 DEF Apply, TypeOK
  <2>2. \A i \in 1..Len(Targets) : Targets[i] \in PlanKey
    BY <1>1, <1>2, <2>1, TargetFacts DEF RedoInvariant, ModeEntryIsAdmitted
  <2>3. \A k \in ProductionKey : rec'[k] = rec[k]
    <3>1. key \notin ProductionKey
      BY <1>3, <2>2 DEF PlanKey, ProductionKey
    <3> QED  BY <1>1, <1>6, <3>1 DEF TypeOK, Key
  <2> QED
    BY <1>2, <2>1, <2>3 DEF RedoInvariant, ClosingSeesRecords, ProductionRecords
<1> QED
  BY <1>1, <1>10, <1>11, <1>12, <1>13, <1>14 DEF RedoInvariant

\* Mode writes a Production record only while no finalization is pending, so
\* it never touches a target.
LEMMA ModeWriteRedo ==
  ASSUME RedoInvariant, NEW p \in Proc,
         \/ TakeMode(p) \/ ArmLease(p) \/ BindLease(p) \/ RecordIntent(p)
         \/ CommitIntent(p) \/ RotateMode(p) \/ RotateLease(p) \/ ClearIntent(p)
  PROVE  RedoInvariant'
<1>1. TypeOK /\ TypeOK'
  BY ModeWriteTypes, ClearIntentTypes DEF RedoInvariant
<1>2. /\ pc[p] = "in" /\ job[p] \in {"mode", "arm", "rotate"}
      /\ UNCHANGED <<coord, seen, pc, next>>
      /\ \E j \in {"mode", "arm", "rotate", "done"} : job' = [job EXCEPT ![p] = j]
  <2>1. CASE ClearIntent(p)
    <3>1. job[p] = "arm" /\ (job' = job \/ job' = [job EXCEPT ![p] = "done"])
      BY <2>1 DEF ClearIntent
    <3>2. job' = job => job' = [job EXCEPT ![p] = "arm"]
      BY <1>1, <3>1 DEF TypeOK
    <3> QED  BY <2>1, <3>1, <3>2 DEF ClearIntent
  <2>2. CASE ~ClearIntent(p)
    BY <2>2 DEF TakeMode, ArmLease, BindLease, RecordIntent, CommitIntent,
                RotateMode, RotateLease, Put
  <2> QED  BY <2>1, <2>2
<1>3. ~Finalizing /\ ~Finalizing'
  BY <1>2 DEF RedoInvariant, ModeEntryIsAdmitted, Finalizing, Applying
<1>4. \E key \in ProductionKey, r \in Record :
        rec' = [rec EXCEPT ![key] = r] /\ (r.ver = 0 => r.content = Nothing)
  <2>1. CASE ClearIntent(p)
    <3>1. NoRecord \in Record /\ NoRecord.content = Nothing
      BY NothingType DEF NoRecord, Record
    <3>2. rec' = [rec EXCEPT !["Intent"] = NoRecord]
      BY <2>1 DEF ClearIntent
    <3> QED  BY <3>1, <3>2 DEF ProductionKey
  <2>2. CASE ~ClearIntent(p)
    <3>1. \E key \in ProductionKey, state \in State, gen \in Nat :
            rec' = [rec EXCEPT ![key] =
                      Successor(key, 0, [state |-> state, gen |-> gen])]
      <4>1. \A key \in ProductionKey : rec[key].content.gen \in Nat
        BY <1>1, ContentsTypes DEF Key
      <4>2. epoch \in Nat /\ epoch + 1 \in Nat
        BY <1>1 DEF TypeOK
      <4> USE ContentOfStates DEF Put, ProductionKey
      <4>3. CASE TakeMode(p)
        BY <4>2, <4>3 DEF TakeMode
      <4>4. CASE ArmLease(p)
        BY <4>1, <4>4 DEF ArmLease
      <4>5. CASE BindLease(p)
        BY <4>1, <4>5 DEF BindLease
      <4>6. CASE RecordIntent(p)
        BY <4>1, <4>6 DEF RecordIntent
      <4>7. CASE CommitIntent(p)
        BY <4>2, <4>7 DEF CommitIntent
      <4>8. CASE RotateMode(p)
        BY <4>1, <4>8 DEF RotateMode
      <4>9. CASE RotateLease(p)
        BY <4>1, <4>9 DEF RotateLease
      <4> QED
        BY <2>2, <4>3, <4>4, <4>5, <4>6, <4>7, <4>8, <4>9
    <3>2. PICK key \in ProductionKey, state \in State, gen \in Nat :
            rec' = [rec EXCEPT ![key] =
                      Successor(key, 0, [state |-> state, gen |-> gen])]
      BY <3>1
    <3>3. Successor(key, 0, [state |-> state, gen |-> gen]) \in Record
      BY <1>1, ContentOfStates DEF Successor, Record, TypeOK, Key
    <3>4. Successor(key, 0, [state |-> state, gen |-> gen]).ver # 0
      BY <1>1 DEF Successor, Record, TypeOK, Key
    <3> QED
      BY <3>2, <3>3, <3>4
  <2> QED  BY <2>1, <2>2
<1>5. AbsentIsEmpty'
  BY <1>1, <1>4 DEF RedoInvariant, AbsentIsEmpty, TypeOK, Record
<1>6. Applying => \A i \in 1..Len(Targets) : rec'[Targets[i]] = rec[Targets[i]]
  BY <1>1, <1>3, <1>4, TargetFacts DEF TypeOK, PlanKey, ProductionKey
<1>7. RedoNeverConflicts'
  <2> SUFFICES ASSUME Applying PROVE RedoNeverConflicts'
    BY <1>2 DEF RedoNeverConflicts, Applying
  <2>1. \A i \in 1..Len(Targets) :
          /\ AlreadyApplied(Targets[i])' = AlreadyApplied(Targets[i])
          /\ ExpectationMatches(Targets[i])' = ExpectationMatches(Targets[i])
    BY <1>1, <1>2, <1>6, TargetFacts, TargetFrame DEF Targets
  <2> QED
    BY <1>2, <2>1 DEF RedoInvariant, RedoNeverConflicts, Applying, Targets
<1>8. PassedIsApplied' /\ ModeEntryIsAdmitted' /\ ClosingSeesRecords'
  <2>1. \A q \in Proc : q # p => pc[q] = "out" /\ job[q] = "none"
    BY <1>1, <1>2, OnlyHolder
  <2>2. \A q \in Proc : pc'[q] # "apply" /\ job'[q] # "close"
    BY <1>1, <1>2, <2>1 DEF TypeOK
  <2> QED
    BY <1>3, <2>2 DEF PassedIsApplied, ModeEntryIsAdmitted, ClosingSeesRecords
<1> QED
  BY <1>1, <1>5, <1>7, <1>8 DEF RedoInvariant

LEMMA StutterRedo == RedoInvariant /\ UNCHANGED vars => RedoInvariant'
BY StutterTypes DEF vars, RedoInvariant, AbsentIsEmpty, ModeEntryIsAdmitted,
   ClosingSeesRecords, PassedIsApplied, RedoNeverConflicts, ProductionRecords,
   Finalizing, Applying, Targets, AlreadyApplied, ExpectationMatches

LEMMA StepRedo == RedoInvariant /\ [Next]_vars => RedoInvariant'
BY EntryRedo, EnsureRedo, BeginRedo, ApplyRedo, CommitRedo, ModeWriteRedo,
   StutterRedo DEF Next

THEOREM RedoInvariantHolds == Spec => []RedoInvariant
BY InitRedo, StepRedo, PTL DEF Spec

\* Wherever a process died inside a transaction, whoever redoes its descriptor
\* never meets a target conflict (recoverApplying, applyTarget).
THEOREM NoConflict == Spec => []RedoNeverConflicts
<1>1. RedoInvariant => RedoNeverConflicts
  BY DEF RedoInvariant
<1> QED
  BY <1>1, RedoInvariantHolds, PTL
-----------------------------------------------------------------------------
(* What a permit, a descriptor and an absent mode are worth.               *)

StateOf(key) == rec[key].content.state

\* A permit is never ahead of the coordinator, and the live one was issued on
\* the plan's records as they are.
PermitsAreCurrent ==
  /\ coord.st = "absent" <=> coord.ver = 0
  /\ \A p \in Proc :
       /\ permit[p] <= coord.ver
       /\ coord.st = "idle" /\ permit[p] = coord.ver => basis[p] = PlanContents

\* A finalization gives up the mode and closes the lease, at the intent's
\* generation if there is one.
DescriptorIsSound ==
  Applying =>
    /\ coord.to["Mode"] = Nothing
    /\ coord.kind \in Finalize => coord.to["Lease"].state = "closed"
    /\ coord.kind = "FinalizeProductionProject" =>
         /\ coord.to["Project"] = Plain("closed")
         /\ coord.to["Intent"].state = "terminal"
         /\ coord.to["Lease"].gen = coord.to["Intent"].gen
    /\ coord.kind = "FinalizeProductionPreEffect" =>
         StateOf("Intent") \notin {"pending", "committed", "terminal"}

\* A process about to arm a lease holds the mode and keeps its entry; no destroy
\* is on its way.
ArmingHoldsMode ==
  \A p \in Proc : job[p] = "arm" =>
    ~Finalizing /\ StateOf("Mode") = "held" /\ Armable(Contents)

\* A destroy is on its way only over a bound lease, and a lease that is not
\* closed has its mode.
LeaseLedgers ==
  /\ StateOf("Lease") # "bound" => StateOf("Intent") \notin {"pending", "committed"}
  /\ rec["Mode"].ver = 0 => StateOf("Lease") \in {"absent", "closed"}

\* A terminal intent lies over the lease it closed; until somebody takes the mode
\* the journal is closed too, and no transaction touches it.
TerminalIsClosed ==
  ~Finalizing /\ StateOf("Intent") = "terminal" =>
    /\ rec["Lease"].content = [state |-> "closed", gen |-> rec["Intent"].content.gen]
    /\ rec["Mode"].ver = 0 =>
         /\ rec["Project"].content = Plain("closed")
         /\ Applying => coord.kind = "RebindSession"

AtomicInvariant ==
  /\ RedoInvariant
  /\ PermitsAreCurrent /\ DescriptorIsSound /\ ArmingHoldsMode
  /\ LeaseLedgers /\ TerminalIsClosed

-----------------------------------------------------------------------------
(* What the steps do to the records.                                         *)

\* The writes of Mode other than the clearing of an intent.
ModeWrite(p) ==
  \/ TakeMode(p) \/ ArmLease(p) \/ BindLease(p) \/ RecordIntent(p)
  \/ CommitIntent(p) \/ RotateMode(p) \/ RotateLease(p)

\* The steps that write neither the coordinator nor a record.
Bookkeeping(p) ==
  \/ \E purpose \in {"session", "mode"} : Enter(p, purpose)
  \/ Leave(p) \/ Crash(p) \/ WriteFails(p) \/ Admit(p) \/ Redo(p)
  \/ RefuseArm(p) \/ ReadProduction(p)

\* Next, by groups of steps.
LEMMA Steps ==
  ASSUME [Next]_vars
  PROVE  \/ \E p \in Proc :
              \/ Bookkeeping(p) \/ Ensure(p) \/ (\E kind \in Kinds : Begin(p, kind))
              \/ Apply(p) \/ Commit(p) \/ ModeWrite(p) \/ ClearIntent(p)
         \/ UNCHANGED vars
BY DEF Next, Bookkeeping, ModeWrite

\* One write of a Production record.
LEMMA PutEffects ==
  ASSUME TypeOK, NEW p \in Proc, NEW key \in ProductionKey, NEW state, NEW gen, NEW then,
         Put(p, key, state, gen, then)
  PROVE  /\ rec'[key].content = [state |-> state, gen |-> gen] /\ rec'[key].ver > 0
         /\ \A k \in Key \ {key} : rec'[k] = rec[k]
         /\ UNCHANGED <<coord, permit, basis, pc>>
         /\ \A q \in Proc \ {p} : job'[q] = job[q]
         /\ job'[p] \in {then, "done"}
<1>1. key \in Key
  BY DEF Key
<1>2. rec' = [rec EXCEPT ![key] = Successor(key, 0, [state |-> state, gen |-> gen])]
  BY DEF Put
<1>3. rec'[key] = Successor(key, 0, [state |-> state, gen |-> gen])
  BY <1>1, <1>2 DEF TypeOK
<1>4. rec[key].ver \in Nat
  BY <1>1 DEF TypeOK, Record
<1>5. rec'[key].content = [state |-> state, gen |-> gen] /\ rec'[key].ver > 0
  BY <1>3, <1>4 DEF Successor
<1>6. \A k \in Key \ {key} : rec'[k] = rec[k]
  BY <1>2 DEF TypeOK
<1>7. job' = [job EXCEPT ![p] = then] \/ job' = [job EXCEPT ![p] = "done"]
  BY DEF Put
<1> QED  BY <1>5, <1>6, <1>7 DEF Put, TypeOK

\* The same, key by key.
LEMMA PutRecords ==
  ASSUME TypeOK, NEW p \in Proc, NEW state, NEW gen, NEW then
  PROVE  /\ Put(p, "Mode", state, gen, then) =>
              /\ rec'["Mode"].content = [state |-> state, gen |-> gen] /\ rec'["Mode"].ver > 0
              /\ rec'["Lease"] = rec["Lease"] /\ rec'["Intent"] = rec["Intent"]
         /\ Put(p, "Lease", state, gen, then) =>
              /\ rec'["Lease"].content = [state |-> state, gen |-> gen]
              /\ rec'["Mode"] = rec["Mode"] /\ rec'["Intent"] = rec["Intent"]
         /\ Put(p, "Intent", state, gen, then) =>
              /\ rec'["Intent"].content = [state |-> state, gen |-> gen]
              /\ rec'["Mode"] = rec["Mode"] /\ rec'["Lease"] = rec["Lease"]
<1>1. "Mode" \in ProductionKey /\ "Lease" \in ProductionKey /\ "Intent" \in ProductionKey
  BY DEF ProductionKey
<1>2. /\ "Mode" \in Key \ {"Lease"} /\ "Mode" \in Key \ {"Intent"}
      /\ "Lease" \in Key \ {"Mode"} /\ "Lease" \in Key \ {"Intent"}
      /\ "Intent" \in Key \ {"Mode"} /\ "Intent" \in Key \ {"Lease"}
  BY DEF Key, ProductionKey
<1>3. ASSUME Put(p, "Mode", state, gen, then)
      PROVE  /\ rec'["Mode"].content = [state |-> state, gen |-> gen] /\ rec'["Mode"].ver > 0
             /\ rec'["Lease"] = rec["Lease"] /\ rec'["Intent"] = rec["Intent"]
  BY <1>1, <1>2, <1>3, PutEffects
<1>4. ASSUME Put(p, "Lease", state, gen, then)
      PROVE  /\ rec'["Lease"].content = [state |-> state, gen |-> gen]
             /\ rec'["Mode"] = rec["Mode"] /\ rec'["Intent"] = rec["Intent"]
  BY <1>1, <1>2, <1>4, PutEffects
<1>5. ASSUME Put(p, "Intent", state, gen, then)
      PROVE  /\ rec'["Intent"].content = [state |-> state, gen |-> gen]
             /\ rec'["Mode"] = rec["Mode"] /\ rec'["Lease"] = rec["Lease"]
  BY <1>1, <1>2, <1>5, PutEffects
<1> QED  BY <1>3, <1>4, <1>5

\* Mode writes are made by an admitted entry: no finalization is pending, so
\* what the records mean is what they say.
LEMMA ModeEntry ==
  ASSUME AtomicInvariant, NEW p \in Proc, ModeWrite(p) \/ ClearIntent(p)
  PROVE  /\ TypeOK /\ pc[p] = "in" /\ ~Finalizing
         /\ \A key \in ProductionKey : key \in Key /\ Logical[key] = rec[key].content
<1>1. TypeOK /\ ModeEntryIsAdmitted
  BY DEF AtomicInvariant, RedoInvariant
<1>2. pc[p] = "in" /\ job[p] \in {"mode", "arm", "rotate"}
  BY DEF ModeWrite, ClearIntent, TakeMode, ArmLease, BindLease, RecordIntent, CommitIntent,
         RotateMode, RotateLease
<1>3. ~Finalizing
  BY <1>1, <1>2 DEF ModeEntryIsAdmitted
<1>4. \A key \in ProductionKey : Applying => key \notin RolesOf(coord.kind)
  <2> SUFFICES ASSUME NEW key \in ProductionKey, Applying PROVE key \notin RolesOf(coord.kind)
    OBVIOUS
  <2>1. \A i \in 1..Len(Targets) : Targets[i] \in PlanKey
    BY <1>1, <1>3, TargetFacts
  <2> QED  BY <2>1 DEF RolesOf, Targets, PlanKey, ProductionKey
<1> QED  BY <1>1, <1>2, <1>3, <1>4 DEF Logical, Key

\* A step of Apply writes at most the record of one target, which it materialises.
LEMMA ApplyEffects ==
  ASSUME AtomicInvariant, NEW p \in Proc, Apply(p)
  PROVE  /\ TypeOK /\ Applying /\ pc[p] = "apply"
         /\ UNCHANGED <<coord, permit, basis, seen, epoch>>
         /\ \A q \in Proc : job'[q] \in {job[q], "done"}
         /\ \E n \in 1 .. Len(Targets) :
              /\ n = next[p] /\ Targets[n] \in Key
              /\ \A i \in 1 .. Len(Targets) : i < n => AlreadyApplied(Targets[i])
              /\ \A k \in Key \ {Targets[n]} : rec'[k] = rec[k]
              /\ rec'[Targets[n]] # rec[Targets[n]] =>
                   rec'[Targets[n]] = Materialized(Targets[n])
<1>1. TypeOK /\ PassedIsApplied
  BY DEF AtomicInvariant, RedoInvariant
<1>2. pc[p] = "apply" /\ Applying /\ UNCHANGED <<coord, permit, basis, seen, epoch>>
  BY <1>1 DEF Apply, PassedIsApplied
<1>3. \A q \in Proc : job'[q] \in {job[q], "done"}
  BY <1>1 DEF Apply, TypeOK
<1>4. PICK n \in 1 .. Len(Targets) : n = next[p]
  BY <1>1, TargetFacts DEF Apply, TypeOK
<1>5. Targets[n] \in Key
  BY <1>1, TargetFacts
<1>6. \A i \in 1 .. Len(Targets) : i < n => AlreadyApplied(Targets[i])
  BY <1>1, <1>2, <1>4 DEF PassedIsApplied
<1>7. rec' = rec \/ rec' = [rec EXCEPT ![Targets[n]] = Materialized(Targets[n])]
  BY <1>4 DEF Apply
<1>8. /\ \A k \in Key \ {Targets[n]} : rec'[k] = rec[k]
      /\ rec'[Targets[n]] # rec[Targets[n]] => rec'[Targets[n]] = Materialized(Targets[n])
  BY <1>1, <1>5, <1>7 DEF TypeOK
<1> QED  BY <1>1, <1>2, <1>3, <1>4, <1>5, <1>6, <1>8

\* A process that has materialised every target leaves each as asked.
LEMMA CommitEffects ==
  ASSUME AtomicInvariant, NEW p \in Proc, Commit(p)
  PROVE  /\ TypeOK /\ Applying /\ pc[p] = "apply" /\ UNCHANGED <<rec, epoch>>
         /\ coord'.st = "idle" /\ coord'.ver = coord.ver + 1 /\ coord'.seq = coord.seq
         /\ \A q \in Proc : job'[q] \in {job[q], "done"}
         /\ \A i \in 1 .. Len(Targets) :
              rec[Targets[i]].content = coord.to[Targets[i]]
<1>1. TypeOK /\ PassedIsApplied /\ AbsentIsEmpty /\ DescriptorIsSound
  BY DEF AtomicInvariant, RedoInvariant
<1>2. pc[p] = "apply" /\ Applying /\ UNCHANGED <<rec, epoch>>
  BY <1>1 DEF Commit, PassedIsApplied
<1>3. coord'.st = "idle" /\ coord'.ver = coord.ver + 1 /\ coord'.seq = coord.seq
  BY DEF Commit, NoCoordinator
<1>4. \A q \in Proc : job'[q] \in {job[q], "done"}
  BY <1>1 DEF Commit, TypeOK
<1>5. ASSUME NEW i \in 1 .. Len(Targets)
      PROVE  rec[Targets[i]].content = coord.to[Targets[i]]
  <2>1. Len(Targets) \in 1 .. 4 /\ Targets[i] \in Key
    BY <1>1, TargetFacts
  <2>2. next[p] \in Nat /\ next[p] > Len(Targets)
    BY <1>1 DEF Commit, AllMaterialized, TypeOK
  <2>3. AlreadyApplied(Targets[i])
    BY <1>1, <1>2, <2>1, <2>2 DEF PassedIsApplied
  <2> QED  BY <1>1, <1>2, <2>1, <2>3 DEF AlreadyApplied, AbsentIsEmpty, DescriptorIsSound
<1> QED  BY <1>1, <1>2, <1>3, <1>4, <1>5

\* The descriptor a caller publishes, of records nobody wrote since it read them.
LEMMA BeginEffects ==
  ASSUME AtomicInvariant, NEW p \in Proc, NEW kind \in Kinds, Begin(p, kind)
  PROVE  /\ TypeOK /\ ~Applying /\ Live(p) /\ Emits(p, kind) /\ Permitted(kind, Contents)
         /\ pc[p] = "in" /\ kind \in TxnKind
         /\ UNCHANGED <<rec, permit, basis, epoch>>
         /\ \A q \in Proc : job'[q] \in {job[q], "done"}
         /\ Applying' /\ coord'.kind = kind
         /\ coord'.ver = coord.ver + 1 /\ coord'.seq = coord.seq + 1
         /\ \E op, sess \in Payload : coord'.to = Desired(kind, Contents, op, sess)
<1>1. TypeOK /\ ClosingSeesRecords /\ kind \in TxnKind
  BY KindsAssumption DEF AtomicInvariant, RedoInvariant
<1>2. \A key \in Key : Read(p, key) = rec[key]
  BY <1>1 DEF Read, ClosingSeesRecords, ProductionRecords
<1>3. [key \in Key |-> Read(p, key).content] = Contents
  BY <1>2 DEF Contents
<1>4. \A q \in Proc : job'[q] \in {job[q], "done"}
  BY <1>1 DEF Begin, TypeOK
<1>5. Permitted(kind, Contents)
  BY <1>3 DEF Begin
<1>6. /\ coord'.st = "applying" /\ coord'.kind = kind
      /\ coord'.ver = coord.ver + 1 /\ coord'.seq = coord.seq + 1
      /\ \E op, sess \in Payload : coord'.to = Desired(kind, Contents, op, sess)
  BY <1>3 DEF Begin
<1> QED  BY <1>1, <1>4, <1>5, <1>6 DEF Begin, Live, Applying

-----------------------------------------------------------------------------
(* The parts of the invariant.                                               *)

LEMMA InitAtomic == Init => AtomicInvariant
<1> SUFFICES ASSUME Init PROVE AtomicInvariant
  OBVIOUS
<1>1. RedoInvariant /\ ~Applying
  BY InitRedo DEF Init, Applying, NoCoordinator
<1>2. PermitsAreCurrent
  BY DEF Init, PermitsAreCurrent, NoCoordinator
<1>3. DescriptorIsSound /\ ArmingHoldsMode
  BY <1>1 DEF Init, DescriptorIsSound, ArmingHoldsMode
<1>4. \A key \in Key : StateOf(key) = "absent"
  BY DEF Init, StateOf, NoRecord, Nothing, Plain
<1>5. LeaseLedgers /\ TerminalIsClosed
  BY <1>4 DEF LeaseLedgers, TerminalIsClosed, Key, ProductionKey
<1> QED  BY <1>1, <1>2, <1>3, <1>5 DEF AtomicInvariant

LEMMA StutterAtomic == AtomicInvariant /\ UNCHANGED vars => AtomicInvariant'
BY StutterRedo DEF vars, AtomicInvariant, PermitsAreCurrent, PlanContents, DescriptorIsSound,
   StateOf, ArmingHoldsMode, Contents, LeaseLedgers, TerminalIsClosed, Finalizing, Applying

LEMMA RedoKept == AtomicInvariant /\ [Next]_vars => RedoInvariant'
BY StepRedo DEF AtomicInvariant

LEMMA PermitsStep ==
  ASSUME AtomicInvariant, [Next]_vars
  PROVE  PermitsAreCurrent'
<1>1. TypeOK /\ PermitsAreCurrent
  BY DEF AtomicInvariant, RedoInvariant
<1>2. coord.ver \in Nat /\ \A p \in Proc : permit[p] \in Nat
  BY <1>1 DEF TypeOK, Coordinator
<1>3. ASSUME NEW p \in Proc, Bookkeeping(p) PROVE PermitsAreCurrent'
  <2>1. UNCHANGED <<coord, rec>>
    BY <1>3 DEF Bookkeeping, Enter, Leave, Crash, WriteFails, Admit, Redo, RefuseArm,
                ReadProduction
  <2>2. \A q \in Proc : permit'[q] = 0 \/ (permit'[q] = permit[q] /\ basis'[q] = basis[q])
    BY <1>1, <1>3 DEF Bookkeeping, Enter, Leave, Crash, WriteFails, Admit, Redo, RefuseArm,
                      ReadProduction, TypeOK
  <2> QED  BY <1>1, <1>2, <2>1, <2>2 DEF PermitsAreCurrent, PlanContents
<1>4. ASSUME NEW p \in Proc, Ensure(p) PROVE PermitsAreCurrent'
  <2>1. /\ coord'.st = "idle" /\ coord'.ver > 0
        /\ IF coord.st = "absent" THEN coord.ver = 0 /\ coord'.ver = 1 ELSE coord' = coord
    <3>1. CASE coord.st = "absent"
      BY <1>1, <1>4, <3>1 DEF Ensure, TypeOK, Coordinator, PermitsAreCurrent
    <3>2. CASE coord.st # "absent"
      <4>1. coord.st = "idle" /\ coord' = coord
        BY <1>1, <1>4, <3>2 DEF Ensure, TypeOK, Coordinator, Applying
      <4> QED  BY <1>1, <1>2, <3>2, <4>1 DEF PermitsAreCurrent
    <3> QED  BY <3>1, <3>2
  <2>2. /\ permit'[p] = coord'.ver /\ basis'[p] = PlanContents
        /\ \A q \in Proc \ {p} : permit'[q] = permit[q] /\ basis'[q] = basis[q]
    BY <1>1, <1>4 DEF Ensure, Issue, TypeOK
  <2>3. PlanContents' = PlanContents
    BY <1>4 DEF Ensure, PlanContents
  <2>4. ASSUME NEW q \in Proc
        PROVE  /\ permit'[q] <= coord'.ver
               /\ permit'[q] = coord'.ver => basis'[q] = PlanContents
    <3>1. CASE q = p
      BY <1>1, <2>1, <2>2, <3>1, <1>2
    <3>2. CASE q # p
      BY <1>1, <1>2, <2>1, <2>2, <3>2 DEF PermitsAreCurrent
    <3> QED  BY <3>1, <3>2
  <2> QED  BY <2>1, <2>3, <2>4 DEF PermitsAreCurrent
<1>5. ASSUME NEW p \in Proc, NEW kind \in Kinds, Begin(p, kind) PROVE PermitsAreCurrent'
  <2>1. coord'.st = "applying" /\ coord'.ver = coord.ver + 1 /\ UNCHANGED permit
    BY <1>5, BeginEffects DEF Applying
  <2> QED  BY <1>1, <1>2, <2>1 DEF PermitsAreCurrent
<1>6. ASSUME NEW p \in Proc, Apply(p) PROVE PermitsAreCurrent'
  BY <1>1, <1>6, ApplyEffects DEF PermitsAreCurrent, Applying
<1>7. ASSUME NEW p \in Proc, Commit(p) PROVE PermitsAreCurrent'
  <2>1. coord'.st = "idle" /\ coord'.ver = coord.ver + 1 /\ PlanContents' = PlanContents
    BY <1>7, CommitEffects DEF PlanContents
  <2>2. \A q \in Proc :
          permit'[q] = permit[q] \/ (permit'[q] = coord'.ver /\ basis'[q] = PlanContents)
    BY <1>1, <1>7 DEF Commit, Issue, TypeOK
  <2>3. ASSUME NEW q \in Proc
        PROVE  /\ permit'[q] <= coord'.ver
               /\ permit'[q] = coord'.ver => basis'[q] = PlanContents
    BY <1>1, <1>2, <2>1, <2>2 DEF PermitsAreCurrent
  <2> QED  BY <1>2, <2>1, <2>3 DEF PermitsAreCurrent
<1>8. ASSUME NEW p \in Proc, ModeWrite(p) \/ ClearIntent(p) PROVE PermitsAreCurrent'
  <2>1. UNCHANGED <<coord, permit, basis>> /\ \A k \in PlanKey : rec'[k] = rec[k]
    BY <1>1, <1>8 DEF ModeWrite, TakeMode, ArmLease, BindLease, RecordIntent, CommitIntent,
         RotateMode, RotateLease, Put, ClearIntent, TypeOK, PlanKey, ProductionKey, Key
  <2> QED  BY <1>1, <2>1 DEF PermitsAreCurrent, PlanContents
<1> QED  BY <1>3, <1>4, <1>5, <1>6, <1>7, <1>8, Steps, StutterAtomic DEF AtomicInvariant

\* The targets of the kinds that matter here.
LEMMA KindTargets ==
  /\ expectedRoles("FinalizeProductionProject") = <<"Project", "Intent", "Lease", "Mode">>
  /\ expectedRoles("FinalizeProductionPreEffect") = <<"Project", "Lease", "Mode">>
  /\ expectedRoles("RebindSession") = <<"Session">>
BY DEF expectedRoles

LEMMA DescriptorStep ==
  ASSUME AtomicInvariant, [Next]_vars
  PROVE  DescriptorIsSound'
<1>1. TypeOK /\ DescriptorIsSound /\ LeaseLedgers /\ TerminalIsClosed
  BY DEF AtomicInvariant, RedoInvariant
<1>2. ASSUME NEW p \in Proc, Bookkeeping(p) PROVE DescriptorIsSound'
  <2>1. UNCHANGED <<coord, rec>>
    BY <1>2 DEF Bookkeeping, Enter, Leave, Crash, WriteFails, Admit, Redo, RefuseArm,
                ReadProduction
  <2> QED  BY <1>1, <2>1 DEF DescriptorIsSound, Applying, StateOf
<1>3. ASSUME NEW p \in Proc, Ensure(p) \/ Commit(p) PROVE DescriptorIsSound'
  <2>1. ~Applying'
    BY <1>1, <1>3, CommitEffects DEF Ensure, Applying, TypeOK, Coordinator
  <2> QED  BY <2>1 DEF DescriptorIsSound
<1>4. ASSUME NEW p \in Proc, NEW kind \in Kinds, Begin(p, kind) PROVE DescriptorIsSound'
  <2>1. /\ ~Applying /\ kind \in TxnKind /\ Permitted(kind, Contents) /\ UNCHANGED rec
        /\ coord'.kind = kind
    BY <1>4, BeginEffects
  <2>2. PICK op \in Payload, sess \in Payload : coord'.to = Desired(kind, Contents, op, sess)
    BY <1>4, BeginEffects
  <2>3. coord'.to["Mode"] = Nothing
    BY <2>2 DEF Desired, Key, ProductionKey
  <2>4. CASE kind = "FinalizeProductionProject"
    <3>1. {"Project", "Intent", "Lease"} \subseteq RolesOf(kind)
      <4>1. expectedRoles(kind)[1] = "Project" /\ expectedRoles(kind)[2] = "Intent"
            /\ expectedRoles(kind)[3] = "Lease" /\ Len(expectedRoles(kind)) = 4
        BY <2>4, KindTargets
      <4> QED  BY <4>1 DEF RolesOf
    <3>2. /\ coord'.to["Project"] = Plain("closed")
          /\ coord'.to["Intent"] = [Contents["Intent"] EXCEPT !.state = "terminal"]
          /\ coord'.to["Lease"] = [Contents["Lease"] EXCEPT !.state = "closed"]
      BY <2>2, <2>4, <3>1 DEF Desired, Key, PlanKey, ProductionKey, JournalAfter
    <3>3. Contents["Lease"].gen = Contents["Intent"].gen
      BY <2>1, <2>4 DEF Permitted
    <3>4. Contents["Lease"] \in Content /\ Contents["Intent"] \in Content
      BY <1>1, ContentsTypes DEF Key, ProductionKey
    <3> QED  BY <2>1, <2>3, <2>4, <3>2, <3>3, <3>4 DEF DescriptorIsSound, Content
  <2>5. CASE kind = "FinalizeProductionPreEffect"
    <3>1. "Lease" \in RolesOf(kind)
      <4>1. expectedRoles(kind)[2] = "Lease" /\ Len(expectedRoles(kind)) = 3
        BY <2>5, KindTargets
      <4> QED  BY <4>1 DEF RolesOf
    <3>2. coord'.to["Lease"] = [Contents["Lease"] EXCEPT !.state = "closed"]
      BY <2>2, <2>5, <3>1 DEF Desired, Key, ProductionKey
    <3>3. Contents["Lease"] \in Content
      BY <1>1, ContentsTypes DEF Key, ProductionKey
    <3>4. StateOf("Lease") = "unbound"
      BY <2>1, <2>5 DEF Permitted, Contents, StateOf, Key, ProductionKey
    <3>5. StateOf("Intent") \notin {"pending", "committed", "terminal"}
      BY <1>1, <2>1, <3>4 DEF LeaseLedgers, TerminalIsClosed, Finalizing, StateOf
    <3> QED  BY <2>1, <2>3, <2>5, <3>2, <3>3, <3>5 DEF DescriptorIsSound, Content, StateOf
  <2>6. CASE kind \notin Finalize
    BY <2>1, <2>3, <2>6 DEF DescriptorIsSound, Finalize
  <2> QED  BY <2>4, <2>5, <2>6 DEF Finalize
<1>5. ASSUME NEW p \in Proc, Apply(p) PROVE DescriptorIsSound'
  <2>1. ASSUME coord.kind = "FinalizeProductionPreEffect" PROVE rec'["Intent"] = rec["Intent"]
    <3>1. Targets = <<"Project", "Lease", "Mode">>
      BY <2>1, KindTargets DEF Targets
    <3>2. \A n \in 1 .. Len(Targets) : Targets[n] # "Intent"
      BY <3>1
    <3> QED  BY <1>5, <3>2, ApplyEffects DEF Key, ProductionKey
  <2> QED  BY <1>1, <1>5, <2>1, ApplyEffects DEF DescriptorIsSound, Applying, StateOf
<1>6. ASSUME NEW p \in Proc, ModeWrite(p) \/ ClearIntent(p) PROVE DescriptorIsSound'
  <2>1. UNCHANGED coord /\ ~Finalizing
    BY <1>6, ModeEntry DEF ModeWrite, TakeMode, ArmLease, BindLease, RecordIntent, CommitIntent,
         RotateMode, RotateLease, Put, ClearIntent
  <2> QED  BY <1>1, <2>1 DEF DescriptorIsSound, Finalizing, Finalize, Applying
<1> QED  BY <1>2, <1>3, <1>4, <1>5, <1>6, Steps, StutterAtomic DEF AtomicInvariant

LEMMA ArmingStep ==
  ASSUME AtomicInvariant, [Next]_vars
  PROVE  ArmingHoldsMode'
<1>1. TypeOK /\ ArmingHoldsMode
  BY DEF AtomicInvariant, RedoInvariant
<1>2. ASSUME NEW p \in Proc, Bookkeeping(p) PROVE ArmingHoldsMode'
  <2>1. UNCHANGED <<coord, rec>>
    BY <1>2 DEF Bookkeeping, Enter, Leave, Crash, WriteFails, Admit, Redo, RefuseArm,
                ReadProduction
  <2>2. \A q \in Proc : job'[q] = "arm" => job[q] = "arm"
    BY <1>1, <1>2 DEF Bookkeeping, Enter, Leave, Crash, WriteFails, Admit, Redo, RefuseArm,
                      ReadProduction, TypeOK
  <2> QED  BY <1>1, <2>1, <2>2 DEF ArmingHoldsMode, Finalizing, Applying, StateOf, Contents
<1>3. ASSUME NEW p \in Proc, Ensure(p) \/ Commit(p) PROVE ArmingHoldsMode'
  <2>1. ~Applying' /\ UNCHANGED rec /\ \A q \in Proc : job'[q] = "arm" => job[q] = "arm"
    BY <1>1, <1>3, CommitEffects DEF Ensure, Applying, TypeOK, Coordinator
  <2> QED  BY <1>1, <2>1 DEF ArmingHoldsMode, Finalizing, StateOf, Contents
<1>4. ASSUME NEW p \in Proc, NEW kind \in Kinds, Begin(p, kind) PROVE ArmingHoldsMode'
  <2>1. /\ coord'.kind = kind /\ UNCHANGED rec /\ Emits(p, kind) /\ pc[p] = "in"
        /\ \A q \in Proc : job'[q] = "arm" => job[q] = "arm"
    BY <1>4, BeginEffects
  <2>2. ASSUME NEW q \in Proc, job[q] = "arm" PROVE kind \notin Finalize
    <3>1. q = p
      BY <1>1, <2>1, <2>2, OnlyHolder
    <3> QED  BY <2>1, <2>2, <3>1 DEF Emits, Finalize
  <2> QED  BY <1>1, <2>1, <2>2 DEF ArmingHoldsMode, Finalizing, StateOf, Contents
<1>5. ASSUME NEW p \in Proc, Apply(p) PROVE ArmingHoldsMode'
  <2>1. Applying /\ UNCHANGED coord /\ \A q \in Proc : job'[q] = "arm" => job[q] = "arm"
    BY <1>5, ApplyEffects
  <2>2. ASSUME ~Finalizing PROVE \A k \in ProductionKey : rec'[k] = rec[k]
    <3>1. \A n \in 1 .. Len(Targets) : Targets[n] \notin ProductionKey
      BY <1>1, <2>1, <2>2, TargetFacts DEF PlanKey, ProductionKey
    <3> QED  BY <1>5, <3>1, ApplyEffects DEF Key
  <2>3. ASSUME NEW q \in Proc, job'[q] = "arm"
        PROVE  ~Finalizing' /\ StateOf("Mode")' = "held" /\ Armable(Contents')
    <3>1. ~Finalizing /\ StateOf("Mode") = "held" /\ Armable(Contents)
      BY <1>1, <2>1, <2>3 DEF ArmingHoldsMode
    <3> QED  BY <2>1, <2>2, <3>1 DEF Finalizing, Applying, StateOf, Armable, Contents, Key,
                                     ProductionKey
  <2> QED  BY <2>3 DEF ArmingHoldsMode, Armable
<1>6. ASSUME NEW p \in Proc, ModeWrite(p) \/ ClearIntent(p) PROVE ArmingHoldsMode'
  <2>1. UNCHANGED coord /\ ~Finalizing /\ pc[p] = "in"
    BY <1>6, ModeEntry DEF ModeWrite, TakeMode, ArmLease, BindLease, RecordIntent, CommitIntent,
         RotateMode, RotateLease, Put, ClearIntent
  <2>2. ~Finalizing'
    BY <2>1 DEF Finalizing, Applying
  <2>3. \A q \in Proc \ {p} : job'[q] # "arm"
    <3>1. \A q \in Proc \ {p} : job'[q] = job[q]
      BY <1>1, <1>6 DEF ModeWrite, TakeMode, ArmLease, BindLease, RecordIntent, CommitIntent,
           RotateMode, RotateLease, Put, ClearIntent, TypeOK
    <3> QED  BY <1>1, <2>1, <3>1, OnlyHolder
  <2>4. CASE TakeMode(p)
    <3>1. rec'["Mode"].content.state = "held" /\ rec'["Lease"] = rec["Lease"]
      <4>1. Put(p, "Mode", "held", epoch', "arm")
        BY <2>4 DEF TakeMode
      <4>2. rec'["Mode"].content = [state |-> "held", gen |-> epoch'] /\ rec'["Lease"] = rec["Lease"]
        BY <1>1, <4>1, PutRecords
      <4> QED  BY <4>2
    <3>2. Armable(Contents)
      BY <2>4 DEF TakeMode
    <3> QED  BY <2>2, <2>3, <3>1, <3>2 DEF ArmingHoldsMode, StateOf, Armable, Contents, Key,
                                           ProductionKey
  <2>5. CASE ClearIntent(p)
    <3>1. /\ rec'["Mode"] = rec["Mode"] /\ rec'["Lease"] = rec["Lease"] /\ job[p] = "arm"
          /\ StateOf("Mode") = "held" /\ rec["Lease"].content.state = "closed"
      BY <1>1, <2>5 DEF ClearIntent, TypeOK, Key, ProductionKey, ArmingHoldsMode
    <3> QED  BY <2>2, <2>3, <3>1 DEF ArmingHoldsMode, StateOf, Armable, Contents, Key,
                                     ProductionKey
  <2>6. CASE ArmLease(p) \/ BindLease(p) \/ RecordIntent(p) \/ CommitIntent(p)
             \/ RotateMode(p) \/ RotateLease(p)
    <3>1. job'[p] # "arm"
      BY <1>1, <2>6 DEF ArmLease, BindLease, RecordIntent, CommitIntent, RotateMode,
           RotateLease, Put, TypeOK
    <3> QED  BY <2>3, <3>1 DEF ArmingHoldsMode
  <2> QED  BY <1>6, <2>4, <2>5, <2>6 DEF ModeWrite
<1> QED  BY <1>2, <1>3, <1>4, <1>5, <1>6, Steps, StutterAtomic DEF AtomicInvariant

\* What each write of Mode finds in the Production records, and what it leaves.
LEMMA ModeWrites ==
  ASSUME AtomicInvariant, NEW p \in Proc, ModeWrite(p) \/ ClearIntent(p)
  PROVE  \/ /\ TakeMode(p) /\ rec'["Mode"].ver > 0
            /\ rec'["Lease"] = rec["Lease"] /\ rec'["Intent"] = rec["Intent"]
         \/ /\ ArmLease(p) /\ StateOf("Lease") \in {"absent", "unbound", "closed"}
            /\ StateOf("Lease") = "closed" => rec["Intent"].content = Nothing
            /\ rec["Mode"].ver > 0 /\ rec'["Lease"].content.state = "unbound"
            /\ rec'["Mode"] = rec["Mode"] /\ rec'["Intent"] = rec["Intent"]
         \/ /\ BindLease(p) /\ StateOf("Lease") = "unbound"
            /\ rec'["Lease"].content.state = "bound"
            /\ rec'["Mode"] = rec["Mode"] /\ rec'["Intent"] = rec["Intent"]
         \/ /\ RecordIntent(p) \/ CommitIntent(p)
            /\ StateOf("Lease") = "bound" \/ StateOf("Intent") = "pending"
            /\ rec'["Intent"].content.state \in {"pending", "committed"}
            /\ rec'["Mode"] = rec["Mode"] /\ rec'["Lease"] = rec["Lease"]
         \/ /\ RotateMode(p) /\ StateOf("Intent") = "committed" /\ rec'["Mode"].ver > 0
            /\ rec'["Lease"] = rec["Lease"] /\ rec'["Intent"] = rec["Intent"]
         \/ /\ RotateLease(p) /\ StateOf("Intent") = "committed"
            /\ rec'["Lease"].content.state = "bound"
            /\ rec'["Mode"] = rec["Mode"] /\ rec'["Intent"] = rec["Intent"]
         \/ /\ ClearIntent(p) /\ rec'["Intent"].content.state = "absent"
            /\ rec'["Mode"] = rec["Mode"] /\ rec'["Lease"] = rec["Lease"]
<1>1. TypeOK /\ ArmingHoldsMode /\ AbsentIsEmpty
  BY DEF AtomicInvariant, RedoInvariant
<1> USE DEF StateOf
<1>2. CASE TakeMode(p)
  <2>1. Put(p, "Mode", "held", epoch', "arm")
    BY <1>2 DEF TakeMode
  <2> QED  BY <1>1, <1>2, <2>1, PutRecords
<1>3. CASE ArmLease(p)
  <2>1. Put(p, "Lease", "unbound", rec["Mode"].content.gen, "mode") /\ Rearmed(Contents)
        /\ job[p] = "arm"
    BY <1>3 DEF ArmLease
  <2>2. /\ rec'["Lease"].content.state = "unbound"
        /\ rec'["Mode"] = rec["Mode"] /\ rec'["Intent"] = rec["Intent"]
    <3>1. /\ rec'["Lease"].content = [state |-> "unbound", gen |-> rec["Mode"].content.gen]
          /\ rec'["Mode"] = rec["Mode"] /\ rec'["Intent"] = rec["Intent"]
      BY <1>1, <2>1, PutRecords
    <3> QED  BY <3>1
  <2>3. StateOf("Lease") \in {"absent", "unbound", "closed"} /\ StateOf("Mode") = "held"
    BY <1>1, <2>1 DEF ArmingHoldsMode, Armable, Contents, Key, ProductionKey
  <2>4. rec["Mode"].ver > 0
    <3>1. rec["Mode"].content # Nothing
      BY <2>3 DEF Nothing, Plain
    <3> QED  BY <1>1, <3>1 DEF AbsentIsEmpty, TypeOK, Record, Key, ProductionKey
  <2>5. StateOf("Lease") = "closed" => rec["Intent"].content = Nothing
    BY <2>1 DEF Rearmed, Contents, Key, ProductionKey
  <2> QED  BY <1>3, <2>2, <2>3, <2>4, <2>5
<1>4. CASE BindLease(p)
  <2>1. Put(p, "Lease", "bound", rec["Lease"].content.gen, "mode")
    BY <1>4 DEF BindLease
  <2>2. /\ rec'["Lease"].content = [state |-> "bound", gen |-> rec["Lease"].content.gen]
        /\ rec'["Mode"] = rec["Mode"] /\ rec'["Intent"] = rec["Intent"]
    BY <1>1, <2>1, PutRecords
  <2> QED  BY <1>4, <2>2 DEF BindLease
<1>5. CASE RecordIntent(p)
  <2>1. Put(p, "Intent", "pending", rec["Lease"].content.gen, "rotate")
    BY <1>5 DEF RecordIntent
  <2>2. /\ rec'["Intent"].content = [state |-> "pending", gen |-> rec["Lease"].content.gen]
        /\ rec'["Mode"] = rec["Mode"] /\ rec'["Lease"] = rec["Lease"]
    BY <1>1, <2>1, PutRecords
  <2> QED  BY <1>5, <2>2 DEF RecordIntent
<1>6. CASE CommitIntent(p)
  <2>1. Put(p, "Intent", "committed", epoch', "rotate")
    BY <1>6 DEF CommitIntent
  <2>2. /\ rec'["Intent"].content = [state |-> "committed", gen |-> epoch']
        /\ rec'["Mode"] = rec["Mode"] /\ rec'["Lease"] = rec["Lease"]
    BY <1>1, <2>1, PutRecords
  <2> QED  BY <1>6, <2>2 DEF CommitIntent
<1>7. CASE RotateMode(p)
  <2>1. Put(p, "Mode", "held", rec["Intent"].content.gen, "rotate")
    BY <1>7 DEF RotateMode
  <2> QED  BY <1>1, <1>7, <2>1, PutRecords DEF RotateMode
<1>8. CASE RotateLease(p)
  <2>1. Put(p, "Lease", "bound", rec["Intent"].content.gen, "mode")
    BY <1>8 DEF RotateLease
  <2>2. /\ rec'["Lease"].content = [state |-> "bound", gen |-> rec["Intent"].content.gen]
        /\ rec'["Mode"] = rec["Mode"] /\ rec'["Intent"] = rec["Intent"]
    BY <1>1, <2>1, PutRecords
  <2> QED  BY <1>8, <2>2 DEF RotateLease
<1>9. CASE ClearIntent(p)
  BY <1>1, <1>9 DEF ClearIntent, TypeOK, Key, ProductionKey, NoRecord, Nothing, Plain
<1> QED  BY <1>2, <1>3, <1>4, <1>5, <1>6, <1>7, <1>8, <1>9 DEF ModeWrite

LEMMA LedgersStep ==
  ASSUME AtomicInvariant, [Next]_vars
  PROVE  LeaseLedgers'
<1>1. TypeOK /\ LeaseLedgers /\ DescriptorIsSound
  BY DEF AtomicInvariant, RedoInvariant
<1>2. ASSUME UNCHANGED rec PROVE LeaseLedgers'
  BY <1>1, <1>2 DEF LeaseLedgers, StateOf
<1>3. ASSUME NEW p \in Proc,
             Bookkeeping(p) \/ Ensure(p) \/ Commit(p) \/ \E kind \in Kinds : Begin(p, kind)
      PROVE  LeaseLedgers'
  <2>1. UNCHANGED rec
    BY <1>3 DEF Bookkeeping, Enter, Leave, Crash, WriteFails, Admit, Redo, RefuseArm,
                ReadProduction, Ensure, Commit, Begin
  <2> QED  BY <1>2, <2>1
<1>4. ASSUME NEW p \in Proc, Apply(p) PROVE LeaseLedgers'
  <2>1. PICK n \in 1 .. Len(Targets) :
          /\ Targets[n] \in Key
          /\ \A i \in 1 .. Len(Targets) : i < n => AlreadyApplied(Targets[i])
          /\ \A k \in Key \ {Targets[n]} : rec'[k] = rec[k]
          /\ rec'[Targets[n]] # rec[Targets[n]] => rec'[Targets[n]] = Materialized(Targets[n])
    BY <1>4, ApplyEffects
  <2>2. Applying
    BY <1>4, ApplyEffects
  <2>3. CASE rec'[Targets[n]] = rec[Targets[n]] \/ Targets[n] \notin ProductionKey
    <3>1. \A k \in ProductionKey : rec'[k] = rec[k]
      BY <2>1, <2>3 DEF Key
    <3> QED  BY <1>1, <3>1 DEF LeaseLedgers, StateOf, ProductionKey
  <2>4. CASE rec'[Targets[n]] # rec[Targets[n]] /\ Targets[n] \in ProductionKey
    <3>1. rec'[Targets[n]] = Materialized(Targets[n])
      BY <2>1, <2>4
    <3>2. coord.kind \in Finalize
      BY <1>1, <2>2, <2>4, TargetFacts DEF Finalizing, PlanKey, ProductionKey
    <3>3. CASE Targets[n] = "Intent"
      <4>1. coord.kind = "FinalizeProductionProject"
        <5>1. coord.kind = "FinalizeProductionPreEffect" => Targets = <<"Project", "Lease", "Mode">>
          BY KindTargets DEF Targets
        <5> QED  BY <3>2, <3>3, <5>1 DEF Finalize
      <4>2. rec'["Intent"].content.state = "terminal"
        BY <1>1, <2>2, <3>1, <3>3, <4>1 DEF DescriptorIsSound, Materialized, Successor,
             ProductionKey
      <4>3. rec'["Lease"] = rec["Lease"] /\ rec'["Mode"] = rec["Mode"]
        BY <2>1, <3>3 DEF Key, ProductionKey
      <4> QED  BY <1>1, <4>2, <4>3 DEF LeaseLedgers, StateOf
    <3>4. CASE Targets[n] = "Lease"
      <4>1. rec'["Lease"].content.state = "closed"
        BY <1>1, <2>2, <3>1, <3>2, <3>4 DEF DescriptorIsSound, Materialized, Successor,
             ProductionKey
      <4>2. rec'["Intent"] = rec["Intent"] /\ rec'["Mode"] = rec["Mode"]
        BY <2>1, <3>4 DEF Key, ProductionKey
      <4>3. StateOf("Intent") \notin {"pending", "committed"}
        <5>1. CASE coord.kind = "FinalizeProductionPreEffect"
          BY <1>1, <2>2, <5>1 DEF DescriptorIsSound
        <5>2. CASE coord.kind = "FinalizeProductionProject"
          <6>1. Targets = <<"Project", "Intent", "Lease", "Mode">>
            BY <5>2, KindTargets DEF Targets
          <6>2. n = 3 /\ Targets[2] = "Intent" /\ 2 \in 1 .. Len(Targets)
            BY <3>4, <6>1
          <6>3. AlreadyApplied("Intent")
            BY <2>1, <6>2
          <6> QED  BY <1>1, <2>2, <5>2, <6>3 DEF AlreadyApplied, DescriptorIsSound, StateOf,
                                                 ProductionKey
        <5> QED  BY <3>2, <5>1, <5>2 DEF Finalize
      <4> QED  BY <4>1, <4>2, <4>3 DEF LeaseLedgers, StateOf
    <3>5. CASE Targets[n] = "Mode"
      <4>1. AlreadyApplied("Lease")
        <5>1. CASE coord.kind = "FinalizeProductionPreEffect"
          <6>1. Targets = <<"Project", "Lease", "Mode">>
            BY <5>1, KindTargets DEF Targets
          <6>2. n = 3 /\ Targets[2] = "Lease" /\ 2 \in 1 .. Len(Targets)
            BY <3>5, <6>1
          <6> QED  BY <2>1, <6>2
        <5>2. CASE coord.kind = "FinalizeProductionProject"
          <6>1. Targets = <<"Project", "Intent", "Lease", "Mode">>
            BY <5>2, KindTargets DEF Targets
          <6>2. n = 4 /\ Targets[3] = "Lease" /\ 3 \in 1 .. Len(Targets)
            BY <3>5, <6>1
          <6> QED  BY <2>1, <6>2
        <5> QED  BY <3>2, <5>1, <5>2 DEF Finalize
      <4>2. StateOf("Lease") = "closed"
        BY <1>1, <2>2, <3>2, <4>1 DEF AlreadyApplied, DescriptorIsSound, StateOf, ProductionKey
      <4>3. rec'["Intent"] = rec["Intent"] /\ rec'["Lease"] = rec["Lease"]
        BY <2>1, <3>5 DEF Key, ProductionKey
      <4> QED  BY <1>1, <4>2, <4>3 DEF LeaseLedgers, StateOf
    <3> QED  BY <2>4, <3>3, <3>4, <3>5 DEF ProductionKey
  <2> QED  BY <2>3, <2>4
<1>5. ASSUME NEW p \in Proc, ModeWrite(p) \/ ClearIntent(p) PROVE LeaseLedgers'
  <2>1. rec["Mode"].ver \in Nat
    BY <1>1 DEF TypeOK, Record, Key, ProductionKey
  <2> QED  BY <1>1, <1>5, <2>1, ModeWrites DEF LeaseLedgers, StateOf
<1> QED  BY <1>2, <1>3, <1>4, <1>5, Steps DEF vars

LEMMA TerminalStep ==
  ASSUME AtomicInvariant, [Next]_vars
  PROVE  TerminalIsClosed'
<1>1. TypeOK /\ TerminalIsClosed /\ DescriptorIsSound /\ AbsentIsEmpty /\ ArmingHoldsMode
  BY DEF AtomicInvariant, RedoInvariant
<1>2. ASSUME NEW p \in Proc, Bookkeeping(p) PROVE TerminalIsClosed'
  <2>1. UNCHANGED <<coord, rec>>
    BY <1>2 DEF Bookkeeping, Enter, Leave, Crash, WriteFails, Admit, Redo, RefuseArm,
                ReadProduction
  <2> QED  BY <1>1, <2>1 DEF TerminalIsClosed, Finalizing, Applying, StateOf
<1>3. ASSUME NEW p \in Proc, Ensure(p) PROVE TerminalIsClosed'
  <2>1. ~Applying /\ ~Applying' /\ UNCHANGED rec
    BY <1>1, <1>3 DEF Ensure, Applying, TypeOK, Coordinator
  <2> QED  BY <1>1, <2>1 DEF TerminalIsClosed, Finalizing, StateOf
<1>4. ASSUME NEW p \in Proc, NEW kind \in Kinds, Begin(p, kind) PROVE TerminalIsClosed'
  <2>1. /\ ~Applying /\ Emits(p, kind) /\ Permitted(kind, Contents) /\ kind \in TxnKind
        /\ UNCHANGED rec /\ coord'.kind = kind
    BY <1>4, BeginEffects
  <2> SUFFICES ASSUME kind \notin Finalize, StateOf("Intent") = "terminal", rec["Mode"].ver = 0
               PROVE  kind = "RebindSession"
    BY <1>1, <2>1 DEF TerminalIsClosed, Finalizing, StateOf
  <2>2. Contents["Project"] = Plain("closed")
    BY <1>1, <2>1 DEF TerminalIsClosed, Finalizing, Contents, Key, PlanKey
  <2>3. job[p] # "arm"
    <3>1. rec["Mode"].content = Nothing
      BY <1>1 DEF AbsentIsEmpty, Key, ProductionKey
    <3> QED  BY <1>1, <3>1 DEF ArmingHoldsMode, StateOf, Nothing, Plain
  <2>4. kind # "ReopenProductionProject"
    BY <2>1, <2>3 DEF Emits, Finalize
  <2> QED  BY <2>1, <2>2, <2>4 DEF Permitted, TxnKind, Finalize, Nothing, Plain
<1>5. ASSUME NEW p \in Proc, Apply(p) PROVE TerminalIsClosed'
  <2>1. UNCHANGED coord
    BY <1>5, ApplyEffects
  <2> SUFFICES ASSUME ~Finalizing, StateOf("Intent")' = "terminal" PROVE
          /\ rec'["Lease"].content = [state |-> "closed", gen |-> rec'["Intent"].content.gen]
          /\ rec'["Mode"].ver = 0 =>
               /\ rec'["Project"].content = Plain("closed")
               /\ coord.kind = "RebindSession"
    BY <2>1 DEF TerminalIsClosed, Finalizing, Applying
  <2>2. \A n \in 1 .. Len(Targets) : Targets[n] \notin ProductionKey
    BY <1>1, <1>5, ApplyEffects, TargetFacts DEF PlanKey, ProductionKey
  <2>3. \A k \in ProductionKey : rec'[k] = rec[k]
    BY <1>5, <2>2, ApplyEffects DEF Key
  <2>4. ASSUME coord.kind = "RebindSession" PROVE rec'["Project"] = rec["Project"]
    <3>1. Targets = <<"Session">>
      BY <2>4, KindTargets DEF Targets
    <3>2. \A n \in 1 .. Len(Targets) : Targets[n] # "Project"
      BY <3>1
    <3> QED  BY <1>5, <3>2, ApplyEffects DEF Key, PlanKey
  <2> QED  BY <1>1, <1>5, <2>3, <2>4, ApplyEffects DEF TerminalIsClosed, StateOf, ProductionKey
<1>6. ASSUME NEW p \in Proc, Commit(p) PROVE TerminalIsClosed'
  <2>1. Applying /\ ~Applying' /\ UNCHANGED rec
    BY <1>6, CommitEffects DEF Applying
  <2>2. CASE ~Finalizing
    BY <1>1, <2>1, <2>2 DEF TerminalIsClosed, Finalizing, StateOf
  <2>3. CASE coord.kind = "FinalizeProductionPreEffect"
    BY <1>1, <2>1, <2>3 DEF TerminalIsClosed, DescriptorIsSound, StateOf
  <2>4. CASE coord.kind = "FinalizeProductionProject"
    <3>1. Targets = <<"Project", "Intent", "Lease", "Mode">>
      BY <2>4, KindTargets DEF Targets
    <3>2. /\ Targets[1] = "Project" /\ Targets[2] = "Intent" /\ Targets[3] = "Lease"
          /\ {1, 2, 3} \subseteq 1 .. Len(Targets)
      BY <3>1
    <3>3. /\ rec["Project"].content = coord.to["Project"]
          /\ rec["Intent"].content = coord.to["Intent"]
          /\ rec["Lease"].content = coord.to["Lease"]
      BY <1>6, <3>2, CommitEffects
    <3>4. coord.to["Lease"] = [state |-> "closed", gen |-> coord.to["Intent"].gen]
      <4>1. coord.to["Lease"] \in Content
        BY <1>1 DEF TypeOK, Coordinator, Key, ProductionKey
      <4>2. coord.to["Lease"].state = "closed" /\ coord.to["Lease"].gen = coord.to["Intent"].gen
        BY <1>1, <2>1, <2>4 DEF DescriptorIsSound, Finalize
      <4> QED  BY <4>1, <4>2 DEF Content
    <3> QED  BY <1>1, <2>1, <2>4, <3>3, <3>4 DEF TerminalIsClosed, DescriptorIsSound
  <2> QED  BY <2>1, <2>2, <2>3, <2>4 DEF Finalizing, Finalize
<1>7. ASSUME NEW p \in Proc, ModeWrite(p) \/ ClearIntent(p) PROVE TerminalIsClosed'
  <2>1. UNCHANGED coord /\ ~Finalizing
    BY <1>7, ModeEntry DEF ModeWrite, TakeMode, ArmLease, BindLease, RecordIntent, CommitIntent,
         RotateMode, RotateLease, Put, ClearIntent
  <2>2. StateOf("Intent")' = "terminal" => TakeMode(p) /\ rec'["Mode"].ver > 0
          /\ rec'["Lease"] = rec["Lease"] /\ rec'["Intent"] = rec["Intent"]
    BY <1>1, <1>7, <2>1, ModeWrites DEF TerminalIsClosed, StateOf, Nothing, Plain
  <2> QED  BY <1>1, <2>1, <2>2 DEF TerminalIsClosed, StateOf
<1> QED  BY <1>2, <1>3, <1>4, <1>5, <1>6, <1>7, Steps, StutterAtomic DEF AtomicInvariant

LEMMA StepAtomic == AtomicInvariant /\ [Next]_vars => AtomicInvariant'
BY RedoKept, PermitsStep, DescriptorStep, ArmingStep, LedgersStep, TerminalStep
   DEF AtomicInvariant

THEOREM AtomicInvariantHolds == Spec => []AtomicInvariant
BY InitAtomic, StepAtomic, PTL DEF Spec

-----------------------------------------------------------------------------
(* What it shows.                                                            *)

\* Whoever reads the store and finds no mode finds no live lease and no destroy
\* in progress, whatever a crash left behind (applyProductionTarget).
THEOREM ModeGoesLast == Spec => []ModeAbsentMeansReleased
<1>1. AtomicInvariant => ModeAbsentMeansReleased
  BY DEF AtomicInvariant, LeaseLedgers, ModeAbsentMeansReleased, StateOf, NoRecord
<1> QED  BY <1>1, AtomicInvariantHolds, PTL

\* A destroy retried after its close reads the whole terminal closure: the
\* journal closed, the lease closed at the intent's generation, no mode
\* (releaseProductionMode).
THEOREM ClosureIsWhole == Spec => []TerminalClosureIsWhole
<1>1. AtomicInvariant => TerminalClosureIsWhole
  BY DEF AtomicInvariant, TerminalIsClosed, TerminalClosureIsWhole, StateOf, NoRecord
<1> QED  BY <1>1, AtomicInvariantHolds, PTL

\* No lost update: a transaction begins only while the plan's records say what
\* they said when its permit was issued (runLifecycleTransaction).
THEOREM BeginsOnIssued == Spec => BeginsOnIssuedRecords
<1>1. ASSUME AtomicInvariant, [Next]_vars, ~Applying, Applying'
      PROVE  basis[holder] = PlanContents
  <2>1. TypeOK /\ PermitsAreCurrent
    BY <1>1 DEF AtomicInvariant, RedoInvariant
  <2>2. PICK p \in Proc : \E kind \in Kinds : Begin(p, kind)
    <3>1. ASSUME NEW p \in Proc, Bookkeeping(p) \/ ModeWrite(p) \/ ClearIntent(p)
          PROVE  UNCHANGED coord
      BY <3>1 DEF Bookkeeping, Enter, Leave, Crash, WriteFails, Admit, Redo, RefuseArm,
                  ReadProduction, ModeWrite, TakeMode, ArmLease, BindLease, RecordIntent,
                  CommitIntent, RotateMode, RotateLease, Put, ClearIntent
    <3>2. ASSUME NEW p \in Proc, Ensure(p) PROVE ~Applying'
      BY <2>1, <3>2 DEF Ensure, Applying, TypeOK, Coordinator
    <3>3. ASSUME NEW p \in Proc, Apply(p) \/ Commit(p) PROVE Applying
      BY <1>1, <3>3, ApplyEffects, CommitEffects
    <3> QED  BY <1>1, <3>1, <3>2, <3>3, Steps DEF Applying, vars
  <2>3. Live(p) /\ pc[p] = "in"
    BY <2>2 DEF Begin
  <2> QED  BY <2>1, <2>3 DEF TypeOK, Live, PermitsAreCurrent
<1> QED  BY <1>1, AtomicInvariantHolds, PTL DEF Spec, BeginsOnIssuedRecords

-----------------------------------------------------------------------------
(* The refinement.                                                           *)

\* The two specifications use one vocabulary.
LEMMA SameVocabulary ==
  ASSUME NEW kind, NEW value, NEW op, NEW sess, NEW to
  PROVE  /\ Atomic!Permitted(kind, value) <=> Permitted(kind, value)
         /\ Atomic!Desired(kind, value, op, sess) = Desired(kind, value, op, sess)
         /\ Atomic!Overlay(value, kind, to) = Overlay(value, kind, to)
         /\ Atomic!NoReverseRoot(value) <=> NoReverseRoot(value)
         /\ Atomic!Armable(value) <=> Armable(value)
         /\ Atomic!Rearmed(value) <=> Rearmed(value)
         /\ Atomic!Nothing = Nothing
<1>1. Atomic!Key = Key /\ Atomic!Nothing = Nothing
  BY DEF Atomic!Key, Atomic!PlanKey, Atomic!ProductionKey, Key, PlanKey, ProductionKey,
         Atomic!Nothing, Atomic!Plain, Nothing, Plain
<1>2. Atomic!RolesOf(kind) = RolesOf(kind)
  BY DEF Atomic!RolesOf, Atomic!expectedRoles, RolesOf, expectedRoles
<1>3. Atomic!Permitted(kind, value) <=> Permitted(kind, value)
  BY DEF Atomic!Permitted, Permitted, Atomic!Nothing, Atomic!Plain, Nothing, Plain
<1>4. Atomic!Desired(kind, value, op, sess) = Desired(kind, value, op, sess)
  BY <1>1, <1>2 DEF Atomic!Desired, Desired, Atomic!JournalAfter, JournalAfter, Atomic!Plain,
                    Plain
<1>5. Atomic!Overlay(value, kind, to) = Overlay(value, kind, to)
  BY <1>1, <1>2 DEF Atomic!Overlay, Overlay
<1> QED  BY <1>1, <1>3, <1>4, <1>5 DEF Atomic!NoReverseRoot, NoReverseRoot, Atomic!Armable,
              Armable, Atomic!Rearmed, Rearmed, Atomic!Plain, Plain

\* Outside a transaction the records mean what they say.
LEMMA IdleMeans == ~Applying => Logical = Contents
BY DEF Logical, Contents

LEMMA KeptMeans ==
  ASSUME UNCHANGED <<coord, rec>>
  PROVE  Logical' = Logical
BY DEF Logical, Applying

\* A write of Mode changes what one record means.
LEMMA WriteMeans ==
  ASSUME AtomicInvariant, NEW p \in Proc, ModeWrite(p) \/ ClearIntent(p),
         NEW key \in ProductionKey, \A k \in Key \ {key} : rec'[k] = rec[k]
  PROVE  Logical' = [Logical EXCEPT ![key] = rec'[key].content]
<1>1. UNCHANGED coord
  BY DEF ModeWrite, TakeMode, ArmLease, BindLease, RecordIntent, CommitIntent, RotateMode,
         RotateLease, Put, ClearIntent
<1>2. Applying => key \notin RolesOf(coord.kind)
  <2>1. ~Finalizing /\ TypeOK
    BY ModeEntry
  <2>2. Applying => \A i \in 1 .. Len(Targets) : Targets[i] \in PlanKey
    BY <2>1, TargetFacts
  <2> QED  BY <2>2 DEF RolesOf, Targets, PlanKey, ProductionKey
<1>3. Applying' <=> Applying
  BY <1>1 DEF Applying
<1>4. ASSUME NEW k \in Key
      PROVE  Logical'[k] = IF k = key THEN rec'[key].content ELSE Logical[k]
  BY <1>1, <1>2, <1>3, <1>4 DEF Logical
<1>5. Logical = [k \in Key |-> Logical[k]] /\ Logical' = [k \in Key |-> Logical'[k]]
  BY DEF Logical
<1> QED  BY <1>4, <1>5

\* Such a write, as the abstract specification puts it.
LEMMA PutMeans ==
  ASSUME AtomicInvariant, NEW p \in Proc, ModeWrite(p),
         NEW key \in ProductionKey, NEW state, NEW gen, NEW then,
         Put(p, key, state, gen, then)
  PROVE  Atomic!Put(key, state, gen) /\ UNCHANGED coord.seq
<1>1. TypeOK
  BY DEF AtomicInvariant, RedoInvariant
<1>2. /\ rec'[key].content = [state |-> state, gen |-> gen]
      /\ \A k \in Key \ {key} : rec'[k] = rec[k]
      /\ UNCHANGED coord
  BY <1>1, PutEffects
<1>3. Logical' = [Logical EXCEPT ![key] = [state |-> state, gen |-> gen]]
  BY <1>2, WriteMeans
<1> QED  BY <1>2, <1>3 DEF Atomic!Put

\* Publishing a descriptor is the whole transaction.
LEMMA BeginMeans ==
  ASSUME AtomicInvariant, NEW p \in Proc, NEW kind \in Kinds, Begin(p, kind)
  PROVE  Atomic!Transact(kind)
<1>1. /\ ~Applying /\ Permitted(kind, Contents) /\ UNCHANGED <<rec, epoch>>
      /\ Applying' /\ coord'.kind = kind /\ coord'.seq = coord.seq + 1
  BY BeginEffects
<1>2. PICK op, sess \in Payload : coord'.to = Desired(kind, Contents, op, sess)
  BY BeginEffects
<1>3. Logical = Contents
  BY <1>1, IdleMeans
<1>4. Logical' = Overlay(Contents, kind, coord'.to)
  BY <1>1 DEF Logical, Overlay, Contents
<1>5. /\ Atomic!Permitted(kind, Logical)
      /\ Logical' = Atomic!Overlay(Logical, kind, Atomic!Desired(kind, Logical, op, sess))
  BY <1>1, <1>2, <1>3, <1>4, SameVocabulary
<1> QED  BY <1>1, <1>5 DEF Atomic!Transact

\* Materialising a target changes nothing of what the records mean.
LEMMA ApplyMeans ==
  ASSUME AtomicInvariant, NEW p \in Proc, Apply(p)
  PROVE  Logical' = Logical
<1>1. PICK n \in 1 .. Len(Targets) :
        Targets[n] \in Key /\ \A k \in Key \ {Targets[n]} : rec'[k] = rec[k]
  BY ApplyEffects
<1>2. Applying /\ Applying' /\ UNCHANGED coord
  BY ApplyEffects DEF Applying
<1>3. Targets[n] \in RolesOf(coord.kind)
  BY DEF RolesOf, Targets
<1> QED  BY <1>1, <1>2, <1>3 DEF Logical

\* Nor does committing, when every target is as the descriptor asked.
LEMMA CommitMeans ==
  ASSUME AtomicInvariant, NEW p \in Proc, Commit(p)
  PROVE  Logical' = Logical
<1>1. Applying /\ ~Applying' /\ UNCHANGED rec
  BY CommitEffects DEF Applying
<1>2. \A key \in RolesOf(coord.kind) : rec[key].content = coord.to[key]
  BY CommitEffects DEF RolesOf, Targets
<1> QED  BY <1>1, <1>2 DEF Logical

\* Every write of Mode is the abstract action of its name.
LEMMA ModeMeans ==
  ASSUME AtomicInvariant, NEW p \in Proc, ModeWrite(p) \/ ClearIntent(p)
  PROVE  Atomic!Next
<1> USE SameVocabulary
<1>1. /\ TypeOK /\ pc[p] = "in" /\ ~Finalizing
      /\ \A key \in ProductionKey : key \in Key /\ Logical[key] = rec[key].content
  BY ModeEntry
<1>2. "Mode" \in ProductionKey /\ "Lease" \in ProductionKey /\ "Intent" \in ProductionKey
  BY DEF ProductionKey
<1>3. /\ Logical["Mode"] = rec["Mode"].content /\ Logical["Mode"] = Contents["Mode"]
      /\ Logical["Lease"] = rec["Lease"].content /\ Logical["Lease"] = Contents["Lease"]
      /\ Logical["Intent"] = rec["Intent"].content /\ Logical["Intent"] = Contents["Intent"]
  BY <1>1, <1>2 DEF Contents
<1>4. CASE TakeMode(p)
  <2>1. /\ NoReverseRoot(Contents) /\ Armable(Contents) /\ epoch' = epoch + 1
        /\ Put(p, "Mode", "held", epoch', "arm")
    BY <1>4 DEF TakeMode
  <2>2. Atomic!Put("Mode", "held", epoch') /\ UNCHANGED coord.seq
    BY <1>2, <1>4, <2>1, PutMeans DEF ModeWrite
  <2>3. Atomic!NoReverseRoot(Logical) /\ Atomic!Armable(Logical)
    BY <1>3, <2>1 DEF NoReverseRoot, Armable
  <2> QED  BY <2>1, <2>2, <2>3 DEF Atomic!Next, Atomic!TakeMode
<1>5. CASE ArmLease(p)
  <2>1. /\ job[p] = "arm" /\ Rearmed(Contents) /\ UNCHANGED epoch
        /\ rec["Lease"].content.state = "closed" => ~Applying
        /\ Put(p, "Lease", "unbound", rec["Mode"].content.gen, "mode")
    BY <1>5 DEF ArmLease
  <2>2. Atomic!Put("Lease", "unbound", Logical["Mode"].gen) /\ UNCHANGED coord.seq
    BY <1>2, <1>3, <1>5, <2>1, PutMeans DEF ModeWrite
  <2>3. Logical["Mode"].state = "held" /\ Armable(Logical)
    BY <1>3, <2>1 DEF AtomicInvariant, ArmingHoldsMode, StateOf, Armable
  <2>4. Rearmed(Logical)
    BY <1>3, <2>1, IdleMeans DEF Rearmed
  <2> QED  BY <2>1, <2>2, <2>3, <2>4 DEF Atomic!Next, Atomic!ArmLease
<1>6. CASE BindLease(p)
  <2>1. /\ rec["Lease"].content.state = "unbound" /\ UNCHANGED epoch
        /\ Put(p, "Lease", "bound", rec["Lease"].content.gen, "mode")
    BY <1>6 DEF BindLease
  <2>2. Atomic!Put("Lease", "bound", Logical["Lease"].gen) /\ UNCHANGED coord.seq
    BY <1>2, <1>3, <1>6, <2>1, PutMeans DEF ModeWrite
  <2> QED  BY <1>3, <2>1, <2>2 DEF Atomic!Next, Atomic!BindLease
<1>7. CASE RecordIntent(p)
  <2>1. /\ rec["Intent"].content = Nothing /\ UNCHANGED epoch
        /\ rec["Lease"].content.state = "bound"
        /\ Put(p, "Intent", "pending", rec["Lease"].content.gen, "rotate")
    BY <1>7 DEF RecordIntent
  <2>2. Atomic!Put("Intent", "pending", Logical["Lease"].gen) /\ UNCHANGED coord.seq
    BY <1>2, <1>3, <1>7, <2>1, PutMeans DEF ModeWrite
  <2> QED  BY <1>3, <2>1, <2>2 DEF Atomic!Next, Atomic!RecordIntent
<1>8. CASE CommitIntent(p)
  <2>1. /\ rec["Intent"].content.state = "pending" /\ epoch' = epoch + 1
        /\ Put(p, "Intent", "committed", epoch', "rotate")
    BY <1>8 DEF CommitIntent
  <2>2. Atomic!Put("Intent", "committed", epoch') /\ UNCHANGED coord.seq
    BY <1>2, <1>8, <2>1, PutMeans DEF ModeWrite
  <2> QED  BY <1>3, <2>1, <2>2 DEF Atomic!Next, Atomic!CommitIntent
<1>9. CASE RotateMode(p)
  <2>1. /\ rec["Intent"].content.state = "committed" /\ UNCHANGED epoch
        /\ rec["Mode"].content.gen < rec["Intent"].content.gen
        /\ Put(p, "Mode", "held", rec["Intent"].content.gen, "rotate")
    BY <1>9 DEF RotateMode
  <2>2. Atomic!Put("Mode", "held", Logical["Intent"].gen) /\ UNCHANGED coord.seq
    BY <1>2, <1>3, <1>9, <2>1, PutMeans DEF ModeWrite
  <2> QED  BY <1>3, <2>1, <2>2 DEF Atomic!Next, Atomic!RotateMode
<1>10. CASE RotateLease(p)
  <2>1. /\ rec["Intent"].content.state = "committed" /\ UNCHANGED epoch
        /\ rec["Mode"].content.gen = rec["Intent"].content.gen
        /\ rec["Lease"].content.gen < rec["Intent"].content.gen
        /\ Put(p, "Lease", "bound", rec["Intent"].content.gen, "mode")
    BY <1>10 DEF RotateLease
  <2>2. Atomic!Put("Lease", "bound", Logical["Intent"].gen) /\ UNCHANGED coord.seq
    BY <1>2, <1>3, <1>10, <2>1, PutMeans DEF ModeWrite
  <2> QED  BY <1>3, <2>1, <2>2 DEF Atomic!Next, Atomic!RotateLease
<1>11. CASE ClearIntent(p)
  <2>1. /\ job[p] = "arm" /\ UNCHANGED <<coord, epoch>>
        /\ rec["Lease"].content.state = "closed" /\ rec["Intent"].content.state = "terminal"
        /\ rec' = [rec EXCEPT !["Intent"] = NoRecord]
    BY <1>11 DEF ClearIntent
  <2>2. \A k \in Key \ {"Intent"} : rec'[k] = rec[k]
    BY <1>1, <2>1 DEF TypeOK
  <2>3. rec'["Intent"].content = Nothing
    BY <1>1, <1>2, <2>1 DEF TypeOK, NoRecord
  <2>4. Logical' = [Logical EXCEPT !["Intent"] = Nothing]
    BY <1>2, <1>11, <2>2, <2>3, WriteMeans
  <2>5. Logical["Mode"].state = "held"
    BY <1>3, <2>1 DEF AtomicInvariant, ArmingHoldsMode, StateOf
  <2> QED  BY <1>3, <2>1, <2>4, <2>5 DEF Atomic!Next, Atomic!ClearIntent
<1> QED  BY <1>4, <1>5, <1>6, <1>7, <1>8, <1>9, <1>10, <1>11 DEF ModeWrite

\* The records of the plan change by whole transactions only: publishing the
\* descriptor is the commit, and no crash, failed write, redo or concurrent Mode
\* entry makes a part of a transaction, or one twice, take effect.
THEOREM Atomicity == Spec => TransactionsAreAtomic
<1>1. Init => Atomic!Init
  <2> SUFFICES ASSUME Init PROVE Atomic!Init
    OBVIOUS
  <2>1. Logical = [key \in Key |-> Nothing]
    BY DEF Init, Logical, Applying, NoCoordinator, NoRecord
  <2>2. Atomic!Key = Key /\ Atomic!Nothing = Nothing
    BY DEF Atomic!Key, Atomic!PlanKey, Atomic!ProductionKey, Key, PlanKey, ProductionKey,
           Atomic!Nothing, Atomic!Plain, Nothing, Plain
  <2> QED  BY <2>1, <2>2 DEF Init, NoCoordinator, Atomic!Init
<1>2. AtomicInvariant /\ [Next]_vars => [Atomic!Next]_(Atomic!vars)
  <2> SUFFICES ASSUME AtomicInvariant, [Next]_vars
               PROVE  Atomic!Next \/ UNCHANGED <<Logical, coord.seq, epoch>>
    BY DEF Atomic!vars
  <2>1. ASSUME NEW p \in Proc, Bookkeeping(p) PROVE UNCHANGED <<Logical, coord.seq, epoch>>
    <3>1. UNCHANGED <<coord, rec, epoch>>
      BY <2>1 DEF Bookkeeping, Enter, Leave, Crash, WriteFails, Admit, Redo, RefuseArm,
                  ReadProduction
    <3> QED  BY <3>1, KeptMeans
  <2>2. ASSUME NEW p \in Proc, Ensure(p) PROVE UNCHANGED <<Logical, coord.seq, epoch>>
    <3>1. ~Applying /\ ~Applying' /\ UNCHANGED <<rec, coord.seq, epoch>>
      BY <2>2 DEF Ensure, Applying, AtomicInvariant, RedoInvariant, TypeOK, Coordinator
    <3> QED  BY <3>1 DEF Logical
  <2>3. ASSUME NEW p \in Proc, NEW kind \in Kinds, Begin(p, kind) PROVE Atomic!Next
    BY <2>3, BeginMeans DEF Atomic!Next
  <2>4. ASSUME NEW p \in Proc, Apply(p) PROVE UNCHANGED <<Logical, coord.seq, epoch>>
    BY <2>4, ApplyMeans, ApplyEffects
  <2>5. ASSUME NEW p \in Proc, Commit(p) PROVE UNCHANGED <<Logical, coord.seq, epoch>>
    BY <2>5, CommitMeans, CommitEffects
  <2>6. ASSUME NEW p \in Proc, ModeWrite(p) \/ ClearIntent(p) PROVE Atomic!Next
    BY <2>6, ModeMeans
  <2>7. UNCHANGED vars => UNCHANGED <<Logical, coord.seq, epoch>>
    BY KeptMeans DEF vars
  <2> QED  BY <2>1, <2>2, <2>3, <2>4, <2>5, <2>6, <2>7, Steps
<1> QED  BY <1>1, <1>2, AtomicInvariantHolds, PTL DEF Spec, TransactionsAreAtomic, Atomic!Spec
=============================================================================
