------------------------ MODULE SessionJournalProofs ------------------------
(***************************************************************************)
(* What TLAPS proves of SessionJournal, for any invocations, sessions,     *)
(* operations, outcomes and limits: its type invariant and every safety    *)
(* property the runs check.  The inductive invariant has a part for each   *)
(* of the things that interact: who is between two writes and what for     *)
(* (GoalOK), the fence and the gates handed out under it (FenceOK), the    *)
(* sessions and their operations (MembersOK, RebindOK) and the calls       *)
(* (AttemptsOK, GatesOK).                                                  *)
(***************************************************************************)
EXTENDS SessionJournal, FiniteSetTheorems, TLAPS

Unsettling == fence.st \in {"intent", "unknown"}

\* Who settles a fence knows why, and who rebinds a session knows which.
GoalOK ==
  \A p \in Proc :
    /\ pc[p] \in {"settle", "observe"} => goal[p] \in {"return", "rotate", "interpret"}
    /\ pc[p] = "rebound" => goal[p] \in Sid

\* The recovery of p has rotated the fence.
Rotated(p) ==
  \/ pc[p] \in {"interpret", "rebound", "admitted"}
  \/ pc[p] \in {"settle", "observe"} /\ goal[p] = "interpret"

\* The fence is where its holder thinks it is; nobody was handed an epoch
\* above it, or one that is not observed yet; a recovery has outdated the
\* gates from its rotation on.
FenceOK ==
  /\ fence.st = "absent" <=> fence.epoch = 0
  /\ \A p \in Proc :
       /\ mem[p].fence <= fence.epoch
       /\ Unsettling => mem[p].fence < fence.epoch
       /\ pc[p] = "settle" => Unsettling
       /\ pc[p] = "observe" => fence.st = "unknown"
       /\ pc[p] \in {"rotate", "interpret", "rebound", "admitted"} =>
            fence.st = "observed"
  /\ \A q \in Proc : \A gate \in mem[q].gates :
       /\ gate.fence <= fence.epoch
       /\ Unsettling => gate.fence < fence.epoch
       /\ \A p \in Proc : Rotated(p) => gate.fence < fence.epoch

\* Every recorded operation is a member of a session that has been opened,
\* and of one that is open if its outcome is unknown.
MembersOK ==
  \A x \in Operation :
    /\ ops[x].phase # "none" => x[2] \in sess[x[1]].ops /\ sess[x[1]].st # "absent"
    /\ ops[x].phase = "unknown" => sess[x[1]].st = "open"

\* A session that was rebound has nothing outstanding until it is closed.
RebindOK ==
  \A p \in Proc : pc[p] = "rebound" =>
    \A x \in Operation : x[1] = goal[p] => ops[x].phase # "unknown"

\* An operation has used as many fences as it has had attempts, none above the
\* fence in its record, and none before its first attempt.
AttemptsOK ==
  \A x \in Operation :
    /\ IsFiniteSet(used[x]) /\ Cardinality(used[x]) = ops[x].attempt
    /\ \A epoch \in used[x] : epoch <= ops[x].fence
    /\ ops[x].fence <= fence.epoch
    /\ ops[x].phase \in {"none", "intent"} => used[x] = {}

\* No gate is ahead of the record of its operation; the gate of an unknown
\* outcome is the one of the latest call.
GatesOK ==
  /\ \A q \in Proc : \A gate \in mem[q].gates :
       /\ gate.ver <= ops[gate.at].ver
       /\ gate.ver = ops[gate.at].ver /\ ops[gate.at].phase = "unknown"
            => gate.call = launched[gate.at]
  /\ OutcomesAnswerTheLatestCall

SessionInvariant ==
  /\ TypeOK /\ GoalOK /\ FenceOK /\ MembersOK /\ RebindOK /\ AttemptsOK /\ GatesOK
  /\ OneOpenSession

-----------------------------------------------------------------------------
(* Type correctness.                                                       *)

SessionRecord == [st : {"absent", "open", "closed"}, marker : Nat, ops : SUBSET Op]
OperationRecord == [phase : Phase \cup {"none"}, fence : Nat, attempt : Nat, ver : Nat]

\* The initial state has the types.
LEMMA InitTypes == Init => TypeOK
<1> SUFFICES ASSUME Init PROVE TypeOK
  OBVIOUS
<1>1. Forgotten \in Memory /\ NoSession \in SessionRecord
  BY DEF Forgotten, Memory, NoSession, SessionRecord
<1>2. NoOperation \in OperationRecord
  BY DEF NoOperation, OperationRecord
<1> QED
  BY <1>1, <1>2, NamesAssumption
  DEF Init, TypeOK, Holding, SessionRecord, OperationRecord

\* A transaction, whether or not its answer arrives.
LEMMA TransactTypes ==
  ASSUME TypeOK, NEW p \in Proc, NEW values \in Memory, Transact(p, values)
  PROVE  /\ current' \subseteq Proc /\ faults' \in Nat
         /\ mem' \in [Proc -> Memory]
         /\ mem' = mem \/ mem' = [mem EXCEPT ![p] = values]
BY DEF Transact, TypeOK

\* The values an invocation has been handed.
LEMMA MemoryTypes ==
  ASSUME TypeOK, NEW p \in Proc
  PROVE  /\ mem[p] \in Memory
         /\ mem[p].broker \in Nat /\ mem[p].fence \in Nat
         /\ mem[p].sid \in Sid \cup {"none"}
         /\ \A s \in Sid : [mem[p] EXCEPT !.sid = s] \in Memory
         /\ \A epoch \in Nat : [mem[p] EXCEPT !.fence = epoch] \in Memory
         /\ \A gate \in mem[p].gates :
              /\ gate.at \in Operation /\ gate.fence \in Nat
              /\ gate.attempt \in Nat /\ gate.ver \in Nat /\ gate.call \in Nat
<1>1. mem[p] \in Memory
  BY DEF TypeOK
<1> QED  BY <1>1 DEF Memory, Gate

\* What a record is replaced with.
LEMMA RecordTypes ==
  ASSUME TypeOK, NEW x \in Operation
  PROVE  /\ ops[x] \in OperationRecord /\ ops[x].fence \in Nat
         /\ ops[x].attempt \in Nat /\ ops[x].ver \in Nat
         /\ \A phase \in Phase, epoch \in Nat, attempt \in Nat :
              Record(x, phase, epoch, attempt) \in OperationRecord
<1>1. ops[x] \in OperationRecord
  BY DEF TypeOK, OperationRecord
<1> QED  BY <1>1 DEF OperationRecord, Record

\* What becomes of a session record, and of the list of them.
LEMMA SessionTypes ==
  ASSUME TypeOK, NEW s \in Sid
  PROVE  /\ sess[s] \in SessionRecord
         /\ \A marker \in Nat : [sess EXCEPT ![s].marker = marker] \in [Sid -> SessionRecord]
         /\ [sess EXCEPT ![s].st = "closed"] \in [Sid -> SessionRecord]
         /\ [sess EXCEPT ![s].st = "closed", ![s].marker = 0] \in [Sid -> SessionRecord]
         /\ \A o \in Op : [sess EXCEPT ![s].ops = @ \cup {o}] \in [Sid -> SessionRecord]
<1>1. \A t \in Sid : sess[t] \in SessionRecord
  BY DEF TypeOK, SessionRecord
<1>2. \A r \in SessionRecord :
        /\ \A marker \in Nat : [r EXCEPT !.marker = marker] \in SessionRecord
        /\ [r EXCEPT !.st = "closed"] \in SessionRecord
        /\ [r EXCEPT !.st = "closed", !.marker = 0] \in SessionRecord
        /\ \A o \in Op : [r EXCEPT !.ops = @ \cup {o}] \in SessionRecord
  BY DEF SessionRecord
<1>3. sess = [t \in Sid |-> sess[t]]
  BY DEF TypeOK
<1> QED  BY <1>1, <1>2, <1>3

\* A settlement, or a recovery, moves on or is over.
LEMMA HolderTypes ==
  ASSUME TypeOK, NEW p \in Proc, NEW stage \in {"up", "down"} \cup Holding,
         NEW for \in {"none", "return", "rotate", "interpret"} \cup Sid,
         holder = p \/ holder = "nobody",
         pc' = [pc EXCEPT ![p] = stage],
         goal' = goal \/ goal' = [goal EXCEPT ![p] = for],
         holder' = IF stage \in Holding THEN p ELSE "nobody"
  PROVE  /\ pc' \in [Proc -> {"down", "up"} \cup Holding]
         /\ goal' \in [Proc -> {"none", "return", "rotate", "interpret"} \cup Sid]
         /\ holder' \in Proc \cup {"nobody"}
         /\ \A q \in Proc : pc'[q] \in Holding <=> holder' = q
BY NamesAssumption DEF TypeOK, Holding

\* Every step keeps the types.
LEMMA TypeStep == TypeOK /\ GoalOK /\ [Next]_vars => TypeOK'
<1> SUFFICES ASSUME TypeOK, GoalOK, [Next]_vars PROVE TypeOK'
  OBVIOUS
<1> USE NamesAssumption
<1>0. CASE UNCHANGED vars
  BY <1>0 DEF vars, records, ghosts, procs, TypeOK
<1>1. ASSUME NEW p \in Proc, Start(p) PROVE TypeOK'
  <2>1. [Forgotten EXCEPT !.broker = broker + 1] \in Memory
    BY DEF Forgotten, Memory, TypeOK
  <2> QED  BY <1>1, <2>1 DEF Start, Holding, records, ghosts, procs, TypeOK
<1>2. ASSUME NEW p \in Proc, Crash(p) PROVE TypeOK'
  <2>1. Forgotten \in Memory
    BY DEF Forgotten, Memory
  <2> QED  BY <1>2, <2>1 DEF Crash, Holding, records, ghosts, procs, TypeOK
<1>3. ASSUME NEW p \in Proc, Abort(p) PROVE TypeOK'
  BY <1>3 DEF Abort, Holding, records, ghosts, procs, TypeOK
<1>4. ASSUME NEW p \in Proc, OpenProject(p) PROVE TypeOK'
  BY <1>4, TransactTypes, MemoryTypes, LimitsAssumption
  DEF OpenProject, Observe, records, ghosts, procs, TypeOK
<1>5. ASSUME NEW p \in Proc, FinalizeProject(p) PROVE TypeOK'
  BY <1>5 DEF FinalizeProject, Advance, records, ghosts, procs, TypeOK
<1>6. ASSUME NEW p \in Proc, ReopenProject(p) PROVE TypeOK'
  BY <1>6 DEF ReopenProject, Advance, records, ghosts, procs, TypeOK
<1>7. ASSUME NEW p \in Proc, NEW epoch \in ClosingEpoch, BeginProjectClose(p, epoch)
      PROVE  TypeOK'
  BY <1>7, TransactTypes, MemoryTypes, LimitsAssumption
  DEF BeginProjectClose, Observe, records, ghosts, procs, TypeOK
<1>8. ASSUME NEW p \in Proc, NEW epoch \in ClosingEpoch, RecordClosedProject(p, epoch)
      PROVE  TypeOK'
  BY <1>8, TransactTypes, MemoryTypes, LimitsAssumption
  DEF RecordClosedProject, Observe, records, ghosts, procs, TypeOK
<1>9. ASSUME NEW p \in Proc, NEW s \in Sid, OpenSession(p, s) PROVE TypeOK'
  <2>1. [st |-> "open", marker |-> mem[p].broker, ops |-> {}] \in SessionRecord
    BY MemoryTypes DEF SessionRecord
  <2>2. sess' \in [Sid -> SessionRecord]
    BY <1>9, <2>1 DEF OpenSession, SessionRecord, TypeOK
  <2> QED
    BY <1>9, <2>2, TransactTypes, MemoryTypes
    DEF OpenSession, SessionRecord, records, ghosts, procs, TypeOK
<1>10. ASSUME NEW p \in Proc, NEW s \in Sid, SweepSession(p, s) PROVE TypeOK'
  <2>1. sess' \in [Sid -> SessionRecord]
    BY <1>10, SessionTypes DEF SweepSession
  <2> QED  BY <1>10, <2>1
  DEF SweepSession, Advance, SessionRecord, records, ghosts, procs, TypeOK
<1>11. ASSUME NEW p \in Proc, CloseSession(p) PROVE TypeOK'
  <2>1. mem[p].sid \in Sid
    BY <1>11, MemoryTypes DEF CloseSession, Joined
  <2>2. sess' \in [Sid -> SessionRecord]
    BY <1>11, <2>1, SessionTypes DEF CloseSession
  <2> QED
    BY <1>11, <2>2, TransactTypes, MemoryTypes
    DEF CloseSession, SessionRecord, records, ghosts, procs, TypeOK
<1>12. ASSUME NEW p \in Proc, NEW x \in Operation, ReadReleased(p, x) PROVE TypeOK'
  <2>1. [op |-> x[2], ver |-> ops[x].ver] \in [op : Op, ver : Nat]
    BY RecordTypes DEF Operation
  <2>2. mem' \in [Proc -> Memory]
    BY <1>12, <2>1, MemoryTypes DEF ReadReleased, Memory, TypeOK
  <2> QED  BY <1>12, <2>2 DEF ReadReleased, records, ghosts, procs, TypeOK
<1>13. ASSUME NEW p \in Proc, NEW x \in Operation, RegisterIntent(p, x) PROVE TypeOK'
  <2>1. ops' \in [Operation -> OperationRecord]
    BY <1>13, RecordTypes
    DEF RegisterIntent, Phase, Continuable, OperationRecord, TypeOK
  <2>2. x[1] \in Sid /\ x[2] \in Op
    BY DEF Operation
  <2>3. sess' \in [Sid -> SessionRecord]
    BY <1>13, <2>2, SessionTypes DEF RegisterIntent
  <2>4. used' \in [Operation -> SUBSET Nat]
    BY <1>13 DEF RegisterIntent, TypeOK
  <2> QED
    BY <1>13, <2>1, <2>3, <2>4, TransactTypes, MemoryTypes
    DEF RegisterIntent, SessionRecord, OperationRecord, records, ghosts, procs, TypeOK
<1>14. ASSUME NEW p \in Proc, NEW x \in Operation, Prepare(p, x) PROVE TypeOK'
  <2> DEFINE values == [mem[p] EXCEPT !.gates = mem[p].gates \cup {GateFor(x)}]
  <2>1. fence.epoch \in Nat /\ launched[x] \in Nat
    BY DEF TypeOK
  <2>2. GateFor(x) \in Gate
    BY <2>1, RecordTypes DEF Gate, GateFor
  <2>3. values \in Memory
    BY <2>2, MemoryTypes DEF Memory
  <2>4. Transact(p, values)
    BY <1>14 DEF Prepare
  <2>5. ops' \in [Operation -> OperationRecord]
    <3>1. Record(x, "unknown", fence.epoch, ops[x].attempt + 1) \in OperationRecord
      BY <2>1, RecordTypes DEF Phase, Unknown
    <3> QED  BY <1>14, <3>1 DEF Prepare, OperationRecord, TypeOK
  <2>6. launched' \in [Operation -> Nat] /\ used' \in [Operation -> SUBSET Nat]
    BY <1>14, <2>1 DEF Prepare, TypeOK
  <2> HIDE DEF values
  <2> QED
    BY <1>14, <2>3, <2>4, <2>5, <2>6, TransactTypes
    DEF Prepare, OperationRecord, records, ghosts, procs, TypeOK
<1>15. ASSUME NEW p \in Proc, NEW gate \in mem[p].gates, NEW outcome \in Outcome,
             Acknowledge(p, gate, outcome)
      PROVE  TypeOK'
  <2>1. gate.at \in Operation /\ gate.fence \in Nat /\ gate.attempt \in Nat
        /\ gate.call \in Nat
    BY MemoryTypes
  <2>2. outcome \in Phase
    BY OutcomeAssumption DEF Observed, Phase, FencedRetryable, Settled,
       TerminalDisposition
  <2>3. ops' \in [Operation -> OperationRecord]
    BY <1>15, <2>1, <2>2, RecordTypes DEF Acknowledge, OperationRecord, TypeOK
  <2>4. answered' \in [Operation -> Nat]
    BY <1>15, <2>1 DEF Acknowledge, TypeOK
  <2> QED
    BY <1>15, <2>3, <2>4, TransactTypes, MemoryTypes
    DEF Acknowledge, OperationRecord, records, ghosts, procs, TypeOK
<1>16. ASSUME NEW p \in Proc, NEW purpose \in {"return", "rotate"},
             EstablishFence(p, purpose)
      PROVE  TypeOK'
  <2>1. fence' \in [st : {"absent", "intent", "unknown", "observed"}, epoch : Nat]
    BY <1>16 DEF EstablishFence, Resumed, TypeOK
  <2>2. mem' \in [Proc -> Memory]
    BY <1>16, MemoryTypes DEF EstablishFence, TypeOK
  <2>3. \/ UNCHANGED <<holder, pc, goal>>
        \/ /\ holder' = p /\ goal' = [goal EXCEPT ![p] = purpose]
           /\ \E stage \in Holding : pc' = [pc EXCEPT ![p] = stage]
    BY <1>16 DEF EstablishFence, Holding
  <2> QED
    BY <1>16, <2>1, <2>2, <2>3, HolderTypes
    DEF EstablishFence, Free, Holding, records, ghosts, procs, TypeOK
<1>17. ASSUME NEW p \in Proc, SettleFence(p) PROVE TypeOK'
  BY <1>17 DEF SettleFence, Holding, records, ghosts, procs, TypeOK
<1>18. ASSUME NEW p \in Proc, ObserveFence(p) PROVE TypeOK'
  <2>1. holder = p /\ goal[p] \in {"return", "rotate", "interpret"}
    BY <1>18 DEF ObserveFence, GoalOK, TypeOK, Holding
  <2>2. fence' \in [st : {"absent", "intent", "unknown", "observed"}, epoch : Nat]
    BY <1>18 DEF ObserveFence, TypeOK
  <2>3. mem' \in [Proc -> Memory]
    BY <1>18, MemoryTypes DEF ObserveFence, TypeOK
  <2>4. CASE goal[p] = "return"
    BY <1>18, <2>1, <2>2, <2>3, <2>4, HolderTypes
    DEF ObserveFence, Holding, records, ghosts, procs, TypeOK
  <2>5. CASE goal[p] # "return"
    <3>1. goal[p] \in Holding /\ pc' = [pc EXCEPT ![p] = goal[p]]
      BY <1>18, <2>1, <2>5 DEF ObserveFence, Holding
    <3>2. pc' \in [Proc -> {"down", "up"} \cup Holding]
          /\ \A q \in Proc : pc'[q] \in Holding <=> holder' = q
      BY <1>18, <2>1, <2>5, <3>1 DEF ObserveFence, TypeOK
    <3> QED
      BY <1>18, <2>2, <2>3, <2>5, <3>2 DEF ObserveFence, records, ghosts, procs, TypeOK
  <2> QED  BY <2>4, <2>5
<1>19. ASSUME NEW p \in Proc, RotateFence(p) PROVE TypeOK'
  <2>1. fence' \in [st : {"absent", "intent", "unknown", "observed"}, epoch : Nat]
    BY <1>19 DEF RotateFence, TypeOK
  <2> QED  BY <1>19, <2>1 DEF RotateFence, Free, Holding, records, ghosts, procs, TypeOK
<1>20. ASSUME NEW p \in Proc, RotateForRecovery(p) PROVE TypeOK'
  <2>1. fence' \in [st : {"absent", "intent", "unknown", "observed"}, epoch : Nat]
    BY <1>20 DEF RotateForRecovery, TypeOK
  <2> QED  BY <1>20, <2>1
  DEF RotateForRecovery, Free, Holding, records, ghosts, procs, TypeOK
<1>21. ASSUME NEW p \in Proc, OpenForRecovery(p) PROVE TypeOK'
  BY <1>21 DEF OpenForRecovery, Advance, records, ghosts, procs, TypeOK
<1>22. ASSUME NEW p \in Proc, NEW x \in Operation, AbandonOperation(p, x) PROVE TypeOK'
  <2>1. ops' \in [Operation -> OperationRecord]
    BY <1>22, RecordTypes
    DEF AbandonOperation, Phase, TerminalDisposition, OperationRecord, TypeOK
  <2> QED  BY <1>22, <2>1
  DEF AbandonOperation, Advance, OperationRecord, records, ghosts, procs, TypeOK
<1>23. ASSUME NEW p \in Proc, NEW s \in Sid, RebindSession(p, s) PROVE TypeOK'
  <2>1. sess' \in [Sid -> SessionRecord]
    BY <1>23, SessionTypes, MemoryTypes DEF RebindSession
  <2>2. pc' \in [Proc -> {"down", "up"} \cup Holding]
        /\ \A q \in Proc : pc'[q] \in Holding <=> holder' = q
    BY <1>23 DEF RebindSession, Holding, TypeOK
  <2> QED  BY <1>23, <2>1, <2>2
  DEF RebindSession, Advance, SessionRecord, records, ghosts, procs, TypeOK
<1>24. ASSUME NEW p \in Proc, CloseRebound(p) PROVE TypeOK'
  <2>1. sess' \in [Sid -> SessionRecord]
    BY <1>24, SessionTypes DEF CloseRebound, GoalOK
  <2>2. pc' \in [Proc -> {"down", "up"} \cup Holding]
        /\ \A q \in Proc : pc'[q] \in Holding <=> holder' = q
    BY <1>24 DEF CloseRebound, Holding, TypeOK
  <2> QED  BY <1>24, <2>1, <2>2
  DEF CloseRebound, Advance, SessionRecord, records, ghosts, procs, TypeOK
<1>25. ASSUME NEW p \in Proc, Admit(p) PROVE TypeOK'
  BY <1>25 DEF Admit, Holding, records, ghosts, procs, TypeOK
<1>26. ASSUME NEW p \in Proc, LeaveRecovery(p) PROVE TypeOK'
  BY <1>26 DEF LeaveRecovery, Holding, records, ghosts, procs, TypeOK
<1> QED
  BY <1>0, <1>1, <1>2, <1>3, <1>4, <1>5, <1>6, <1>7, <1>8, <1>9, <1>10, <1>11, <1>12,
    <1>13, <1>14, <1>15, <1>16, <1>17, <1>18, <1>19, <1>20, <1>21, <1>22, <1>23, <1>24,
    <1>25, <1>26 DEF Next, Recover

-----------------------------------------------------------------------------
(* The fence.                                                              *)

\* The calls that neither touch the fence nor hand out an epoch or a gate.
StoreCall(p) ==
  \/ OpenProject(p) \/ FinalizeProject(p) \/ ReopenProject(p) \/ OpenForRecovery(p)
  \/ \E epoch \in ClosingEpoch :
       BeginProjectClose(p, epoch) \/ RecordClosedProject(p, epoch)
  \/ \E s \in Sid : OpenSession(p, s) \/ SweepSession(p, s)
  \/ CloseSession(p)
  \/ \E x \in Operation :
       ReadReleased(p, x) \/ RegisterIntent(p, x) \/ AbandonOperation(p, x)
  \/ \E gate \in mem[p].gates, outcome \in Outcome : Acknowledge(p, gate, outcome)

\* Such a call leaves the fence, and what was handed out under it, alone.
LEMMA StoreCallFrame ==
  ASSUME TypeOK, NEW p \in Proc, StoreCall(p)
  PROVE  /\ UNCHANGED <<fence, holder, pc, goal, launched>>
         /\ \A q \in Proc : /\ mem'[q].fence = mem[q].fence
                            /\ mem'[q].gates = mem[q].gates
<1>1. mem[p] \in Memory /\ mem \in [Proc -> Memory]
  BY DEF TypeOK
<1>2. UNCHANGED <<fence, holder, pc, goal, launched>>
  BY DEF StoreCall, OpenProject, FinalizeProject, ReopenProject, OpenForRecovery,
    BeginProjectClose, RecordClosedProject, OpenSession, SweepSession, CloseSession,
    ReadReleased, RegisterIntent, AbandonOperation, Acknowledge, procs, ghosts, records
<1>3. \/ mem' = mem
      \/ \E s \in Sid : mem' = [mem EXCEPT ![p] = [mem[p] EXCEPT !.sid = s]]
      \/ \E r : mem' = [mem EXCEPT ![p] = [mem[p] EXCEPT !.origin = r]]
  <2>1. CASE \E s \in Sid : OpenSession(p, s)
    BY <2>1 DEF OpenSession, Transact
  <2>2. CASE \E x \in Operation : ReadReleased(p, x)
    <3>1. PICK x \in Operation : ReadReleased(p, x)
      BY <2>2
    <3>2. mem' = [mem EXCEPT ![p] = [mem[p] EXCEPT !.origin =
                                       {[op |-> x[2], ver |-> ops[x].ver]}]]
      BY <3>1 DEF ReadReleased
    <3> QED  BY <3>2
  <2>3. CASE mem' = mem \/ mem' = [mem EXCEPT ![p] = mem[p]]
    BY <1>1, <2>3
  <2> QED
    BY <2>1, <2>2, <2>3 DEF StoreCall, OpenProject, FinalizeProject, ReopenProject,
      OpenForRecovery, BeginProjectClose, RecordClosedProject, SweepSession,
      CloseSession, RegisterIntent, AbandonOperation, Acknowledge, Transact,
      Advance, Observe
<1> QED  BY <1>1, <1>2, <1>3 DEF Memory

\* Handing an epoch to its caller leaves every gate alone.
LEMMA EpochHanded ==
  ASSUME TypeOK, NEW p \in Proc, NEW epoch,
         mem' = mem \/ mem' = [mem EXCEPT ![p].fence = epoch]
  PROVE  \A q \in Proc : /\ mem'[q].gates = mem[q].gates
                         /\ mem'[q].fence \in {mem[q].fence, epoch}
<1>1. \A q \in Proc : mem[q] \in Memory
  BY DEF TypeOK
<1> QED  BY <1>1 DEF TypeOK, Memory

\* Every step keeps the goals.
LEMMA GoalStep == TypeOK /\ GoalOK /\ [Next]_vars => GoalOK'
<1> SUFFICES ASSUME TypeOK, GoalOK, [Next]_vars PROVE GoalOK'
  OBVIOUS
<1> USE DEF GoalOK, TypeOK
<1>1. CASE UNCHANGED vars
  BY <1>1 DEF vars, records, ghosts, procs
<1>2. ASSUME NEW p \in Proc, StoreCall(p) PROVE GoalOK'
  BY <1>2, StoreCallFrame
<1>3. ASSUME NEW p \in Proc, Start(p) PROVE GoalOK'
  BY <1>3 DEF Start, procs, records
<1>4. ASSUME NEW p \in Proc, Crash(p) PROVE GoalOK'
  BY <1>4 DEF Crash, procs, records
<1>5. ASSUME NEW p \in Proc, Abort(p) PROVE GoalOK'
  BY <1>5 DEF Abort, procs, records
<1>6. ASSUME NEW p \in Proc, NEW x \in Operation, Prepare(p, x) PROVE GoalOK'
  BY <1>6 DEF Prepare, procs, records
<1>7. ASSUME NEW p \in Proc, NEW purpose \in {"return", "rotate"},
             EstablishFence(p, purpose)
      PROVE  GoalOK'
  BY <1>7 DEF EstablishFence, procs, records
<1>8. ASSUME NEW p \in Proc, SettleFence(p) PROVE GoalOK'
  BY <1>8 DEF SettleFence, procs, records
<1>9. ASSUME NEW p \in Proc, ObserveFence(p) PROVE GoalOK'
  BY <1>9 DEF ObserveFence, procs, records
<1>10. ASSUME NEW p \in Proc, RotateFence(p) PROVE GoalOK'
  BY <1>10 DEF RotateFence, procs, records
<1>11. ASSUME NEW p \in Proc, RotateForRecovery(p) PROVE GoalOK'
  BY <1>11 DEF RotateForRecovery, procs, records
<1>12. ASSUME NEW p \in Proc, NEW s \in Sid, RebindSession(p, s) PROVE GoalOK'
  BY <1>12 DEF RebindSession, procs, records
<1>13. ASSUME NEW p \in Proc, CloseRebound(p) PROVE GoalOK'
  BY <1>13 DEF CloseRebound, procs, records
<1>14. ASSUME NEW p \in Proc, Admit(p) PROVE GoalOK'
  BY <1>14 DEF Admit, procs, records
<1>15. ASSUME NEW p \in Proc, LeaveRecovery(p) PROVE GoalOK'
  BY <1>15 DEF LeaveRecovery, procs, records
<1> QED
  BY <1>1, <1>2, <1>3, <1>4, <1>5, <1>6, <1>7, <1>8, <1>9, <1>10, <1>11, <1>12, <1>13,
    <1>14, <1>15 DEF StoreCall, Next, Recover

\* Every step keeps the fence where its holder thinks it is.
LEMMA FenceStep == TypeOK /\ GoalOK /\ FenceOK /\ [Next]_vars => FenceOK'
<1> SUFFICES ASSUME TypeOK, GoalOK, FenceOK, [Next]_vars PROVE FenceOK'
  OBVIOUS
<1>0. /\ fence.epoch \in Nat
      /\ \A q \in Proc : mem[q].fence \in Nat /\ \A gate \in mem[q].gates : gate.fence \in Nat
  BY MemoryTypes DEF TypeOK
<1> USE <1>0 DEF Unsettling, Rotated
<1>1. CASE UNCHANGED vars
  BY <1>1 DEF vars, records, ghosts, procs, FenceOK
<1>2. ASSUME NEW p \in Proc, StoreCall(p) PROVE FenceOK'
  BY <1>2, StoreCallFrame DEF FenceOK
<1>3. ASSUME NEW p \in Proc, Start(p) PROVE FenceOK'
  <2>1. \A q \in Proc : /\ mem'[q].gates = mem[q].gates \/ mem'[q].gates = {}
                        /\ mem'[q].fence = mem[q].fence \/ mem'[q].fence = 0
    BY <1>3 DEF Start, Forgotten, records, TypeOK
  <2>2. \A q \in Proc : pc'[q] = pc[q] \/ pc'[q] = "up"
    BY <1>3 DEF Start, TypeOK
  <2>3. UNCHANGED <<fence, goal>>
    BY <1>3 DEF Start, records
  <2> QED  BY <2>1, <2>2, <2>3 DEF FenceOK
<1>4. ASSUME NEW p \in Proc, Crash(p) PROVE FenceOK'
  <2>1. \A q \in Proc : /\ mem'[q].gates = mem[q].gates \/ mem'[q].gates = {}
                        /\ mem'[q].fence = mem[q].fence \/ mem'[q].fence = 0
    BY <1>4 DEF Crash, Forgotten, records, TypeOK
  <2>2. \A q \in Proc : \/ pc'[q] = "down"
                        \/ pc'[q] = pc[q] /\ goal'[q] = goal[q]
    BY <1>4 DEF Crash, TypeOK
  <2>3. UNCHANGED fence
    BY <1>4 DEF Crash
  <2> QED  BY <2>1, <2>2, <2>3 DEF FenceOK
<1>5. ASSUME NEW p \in Proc, Abort(p) PROVE FenceOK'
  BY <1>5 DEF Abort, procs, records, FenceOK, TypeOK, Holding
<1>6. ASSUME NEW p \in Proc, NEW x \in Operation, Prepare(p, x) PROVE FenceOK'
  <2>1. \A q \in Proc : pc[q] \notin Holding
    BY <1>6, NamesAssumption DEF Prepare, Free, TypeOK
  <2>2. fence.st = "observed" /\ UNCHANGED <<fence, pc, goal>>
    BY <1>6 DEF Prepare, procs
  <2>3. mem[p] \in Memory /\ mem \in [Proc -> Memory]
    BY DEF TypeOK
  <2>4. \A q \in Proc : /\ mem'[q].fence = mem[q].fence
                        /\ mem'[q].gates \subseteq mem[q].gates \cup {GateFor(x)}
    BY <1>6, <2>3 DEF Prepare, Transact, Memory
  <2>5. GateFor(x).fence = fence.epoch
    BY DEF GateFor
  <2> QED  BY <2>1, <2>2, <2>4, <2>5 DEF FenceOK, Holding
<1>7. ASSUME NEW p \in Proc, NEW purpose \in {"return", "rotate"},
             EstablishFence(p, purpose)
      PROVE  FenceOK'
  <2>1. \A q \in Proc : /\ pc[q] \notin Holding
                        /\ mem'[q].gates = mem[q].gates
                        /\ mem'[q].fence \in {mem[q].fence, fence.epoch}
    <3>1. mem' = mem \/ mem' = [mem EXCEPT ![p].fence = fence.epoch]
      BY <1>7 DEF EstablishFence
    <3>2. \A q \in Proc : pc[q] \notin Holding
      BY <1>7, NamesAssumption DEF EstablishFence, Free, TypeOK
    <3> QED  BY <3>1, <3>2, EpochHanded
  <2>2. \A q \in Proc : ~Rotated(q)'
    BY <1>7, <2>1 DEF EstablishFence, Holding, TypeOK
  <2>3. CASE fence.st = "absent"
    BY <1>7, <2>1, <2>2, <2>3 DEF EstablishFence, FenceOK, Holding, TypeOK
  <2>4. CASE fence.st = "observed" /\ purpose = "return"
    <3>1. UNCHANGED <<fence, pc, goal>>
      BY <1>7, <2>4 DEF EstablishFence
    <3> QED  BY <2>1, <2>2, <2>4, <3>1 DEF FenceOK, Holding
  <2>5. CASE fence.st # "absent" /\ ~(fence.st = "observed" /\ purpose = "return")
    <3>1. fence' = fence /\ mem' = mem
      BY <1>7, <2>5 DEF EstablishFence, Resumed
    <3>2. \A q \in Proc :
            \/ pc'[q] = pc[q]
            \/ pc'[q] = "rotate" /\ fence.st = "observed"
            \/ pc'[q] = "settle" /\ fence.st # "observed"
      BY <1>7, <2>5 DEF EstablishFence, TypeOK
    <3>3. fence.st \in {"absent", "intent", "unknown", "observed"}
      BY DEF TypeOK
    <3> QED  BY <2>1, <2>2, <2>5, <3>1, <3>2, <3>3 DEF FenceOK, Holding
  <2> QED  BY <2>3, <2>4, <2>5
<1>8. ASSUME NEW p \in Proc, SettleFence(p) PROVE FenceOK'
  BY <1>8 DEF SettleFence, procs, records, FenceOK, TypeOK, Holding
<1>9. ASSUME NEW p \in Proc, ObserveFence(p) PROVE FenceOK'
  <2>1. \A q \in Proc : q # p => pc[q] \notin Holding /\ pc'[q] = pc[q]
    BY <1>9, NamesAssumption DEF ObserveFence, Holding, TypeOK
  <2>2. fence.st = "unknown" /\ fence' = [fence EXCEPT !.st = "observed"]
    BY <1>9 DEF ObserveFence, FenceOK
  <2>3. fence'.epoch = fence.epoch /\ fence'.st = "observed" /\ fence.epoch # 0
    BY <2>2 DEF FenceOK, TypeOK
  <2>4. \A q \in Proc : /\ mem'[q].gates = mem[q].gates
                        /\ mem'[q].fence \in {mem[q].fence, fence.epoch}
    BY <1>9, EpochHanded DEF ObserveFence
  <2>5. \A q \in Proc : pc'[q] \notin {"settle", "observe"}
    BY <1>9, <2>1 DEF ObserveFence, GoalOK, TypeOK, Holding
  <2> QED  BY <2>2, <2>3, <2>4, <2>5 DEF FenceOK
<1>10. ASSUME NEW p \in Proc, RotateFence(p) PROVE FenceOK'
  <2>1. \A q \in Proc : pc[q] \notin Holding
    BY <1>10, NamesAssumption DEF RotateFence, Free, TypeOK
  <2>2. /\ mem' = mem /\ fence' = [st |-> "intent", epoch |-> fence.epoch + 1]
        /\ \A q \in Proc : pc'[q] = pc[q] \/ pc'[q] = "settle"
    BY <1>10 DEF RotateFence, TypeOK
  <2> QED  BY <2>1, <2>2 DEF FenceOK, Holding
<1>11. ASSUME NEW p \in Proc, RotateForRecovery(p) PROVE FenceOK'
  BY <1>11 DEF RotateForRecovery, procs, records, FenceOK, TypeOK, Holding
<1>12. ASSUME NEW p \in Proc, NEW s \in Sid, RebindSession(p, s) PROVE FenceOK'
  <2>1. \A q \in Proc :
          \/ pc'[q] = pc[q] /\ goal'[q] = goal[q]
          \/ /\ pc[q] \in {"interpret", "rebound"}
             /\ pc'[q] \in {"interpret", "rebound"}
    BY <1>12 DEF RebindSession, TypeOK
  <2>2. UNCHANGED <<fence, mem>>
    BY <1>12 DEF RebindSession, Advance
  <2> QED  BY <2>1, <2>2 DEF FenceOK
<1>13. ASSUME NEW p \in Proc, CloseRebound(p) PROVE FenceOK'
  <2>1. \A q \in Proc :
          \/ pc'[q] = pc[q] /\ goal'[q] = goal[q]
          \/ /\ pc[q] \in {"interpret", "rebound"}
             /\ pc'[q] \in {"interpret", "rebound"}
    BY <1>13 DEF CloseRebound, TypeOK
  <2>2. UNCHANGED <<fence, mem>>
    BY <1>13 DEF CloseRebound, Advance
  <2> QED  BY <2>1, <2>2 DEF FenceOK
<1>14. ASSUME NEW p \in Proc, Admit(p) PROVE FenceOK'
  BY <1>14 DEF Admit, procs, records, FenceOK, TypeOK, Holding
<1>15. ASSUME NEW p \in Proc, LeaveRecovery(p) PROVE FenceOK'
  BY <1>15 DEF LeaveRecovery, procs, records, FenceOK, TypeOK, Holding
<1> QED
  BY <1>1, <1>2, <1>3, <1>4, <1>5, <1>6, <1>7, <1>8, <1>9, <1>10, <1>11, <1>12, <1>13,
    <1>14, <1>15 DEF StoreCall, Next, Recover

-----------------------------------------------------------------------------
(* Sessions and their operations.                                          *)

\* An operation is a session and a key.
LEMMA OperationParts ==
  /\ \A x \in Operation : x[1] \in Sid /\ x[2] \in Op /\ x = <<x[1], x[2]>>
  /\ \A s \in Sid, o \in Op : <<s, o>> \in Operation
BY DEF Operation

\* Who enters the store finds nobody between two writes.
LEMMA FreeFacts ==
  ASSUME TypeOK, NEW p \in Proc, Free(p)
  PROVE  \A q \in Proc : pc[q] \notin Holding
BY NamesAssumption DEF Free, TypeOK

\* A session without an unknown outcome among its operations has none at all.
LEMMA NothingUnknown ==
  ASSUME MembersOK, NEW s \in Sid,
         \A o \in sess[s].ops : ops[<<s, o>>].phase \notin Unknown
  PROVE  \A x \in Operation : x[1] = s => ops[x].phase # "unknown"
BY OperationParts DEF MembersOK, Unknown

\* Filing such a session away.
LEMMA SessionFiled ==
  ASSUME TypeOK, MembersOK, OneOpenSession, NEW s \in Sid,
         \A x \in Operation : x[1] = s => ops[x].phase # "unknown",
         \/ sess' = [sess EXCEPT ![s].st = "closed"]
         \/ sess' = [sess EXCEPT ![s].st = "closed", ![s].marker = 0],
         ops' = ops
  PROVE  MembersOK' /\ OneOpenSession'
<1>1. \A t \in Sid : /\ sess'[t].ops = sess[t].ops
                     /\ sess'[t].st = IF t = s THEN "closed" ELSE sess[t].st
  <2>1. sess \in [Sid -> SessionRecord]
    BY DEF TypeOK, SessionRecord
  <2>2. \A r \in SessionRecord :
          /\ [r EXCEPT !.st = "closed"].ops = r.ops
          /\ [r EXCEPT !.st = "closed"].st = "closed"
          /\ [r EXCEPT !.st = "closed", !.marker = 0].ops = r.ops
          /\ [r EXCEPT !.st = "closed", !.marker = 0].st = "closed"
    BY DEF SessionRecord
  <2>3. CASE sess' = [sess EXCEPT ![s].st = "closed"]
    <3>1. sess' = [sess EXCEPT ![s] = [sess[s] EXCEPT !.st = "closed"]]
      BY <2>3
    <3> QED  BY <2>1, <2>2, <3>1
  <2>4. CASE sess' = [sess EXCEPT ![s].st = "closed", ![s].marker = 0]
    <3>1. sess' = [sess EXCEPT ![s] = [sess[s] EXCEPT !.st = "closed", !.marker = 0]]
      BY <2>1, <2>4
    <3> QED  BY <2>1, <2>2, <3>1
  <2> QED  BY <2>3, <2>4
<1>2. OneOpenSession'
  BY <1>1 DEF OneOpenSession, OpenSessions
<1> QED  BY <1>1, <1>2, OperationParts DEF MembersOK

\* The steps that change neither the sessions nor the operations.
LEMMA RecordsFrame ==
  ASSUME MembersOK, RebindOK, OneOpenSession, UNCHANGED <<sess, ops>>,
         \A q \in Proc : pc'[q] = "rebound" => pc[q] = "rebound" /\ goal'[q] = goal[q]
  PROVE  MembersOK' /\ RebindOK' /\ OneOpenSession'
BY DEF MembersOK, RebindOK, OneOpenSession, OpenSessions

SessionsOK == MembersOK /\ RebindOK /\ OneOpenSession

\* Every step keeps what relates the sessions to their operations.
LEMMA SessionStep ==
  TypeOK /\ GoalOK /\ SessionsOK /\ [Next]_vars => SessionsOK'
<1> SUFFICES ASSUME TypeOK, GoalOK, SessionsOK, [Next]_vars PROVE SessionsOK'
  OBVIOUS
<1> USE DEF SessionsOK
<1>1. CASE UNCHANGED vars
  BY <1>1, RecordsFrame DEF vars
<1>2. ASSUME NEW p \in Proc,
             \/ Start(p) \/ Crash(p) \/ Abort(p) \/ SettleFence(p) \/ ObserveFence(p)
             \/ RotateFence(p) \/ RotateForRecovery(p) \/ Admit(p) \/ LeaveRecovery(p)
      PROVE  SessionsOK'
  <2>1. UNCHANGED <<sess, ops>>
    BY <1>2 DEF Start, Crash, Abort, SettleFence, ObserveFence, RotateFence,
      RotateForRecovery, Admit, LeaveRecovery, records
  <2>2. \A q \in Proc : pc'[q] = "rebound" => pc[q] = "rebound" /\ goal'[q] = goal[q]
    BY <1>2 DEF Start, Crash, Abort, SettleFence, ObserveFence, RotateFence,
      RotateForRecovery, Admit, LeaveRecovery, GoalOK, TypeOK
  <2> QED  BY <2>1, <2>2, RecordsFrame
<1>3. ASSUME NEW p \in Proc, NEW purpose \in {"return", "rotate"},
             EstablishFence(p, purpose)
      PROVE  SessionsOK'
  <2>1. \A q \in Proc : pc'[q] # "rebound"
    BY <1>3, FreeFacts DEF EstablishFence, Holding, TypeOK
  <2> QED  BY <1>3, <2>1, RecordsFrame DEF EstablishFence
<1>4. ASSUME NEW p \in Proc,
             OpenProject(p) \/ FinalizeProject(p) \/ ReopenProject(p) \/ OpenForRecovery(p)
      PROVE  SessionsOK'
  BY <1>4, RecordsFrame
  DEF OpenProject, FinalizeProject, ReopenProject, OpenForRecovery,
    procs
<1>5. ASSUME NEW p \in Proc, NEW epoch \in ClosingEpoch, BeginProjectClose(p,
             epoch) \/ RecordClosedProject(p, epoch)
      PROVE  SessionsOK'
  BY <1>5, RecordsFrame DEF BeginProjectClose, RecordClosedProject, procs
<1>6. ASSUME NEW p \in Proc, NEW x \in Operation, ReadReleased(p, x) PROVE SessionsOK'
  BY <1>6, RecordsFrame DEF ReadReleased, procs, records
<1>7. ASSUME NEW p \in Proc, NEW s \in Sid, OpenSession(p, s) PROVE SessionsOK'
  <2>1. UNCHANGED <<ops, pc, goal>> /\ OpenSessions = {} /\ sess[s].st = "absent"
    BY <1>7 DEF OpenSession, Admissible, procs
  <2>2. \A t \in Sid : IF t = s THEN sess'[t].st = "open" ELSE sess'[t] = sess[t]
    BY <1>7 DEF OpenSession, TypeOK
  <2>3. MembersOK'
    BY <2>1, <2>2, OperationParts DEF MembersOK
  <2>4. OneOpenSession'
    BY <2>1, <2>2 DEF OneOpenSession, OpenSessions
  <2> QED  BY <2>1, <2>3, <2>4 DEF RebindOK
<1>8. ASSUME NEW p \in Proc, NEW s \in Sid, SweepSession(p, s) PROVE SessionsOK'
  <2>1. \A x \in Operation : x[1] = s => ops[x].phase # "unknown"
    BY <1>8, NothingUnknown DEF SweepSession, Sweepable
  <2>2. UNCHANGED <<ops, pc, goal>>
    BY <1>8 DEF SweepSession, procs
  <2>3. MembersOK' /\ OneOpenSession'
    BY <1>8, <2>1, <2>2, SessionFiled DEF SweepSession
  <2> QED  BY <2>2, <2>3 DEF RebindOK
<1>9. ASSUME NEW p \in Proc, CloseSession(p) PROVE SessionsOK'
  <2>1. mem[p].sid \in Sid
    BY <1>9, MemoryTypes DEF CloseSession, Joined
  <2>2. \A x \in Operation : x[1] = mem[p].sid => ops[x].phase # "unknown"
    BY <1>9, <2>1, NothingUnknown DEF CloseSession, Unsettled, HoldsAuthority
  <2>3. UNCHANGED <<ops, pc, goal>>
    BY <1>9 DEF CloseSession, procs
  <2>4. MembersOK' /\ OneOpenSession'
    BY <1>9, <2>1, <2>2, <2>3, SessionFiled DEF CloseSession
  <2> QED  BY <2>3, <2>4 DEF RebindOK
<1>10. ASSUME NEW p \in Proc, NEW x \in Operation, RegisterIntent(p, x)
      PROVE  SessionsOK'
  <2>1. \A q \in Proc : pc'[q] # "rebound"
    BY <1>10, FreeFacts DEF RegisterIntent, Holding, procs
  <2>2. /\ \A y \in Operation : y # x => ops'[y] = ops[y]
        /\ ops'[x].phase = "intent"
    BY <1>10 DEF RegisterIntent, Record, TypeOK
  <2>3. /\ \A t \in Sid : sess'[t].st = sess[t].st /\ sess[t].ops \subseteq sess'[t].ops
        /\ x[2] \in sess'[x[1]].ops
    <3>1. sess \in [Sid -> SessionRecord] /\ x[1] \in Sid
      BY OperationParts DEF TypeOK, SessionRecord
    <3>2. \A r \in SessionRecord, o \in Op :
            /\ [r EXCEPT !.ops = r.ops \cup {o}].st = r.st
            /\ [r EXCEPT !.ops = r.ops \cup {o}].ops = r.ops \cup {o}
      BY DEF SessionRecord
    <3>3. sess' = [sess EXCEPT ![x[1]] = [sess[x[1]] EXCEPT !.ops = sess[x[1]].ops \cup {x[2]}]]
      BY <1>10 DEF RegisterIntent
    <3> QED  BY <3>1, <3>2, <3>3, OperationParts
  <2>4. sess[x[1]].st = "open"
    BY <1>10 DEF RegisterIntent, Joined
  <2>5. MembersOK'
    BY <2>2, <2>3, <2>4, OperationParts DEF MembersOK
  <2>6. OneOpenSession'
    BY <2>3 DEF OneOpenSession, OpenSessions
  <2> QED  BY <2>1, <2>5, <2>6 DEF RebindOK
<1>11. ASSUME NEW p \in Proc, NEW x \in Operation, Prepare(p, x) PROVE SessionsOK'
  <2>1. \A q \in Proc : pc'[q] # "rebound"
    BY <1>11, FreeFacts DEF Prepare, Holding, procs
  <2>2. \A y \in Operation : y # x => ops'[y] = ops[y]
    BY <1>11 DEF Prepare, TypeOK
  <2>3. sess' = sess /\ x[2] \in sess[x[1]].ops /\ sess[x[1]].st = "open"
    BY <1>11 DEF Prepare, Joined
  <2>4. MembersOK'
    BY <2>2, <2>3 DEF MembersOK
  <2> QED  BY <2>1, <2>3, <2>4 DEF RebindOK, OneOpenSession, OpenSessions
<1>12. ASSUME NEW p \in Proc, NEW gate \in mem[p].gates, NEW outcome \in Outcome,
             Acknowledge(p, gate, outcome)
      PROVE  SessionsOK'
  <2>1. gate.at \in Operation /\ ops[gate.at].phase = "unknown"
    BY <1>12, MemoryTypes DEF Acknowledge, Matches, Unknown
  <2>2. \A x \in Operation :
          \/ ops'[x] = ops[x]
          \/ ops[x].phase = "unknown" /\ ops'[x].phase # "unknown"
    <3>1. outcome # "unknown"
      BY OutcomeAssumption DEF Observed
    <3>2. Record(gate.at, outcome, gate.fence, gate.attempt).phase = outcome
      BY DEF Record
    <3>3. /\ ops'[gate.at].phase = outcome
          /\ \A x \in Operation : x # gate.at => ops'[x] = ops[x]
      BY <1>12, <2>1, <3>2 DEF Acknowledge, TypeOK
    <3> QED  BY <2>1, <3>1, <3>3
  <2>3. UNCHANGED <<sess, pc, goal>>
    BY <1>12 DEF Acknowledge, procs
  <2> QED
    BY <2>2, <2>3 DEF MembersOK, RebindOK, OneOpenSession, OpenSessions
<1>13. ASSUME NEW p \in Proc, NEW x \in Operation, AbandonOperation(p, x)
      PROVE  SessionsOK'
  <2>1. \A y \in Operation :
          \/ ops'[y] = ops[y]
          \/ ops[y].phase # "none" /\ ops'[y].phase = "abandoned"
    <3>1. Record(x, "abandoned", fence.epoch, ops[x].attempt).phase = "abandoned"
      BY DEF Record
    <3>2. /\ ops'[x].phase = "abandoned"
          /\ \A y \in Operation : y # x => ops'[y] = ops[y]
      BY <1>13, <3>1 DEF AbandonOperation, TypeOK
    <3>3. ops[x].phase # "none"
      BY <1>13 DEF AbandonOperation, Continuable, FencedRetryable
    <3> QED  BY <3>2, <3>3
  <2>2. UNCHANGED <<sess, pc, goal>>
    BY <1>13 DEF AbandonOperation, procs
  <2> QED
    BY <2>1, <2>2 DEF MembersOK, RebindOK, OneOpenSession, OpenSessions
<1>14. ASSUME NEW p \in Proc, NEW s \in Sid, RebindSession(p, s) PROVE SessionsOK'
  <2>1. \A x \in Operation : x[1] = s => ops[x].phase # "unknown"
    BY <1>14, NothingUnknown DEF RebindSession, Unsettled, HoldsAuthority
  <2>2. UNCHANGED ops /\ \A q \in Proc :
          pc'[q] = "rebound" => \/ goal'[q] = s
                                \/ pc[q] = "rebound" /\ goal'[q] = goal[q]
    BY <1>14 DEF RebindSession, TypeOK
  <2>3. \A t \in Sid : sess'[t].st = sess[t].st /\ sess'[t].ops = sess[t].ops
    BY <1>14 DEF RebindSession, TypeOK
  <2> QED
    BY <2>1, <2>2, <2>3, OperationParts
    DEF MembersOK, RebindOK, OneOpenSession, OpenSessions
<1>15. ASSUME NEW p \in Proc, CloseRebound(p) PROVE SessionsOK'
  <2>1. goal[p] \in Sid /\ \A x \in Operation : x[1] = goal[p] => ops[x].phase # "unknown"
    BY <1>15 DEF CloseRebound, GoalOK, RebindOK
  <2>2. UNCHANGED ops /\ \A q \in Proc :
          pc'[q] = "rebound" => pc[q] = "rebound" /\ goal'[q] = goal[q]
    BY <1>15 DEF CloseRebound, TypeOK
  <2>3. MembersOK' /\ OneOpenSession'
    BY <1>15, <2>1, <2>2, SessionFiled DEF CloseRebound
  <2> QED  BY <2>2, <2>3 DEF RebindOK
<1> QED
  BY <1>1, <1>2, <1>3, <1>4, <1>5, <1>6, <1>7, <1>8, <1>9, <1>10, <1>11, <1>12, <1>13,
    <1>14, <1>15 DEF Next, Recover

-----------------------------------------------------------------------------
(* Attempts, gates and outcomes.                                           *)

\* The fence epoch never goes back.
LEMMA EpochGrows ==
  ASSUME TypeOK, FenceOK, [Next]_vars
  PROVE  fence'.epoch \in Nat /\ fence.epoch \in Nat /\ fence'.epoch >= fence.epoch
<1>0. fence.epoch \in Nat
  BY DEF TypeOK
<1>1. ASSUME NEW p \in Proc, StoreCall(p) PROVE fence' = fence
  BY <1>1, StoreCallFrame
<1>2. ASSUME NEW p \in Proc, NEW purpose \in {"return", "rotate"},
             EstablishFence(p, purpose)
      PROVE  \/ fence'.epoch = fence.epoch
             \/ fence'.epoch = 1 /\ fence.epoch = 0
  BY <1>2 DEF EstablishFence, Resumed, FenceOK
<1>3. ASSUME NEW p \in Proc, SettleFence(p) \/ ObserveFence(p)
      PROVE  fence'.epoch = fence.epoch
  BY <1>3 DEF SettleFence, ObserveFence, TypeOK
<1>4. ASSUME NEW p \in Proc, RotateFence(p) \/ RotateForRecovery(p)
      PROVE  fence'.epoch = fence.epoch + 1
  BY <1>4 DEF RotateFence, RotateForRecovery
<1>5. ASSUME NEW p \in Proc,
             \/ Start(p) \/ Crash(p) \/ Abort(p) \/ Admit(p) \/ LeaveRecovery(p)
             \/ CloseRebound(p) \/ \E s \in Sid : RebindSession(p, s)
             \/ \E x \in Operation : Prepare(p, x)
      PROVE  fence' = fence
  BY <1>5 DEF Start, Crash, Abort, Admit, LeaveRecovery, CloseRebound, RebindSession,
    Prepare, records
<1>6. CASE UNCHANGED vars
  BY <1>6, <1>0 DEF vars
<1> QED
  BY <1>0, <1>1, <1>2, <1>3, <1>4, <1>5, <1>6 DEF Next, Recover, StoreCall

\* The steps that leave every operation and its history alone.
LEMMA CallsFrame ==
  ASSUME TypeOK, AttemptsOK, GatesOK, fence'.epoch \in Nat, fence.epoch \in Nat,
         fence'.epoch >= fence.epoch,
         UNCHANGED <<ops, used, launched, answered>>,
         \A q \in Proc : mem'[q].gates = mem[q].gates \/ mem'[q].gates = {}
  PROVE  AttemptsOK' /\ GatesOK'
<1>1. \A x \in Operation : ops[x].fence \in Nat
  BY RecordTypes
<1>2. AttemptsOK'
  BY <1>1 DEF AttemptsOK
<1> QED  BY <1>2 DEF GatesOK, OutcomesAnswerTheLatestCall

\* A new record of one operation that is not a gate's: older gates are behind it.
LEMMA RecordMoves ==
  ASSUME TypeOK, GatesOK, NEW x \in Operation, NEW next \in OperationRecord,
         next.ver = ops[x].ver + 1, ops' = [ops EXCEPT ![x] = next],
         UNCHANGED launched,
         \A q \in Proc : mem'[q].gates = mem[q].gates
  PROVE  \A q \in Proc : \A gate \in mem'[q].gates :
           /\ gate.ver <= ops'[gate.at].ver
           /\ gate.ver = ops'[gate.at].ver /\ ops'[gate.at].phase = "unknown"
                => gate.call = launched'[gate.at]
<1> SUFFICES ASSUME NEW q \in Proc, NEW gate \in mem[q].gates
             PROVE  /\ gate.ver <= ops'[gate.at].ver
                    /\ gate.ver = ops'[gate.at].ver /\ ops'[gate.at].phase = "unknown"
                         => gate.call = launched[gate.at]
  OBVIOUS
<1>1. gate.at \in Operation /\ gate.ver \in Nat /\ gate.ver <= ops[gate.at].ver
  BY MemoryTypes DEF GatesOK
<1>2. CASE gate.at = x
  <2>1. ops[x].ver \in Nat
    BY RecordTypes
  <2>2. ops'[gate.at] = next
    BY <1>2 DEF TypeOK
  <2> QED  BY <1>1, <1>2, <2>1, <2>2
<1>3. CASE gate.at # x
  <2>1. ops'[gate.at] = ops[gate.at]
    BY <1>1, <1>3 DEF TypeOK
  <2> QED  BY <1>1, <2>1 DEF GatesOK
<1> QED  BY <1>2, <1>3

\* What a preparation adds to the fences of its operation was not among them.
LEMMA FenceIsNew ==
  ASSUME TypeOK, AttemptsOK, NEW p \in Proc, NEW x \in Operation, Prepare(p, x)
  PROVE  fence.epoch \notin used[x]
<1>1. ops[x].fence \in Nat /\ fence.epoch \in Nat /\ used[x] \subseteq Nat
  BY RecordTypes DEF TypeOK
<1>2. CASE ops[x].phase = "intent"
  BY <1>2 DEF AttemptsOK
<1>3. CASE ops[x].phase = "retryable"
  <2>1. ops[x].fence < fence.epoch
    BY <1>3 DEF Prepare, FreshFence, FencedRetryable
  <2>2. \A e \in used[x] : e <= ops[x].fence
    BY DEF AttemptsOK
  <2> QED  BY <1>1, <2>1, <2>2
<1> QED
  BY <1>2, <1>3 DEF Prepare, Continuable, FencedRetryable

CallsOK == AttemptsOK /\ GatesOK

\* Every step keeps what relates attempts, gates and outcomes.
LEMMA CallStep == TypeOK /\ FenceOK /\ CallsOK /\ [Next]_vars => CallsOK'
<1> SUFFICES ASSUME TypeOK, FenceOK, CallsOK, [Next]_vars PROVE CallsOK'
  OBVIOUS
<1>0. fence.epoch \in Nat /\ fence'.epoch \in Nat /\ fence'.epoch >= fence.epoch
  BY EpochGrows
<1>a. \A x \in Operation : /\ ops[x].fence \in Nat /\ ops[x].attempt \in Nat
                           /\ ops[x].ver \in Nat /\ launched[x] \in Nat
  BY RecordTypes DEF TypeOK
<1>b. mem \in [Proc -> Memory] /\ ops \in [Operation -> OperationRecord]
  BY DEF TypeOK, OperationRecord
<1> USE <1>0 DEF CallsOK
<1>1. CASE UNCHANGED vars
  BY <1>1, CallsFrame DEF vars
<1>2. ASSUME NEW p \in Proc, Start(p) \/ Crash(p) PROVE CallsOK'
  <2>1. \A q \in Proc : mem'[q].gates = mem[q].gates \/ mem'[q].gates = {}
    BY <1>2 DEF Start, Crash, Forgotten, TypeOK
  <2> QED  BY <1>2, <2>1, CallsFrame DEF Start, Crash, records, ghosts
<1>3. ASSUME NEW p \in Proc,
             \/ OpenProject(p) \/ FinalizeProject(p) \/ ReopenProject(p) \/ OpenForRecovery(p)
             \/ \E epoch \in ClosingEpoch :
                  BeginProjectClose(p, epoch) \/ RecordClosedProject(p, epoch)
             \/ \E s \in Sid : OpenSession(p, s) \/ SweepSession(p, s)
             \/ CloseSession(p) \/ \E x \in Operation : ReadReleased(p, x)
      PROVE  CallsOK'
  <2>1. \A q \in Proc : mem'[q].gates = mem[q].gates
    BY <1>3, StoreCallFrame DEF StoreCall
  <2>2. UNCHANGED <<ops, used, launched, answered>>
    BY <1>3 DEF OpenProject, FinalizeProject, ReopenProject, OpenForRecovery,
      BeginProjectClose, RecordClosedProject, OpenSession, SweepSession, CloseSession,
      ReadReleased, records, ghosts
  <2> QED  BY <2>1, <2>2, CallsFrame
<1>4. ASSUME NEW p \in Proc,
             \/ Abort(p) \/ SettleFence(p) \/ RotateFence(p) \/ RotateForRecovery(p) \/ Admit(p)
             \/ LeaveRecovery(p) \/ CloseRebound(p) \/ \E s \in Sid : RebindSession(p, s)
      PROVE  CallsOK'
  <2>1. UNCHANGED <<mem, ops, used, launched, answered>>
    BY <1>4
    DEF Abort, SettleFence, RotateFence, RotateForRecovery, Admit, LeaveRecovery,
      CloseRebound, RebindSession, Advance, records, ghosts
  <2> QED  BY <2>1, CallsFrame
<1>5. ASSUME NEW p \in Proc,
             \/ ObserveFence(p)
             \/ \E purpose \in {"return", "rotate"} : EstablishFence(p, purpose)
      PROVE  CallsOK'
  <2>1. mem' = mem \/ mem' = [mem EXCEPT ![p].fence = fence.epoch]
    BY <1>5 DEF ObserveFence, EstablishFence
  <2>2. \A q \in Proc : mem'[q].gates = mem[q].gates
    BY <2>1, EpochHanded
  <2>3. UNCHANGED <<ops, used, launched, answered>>
    BY <1>5 DEF ObserveFence, EstablishFence, ghosts
  <2> QED  BY <2>2, <2>3, CallsFrame
<1>6. ASSUME NEW p \in Proc, NEW x \in Operation, RegisterIntent(p, x) PROVE CallsOK'
  <2> DEFINE next == Record(x, "intent", 0, 0)
  <2>1. /\ next \in OperationRecord /\ next.ver = ops[x].ver + 1
        /\ next.phase = "intent" /\ next.fence = 0 /\ next.attempt = 0
    BY <1>a, RecordTypes DEF Record, Phase, Continuable
  <2>2. /\ ops' = [ops EXCEPT ![x] = next] /\ used' = [used EXCEPT ![x] = {}]
        /\ UNCHANGED <<launched, answered>>
    BY <1>6 DEF RegisterIntent
  <2> HIDE DEF next
  <2>3. \A q \in Proc : mem'[q].gates = mem[q].gates
    BY <1>6, StoreCallFrame DEF StoreCall
  <2>4. AttemptsOK'
    BY <1>a, <2>1, <2>2, FS_EmptySet DEF AttemptsOK, TypeOK
  <2>5. OutcomesAnswerTheLatestCall'
    BY <2>1, <2>2 DEF GatesOK, OutcomesAnswerTheLatestCall, Observed, TypeOK
  <2> QED  BY <2>1, <2>2, <2>3, <2>4, <2>5, RecordMoves DEF GatesOK
<1>7. ASSUME NEW p \in Proc, NEW x \in Operation, Prepare(p, x) PROVE CallsOK'
  <2> DEFINE next == Record(x, "unknown", fence.epoch, ops[x].attempt + 1)
  <2>1. /\ next.ver = ops[x].ver + 1
        /\ next.phase = "unknown" /\ next.fence = fence.epoch
        /\ next.attempt = ops[x].attempt + 1
    BY DEF Record
  <2>2. /\ ops' = [ops EXCEPT ![x] = next]
        /\ used' = [used EXCEPT ![x] = used[x] \cup {fence.epoch}]
        /\ launched' = [launched EXCEPT ![x] = launched[x] + 1]
        /\ UNCHANGED answered
    BY <1>7 DEF Prepare
  <2>3. \A q \in Proc : mem'[q].gates \subseteq mem[q].gates \cup {GateFor(x)}
    BY <1>7, <1>b DEF Prepare, Transact, Memory
  <2> HIDE DEF next
  <2>4. /\ ops'[x] = next /\ used'[x] = used[x] \cup {fence.epoch}
        /\ launched'[x] = launched[x] + 1
        /\ \A y \in Operation \ {x} :
             /\ ops'[y] = ops[y] /\ used'[y] = used[y] /\ launched'[y] = launched[y]
    BY <2>2, <1>b DEF TypeOK
  <2>5. /\ IsFiniteSet(used'[x]) /\ Cardinality(used'[x]) = ops'[x].attempt
        /\ \A e \in used'[x] : e <= ops'[x].fence
    <3>1. IsFiniteSet(used[x]) /\ Cardinality(used[x]) = ops[x].attempt
          /\ \A e \in used[x] : e \in Nat /\ e <= ops[x].fence
          /\ ops[x].fence <= fence.epoch
      BY DEF AttemptsOK, TypeOK
    <3>2. /\ IsFiniteSet(used[x] \cup {fence.epoch})
          /\ Cardinality(used[x] \cup {fence.epoch}) = ops[x].attempt + 1
      BY <1>7, <3>1, FenceIsNew, FS_AddElement
    <3> QED  BY <1>a, <2>1, <2>4, <3>1, <3>2
  <2>6. AttemptsOK'
    <3>1. fence' = fence
      BY <1>7 DEF Prepare
    <3>2. ASSUME NEW y \in Operation \ {x}
          PROVE  /\ IsFiniteSet(used'[y]) /\ Cardinality(used'[y]) = ops'[y].attempt
                 /\ \A e \in used'[y] : e <= ops'[y].fence
                 /\ ops'[y].fence <= fence'.epoch
                 /\ ops'[y].phase \in {"none", "intent"} => used'[y] = {}
      BY <2>4, <3>1 DEF AttemptsOK
    <3>3. ops'[x].fence <= fence'.epoch /\ ops'[x].phase = "unknown"
      BY <2>1, <2>4, <3>1
    <3> QED  BY <2>5, <3>2, <3>3 DEF AttemptsOK
  <2>7. ASSUME NEW q \in Proc, NEW gate \in mem'[q].gates
        PROVE  /\ gate.ver <= ops'[gate.at].ver
               /\ gate.ver = ops'[gate.at].ver /\ ops'[gate.at].phase = "unknown"
                    => gate.call = launched'[gate.at]
    <3>1. CASE gate = GateFor(x)
      BY <3>1, <1>a, <2>1, <2>4 DEF GateFor
    <3>2. CASE gate \in mem[q].gates
      <4>1. gate.at \in Operation /\ gate.ver \in Nat
        BY <3>2, MemoryTypes
      <4>2. gate.ver <= ops[gate.at].ver
        BY <3>2 DEF GatesOK
      <4>3. CASE gate.at = x
        BY <4>1, <4>2, <4>3, <1>a, <2>1, <2>4
      <4>4. CASE gate.at # x
        BY <3>2, <4>1, <4>4, <2>4 DEF GatesOK
      <4> QED  BY <4>3, <4>4
    <3> QED  BY <2>3, <3>1, <3>2
  <2>8. OutcomesAnswerTheLatestCall'
    BY <2>1, <2>2, <2>4 DEF GatesOK, OutcomesAnswerTheLatestCall, Observed
  <2> QED  BY <2>6, <2>7, <2>8 DEF GatesOK
<1>8. ASSUME NEW p \in Proc, NEW gate \in mem[p].gates, NEW outcome \in Outcome,
             Acknowledge(p, gate, outcome)
      PROVE  CallsOK'
  <2> DEFINE x == gate.at
             next == Record(x, outcome, gate.fence, gate.attempt)
  <2>1. /\ x \in Operation /\ gate.fence \in Nat /\ gate.attempt \in Nat
        /\ outcome \in Observed
    BY MemoryTypes, OutcomeAssumption
  <2>2. /\ ops[x].ver = gate.ver /\ ops[x].fence = gate.fence
        /\ ops[x].attempt = gate.attempt /\ ops[x].phase = "unknown"
    BY <1>8 DEF Acknowledge, Matches, Unknown
  <2>3. /\ ops' = [ops EXCEPT ![x] = next]
        /\ answered' = [answered EXCEPT ![x] = gate.call]
        /\ UNCHANGED <<launched, used>>
    BY <1>8 DEF Acknowledge
  <2>4. gate.call = launched[x]
    BY <2>2 DEF GatesOK
  <2>5. \A q \in Proc : mem'[q].gates = mem[q].gates
    BY <1>8, StoreCallFrame DEF StoreCall
  <2>6. /\ next \in OperationRecord /\ next.ver = ops[x].ver + 1
        /\ next.phase = outcome
        /\ next.fence = ops[x].fence /\ next.attempt = ops[x].attempt
    BY <1>a, <2>1, <2>2, RecordTypes DEF Record, Observed, Phase, FencedRetryable,
      Settled, TerminalDisposition
  <2> HIDE DEF next, x
  <2>7. /\ ops'[x] = next /\ answered'[x] = launched[x]
        /\ \A y \in Operation \ {x} : ops'[y] = ops[y] /\ answered'[y] = answered[y]
    BY <1>b, <2>1, <2>3, <2>4 DEF TypeOK
  <2>8. AttemptsOK'
    BY <1>a, <2>1, <2>3, <2>6, <2>7 DEF AttemptsOK, Observed
  <2>9. OutcomesAnswerTheLatestCall'
    BY <2>3, <2>7 DEF GatesOK, OutcomesAnswerTheLatestCall
  <2> QED  BY <2>1, <2>3, <2>5, <2>6, <2>8, <2>9, RecordMoves DEF GatesOK
<1>9. ASSUME NEW p \in Proc, NEW x \in Operation, AbandonOperation(p, x) PROVE CallsOK'
  <2> DEFINE next == Record(x, "abandoned", fence.epoch, ops[x].attempt)
  <2>1. /\ next \in OperationRecord /\ next.ver = ops[x].ver + 1
        /\ next.phase = "abandoned" /\ next.fence = fence.epoch
        /\ next.attempt = ops[x].attempt
    BY <1>a, RecordTypes DEF Record, Phase, TerminalDisposition
  <2>2. /\ ops' = [ops EXCEPT ![x] = next] /\ UNCHANGED <<used, launched, answered>>
    BY <1>9 DEF AbandonOperation, ghosts
  <2> HIDE DEF next
  <2>3. \A q \in Proc : mem'[q].gates = mem[q].gates
    BY <1>9, StoreCallFrame DEF StoreCall
  <2>4. \A e \in used[x] : e \in Nat /\ e <= fence.epoch
    <3>1. \A e \in used[x] : e \in Nat /\ e <= ops[x].fence
      BY DEF AttemptsOK, TypeOK
    <3>2. ops[x].fence <= fence.epoch
      BY DEF AttemptsOK
    <3> QED  BY <1>a, <3>1, <3>2
  <2>5. /\ ops'[x] = next
        /\ \A y \in Operation \ {x} : ops'[y] = ops[y]
    BY <1>b, <2>2
  <2>6. AttemptsOK'
    BY <1>a, <2>1, <2>2, <2>4, <2>5 DEF AttemptsOK
  <2>7. OutcomesAnswerTheLatestCall'
    BY <2>1, <2>2, <2>5 DEF GatesOK, OutcomesAnswerTheLatestCall, Observed
  <2> QED  BY <2>1, <2>2, <2>3, <2>6, <2>7, RecordMoves DEF GatesOK
<1> QED
  BY <1>1, <1>2, <1>3, <1>4, <1>5, <1>6, <1>7, <1>8, <1>9 DEF Next, Recover

-----------------------------------------------------------------------------
(* The invariant.                                                          *)

\* The initial state satisfies the invariant.
LEMMA InitInvariant == Init => SessionInvariant
<1> SUFFICES ASSUME Init PROVE SessionInvariant
  OBVIOUS
<1>1. TypeOK
  BY InitTypes
<1>2. GoalOK /\ RebindOK
  BY DEF Init, GoalOK, RebindOK
<1>3. FenceOK
  BY DEF Init, FenceOK, Forgotten, Unsettling, Rotated
<1>4. MembersOK /\ OneOpenSession
  BY DEF Init, MembersOK, OneOpenSession, OpenSessions, NoOperation, NoSession
<1>5. AttemptsOK
  BY FS_EmptySet DEF Init, AttemptsOK, NoOperation
<1>6. GatesOK
  BY DEF Init, GatesOK, Forgotten, OutcomesAnswerTheLatestCall, NoOperation, Observed
<1> QED  BY <1>1, <1>2, <1>3, <1>4, <1>5, <1>6 DEF SessionInvariant

\* Every step keeps the invariant.
LEMMA InvariantStep == SessionInvariant /\ [Next]_vars => SessionInvariant'
BY TypeStep, GoalStep, FenceStep, SessionStep, CallStep
DEF SessionInvariant, SessionsOK, CallsOK

\* The invariant holds of every reachable state.
THEOREM SessionInvariantHolds == Spec => []SessionInvariant
BY InitInvariant, InvariantStep, PTL DEF Spec

\* Every variable has its type, and only the holder of the store is between
\* two writes of a fence or of a recovery.
THEOREM TypeCorrect == Spec => []TypeOK
<1>1. SessionInvariant => TypeOK
  BY DEF SessionInvariant
<1> QED  BY <1>1, SessionInvariantHolds, PTL

\* openOperationSession never leaves two sessions of a plan open.
THEOREM OneSessionAtATime == Spec => []OneOpenSession
<1>1. SessionInvariant => OneOpenSession
  BY DEF SessionInvariant
<1> QED  BY <1>1, SessionInvariantHolds, PTL

\* Neither a close, a sweep nor a recovery files an unknown outcome away.
THEOREM UnknownsAreKept == Spec => []UnknownKeepsItsSessionOpen
<1>1. SessionInvariant => UnknownKeepsItsSessionOpen
  BY DEF SessionInvariant, MembersOK, UnknownKeepsItsSessionOpen, Unknown
<1> QED  BY <1>1, SessionInvariantHolds, PTL

\* withPreparedGate never prepares two attempts under one fence.
THEOREM AttemptsAreFenced == Spec => []AttemptsHaveTheirOwnFence
<1>1. SessionInvariant => AttemptsHaveTheirOwnFence
  BY DEF SessionInvariant, AttemptsOK, AttemptsHaveTheirOwnFence
<1> QED  BY <1>1, SessionInvariantHolds, PTL

\* acknowledgeOutcome records the answer to the latest preparation only.
THEOREM AnswersAreLatest == Spec => []OutcomesAnswerTheLatestCall
<1>1. SessionInvariant => OutcomesAnswerTheLatestCall
  BY DEF SessionInvariant, GatesOK
<1> QED  BY <1>1, SessionInvariantHolds, PTL

\* settleAndAdmit admits a generation under a fence above that of every gate.
THEOREM AdmissionOutdates == Spec => []AdmissionOutdatesEveryGate
<1>1. SessionInvariant => AdmissionOutdatesEveryGate
  BY DEF SessionInvariant, FenceOK, Rotated, AdmissionOutdatesEveryGate
<1> QED  BY <1>1, SessionInvariantHolds, PTL

-----------------------------------------------------------------------------
(* What a step may not do.                                                 *)

ResumesProposals == Unsettling => fence'.epoch = fence.epoch

\* Only establishInitialFence, rotateFence and fenceOldPermits propose an epoch,
\* and none of them is enabled while a proposal is unsettled.
THEOREM ProposalsAreResumed == Spec => FenceProposalsAreResumed
<1>1. ASSUME TypeOK, FenceOK, [Next]_vars, Unsettling
      PROVE  fence'.epoch = fence.epoch
  <2>1. \A q \in Proc : mem[q].fence \in Nat /\ fence.epoch \in Nat
    BY <1>1, MemoryTypes DEF TypeOK
  <2>2. ASSUME NEW p \in Proc, RotateFence(p) \/ RotateForRecovery(p) PROVE FALSE
    BY <1>1, <2>1, <2>2 DEF RotateFence, RotateForRecovery, FenceOK, Unsettling
  <2>3. ASSUME NEW p \in Proc, NEW purpose \in {"return", "rotate"},
               EstablishFence(p, purpose)
        PROVE  fence' = fence
    BY <1>1, <2>3 DEF EstablishFence, Resumed, Unsettling
  <2>4. ASSUME NEW p \in Proc, SettleFence(p) \/ ObserveFence(p)
        PROVE  fence'.epoch = fence.epoch
    BY <1>1, <2>4 DEF SettleFence, ObserveFence, TypeOK
  <2>5. ASSUME NEW p \in Proc, StoreCall(p) PROVE fence' = fence
    BY <1>1, <2>5, StoreCallFrame
  <2>6. ASSUME NEW p \in Proc,
               \/ Start(p) \/ Crash(p) \/ Abort(p) \/ Admit(p) \/ LeaveRecovery(p)
               \/ CloseRebound(p) \/ \E s \in Sid : RebindSession(p, s)
               \/ \E x \in Operation : Prepare(p, x)
        PROVE  fence' = fence
    BY <2>6 DEF Start, Crash, Abort, Admit, LeaveRecovery, CloseRebound,
      RebindSession, Prepare, records
  <2>7. CASE UNCHANGED vars
    BY <2>7 DEF vars
  <2> QED
    BY <1>1, <2>2, <2>3, <2>4, <2>5, <2>6, <2>7 DEF Next, Recover, StoreCall
<1>2. SessionInvariant /\ [Next]_vars => [ResumesProposals]_vars
  BY <1>1 DEF SessionInvariant, ResumesProposals
<1> QED
  BY <1>2, SessionInvariantHolds, PTL
  DEF Spec, FenceProposalsAreResumed, ResumesProposals, Unsettling

KeepsClosedSessions ==
  \A x \in Operation :
    sess[x[1]].st = "closed" /\ ops'[x] # ops[x] => ops'[x].phase = "abandoned"

\* registerOperationIntent, withPreparedGate and acknowledgeOutcome change only
\* operations of a session they find open; a recovery only abandons.
THEOREM ClosedAreFrozen == Spec => ClosedSessionsAreFrozen
<1>1. ASSUME TypeOK, [Next]_vars, NEW x \in Operation,
             sess[x[1]].st = "closed", ops'[x] # ops[x]
      PROVE  ops'[x].phase = "abandoned"
  <2>1. ops \in [Operation -> OperationRecord]
    BY <1>1 DEF TypeOK, OperationRecord
  <2>2. ASSUME NEW p \in Proc, NEW y \in Operation,
               RegisterIntent(p, y) \/ Prepare(p, y)
        PROVE  FALSE
    BY <1>1, <2>1, <2>2 DEF RegisterIntent, Prepare, Joined
  <2>3. ASSUME NEW p \in Proc, NEW gate \in mem[p].gates, NEW outcome \in Outcome,
               Acknowledge(p, gate, outcome)
        PROVE  FALSE
    BY <1>1, <2>1, <2>3 DEF Acknowledge, Joined
  <2>4. ASSUME NEW p \in Proc, NEW y \in Operation, AbandonOperation(p, y)
        PROVE  ops'[x].phase = "abandoned"
    <3>1. Record(y, "abandoned", fence.epoch, ops[y].attempt).phase = "abandoned"
      BY DEF Record
    <3> QED  BY <1>1, <2>1, <2>4, <3>1 DEF AbandonOperation
  <2>5. ASSUME NEW p \in Proc,
               \/ OpenProject(p) \/ FinalizeProject(p) \/ ReopenProject(p)
               \/ OpenForRecovery(p) \/ CloseSession(p)
               \/ \E epoch \in ClosingEpoch :
                    BeginProjectClose(p, epoch) \/ RecordClosedProject(p, epoch)
               \/ \E s \in Sid : OpenSession(p, s) \/ SweepSession(p, s)
               \/ \E y \in Operation : ReadReleased(p, y)
        PROVE  ops' = ops
    BY <2>5 DEF OpenProject, FinalizeProject, ReopenProject, OpenForRecovery,
      CloseSession, BeginProjectClose, RecordClosedProject, OpenSession,
      SweepSession, ReadReleased, records
  <2>6. ASSUME NEW p \in Proc,
               \/ Start(p) \/ Crash(p) \/ Abort(p) \/ Admit(p) \/ LeaveRecovery(p)
               \/ SettleFence(p) \/ ObserveFence(p) \/ RotateFence(p)
               \/ RotateForRecovery(p) \/ CloseRebound(p)
               \/ \E s \in Sid : RebindSession(p, s)
               \/ \E purpose \in {"return", "rotate"} : EstablishFence(p, purpose)
        PROVE  ops' = ops
    BY <2>6 DEF Start, Crash, Abort, Admit, LeaveRecovery, SettleFence, ObserveFence,
      RotateFence, RotateForRecovery, CloseRebound, RebindSession, EstablishFence,
      records
  <2>7. CASE UNCHANGED vars
    BY <1>1, <2>7 DEF vars
  <2> QED
    BY <1>1, <2>2, <2>3, <2>4, <2>5, <2>6, <2>7 DEF Next, Recover
<1>2. SessionInvariant /\ [Next]_vars => [KeepsClosedSessions]_vars
  BY <1>1 DEF SessionInvariant, KeepsClosedSessions
<1> QED
  BY <1>2, SessionInvariantHolds, PTL
  DEF Spec, ClosedSessionsAreFrozen, KeepsClosedSessions
=============================================================================
