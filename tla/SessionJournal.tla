--------------------------- MODULE SessionJournal ---------------------------
(***************************************************************************)
(* The project journal, operation sessions, fences and prepare gates of    *)
(* one plan (HostBootstrap.Lifecycle.Session), and the recovery a later    *)
(* invocation runs over them (recoverAbandonedSessions, and settleAndAdmit *)
(* of HostBootstrap.Lifecycle.Mode).                                       *)
(*                                                                         *)
(* A transaction of the coordinator is one step: RedoTransaction shows     *)
(* that it is one, whatever dies in the middle of it.  A fence is written  *)
(* by plain compare-and-swaps, so every such write is a step of its own.   *)
(* A call holds the store from its first read to its last write; what it   *)
(* returns (permit, session, fence, gate) is a plain value, which the      *)
(* caller keeps and may present at any later time.  A call may land and    *)
(* its answer be lost.                                                     *)
(***************************************************************************)
EXTENDS Naturals, FiniteSets

CONSTANTS
  Proc,          \* invocations that share the store
  Sid,           \* session identifiers
  Op,            \* operation keys
  Outcome,       \* the outcomes adapters report
  ClosingEpoch,  \* the closing epochs callers propose
  MaxVer,        \* the last record version of an operation
  MaxFence,      \* the last fence epoch (maxBound of Word64)
  MaxBroker,     \* the last broker epoch an instance allocates
  MaxFaults      \* how many crashes and lost answers an instance suffers

ASSUME NamesAssumption == "nobody" \notin Proc /\ "none" \notin Sid
ASSUME FiniteAssumption == IsFiniteSet(Sid) /\ IsFiniteSet(Op)
ASSUME LimitsAssumption ==
  /\ MaxVer \in Nat /\ MaxFence \in Nat /\ MaxBroker \in Nat /\ MaxFaults \in Nat
  /\ ClosingEpoch \subseteq Nat

Operation == Sid \X Op

VARIABLES
  journal,   \* the project journal
  current,   \* whose permit names the coordinator's live version
  sess,      \* the session records
  ops,       \* the operation records
  fence,     \* the fence record
  holder,    \* who holds the store across several writes
  pc,        \* where each invocation stands
  goal,      \* what the fence an invocation is settling is for
  mem,       \* the plain values each invocation has been handed
  broker,    \* the last broker epoch allocated
  launched,  \* ghost: how often each operation has been prepared
  used,      \* ghost: the fences of its attempts since it was registered
  answered,  \* ghost: which of its preparations was last acknowledged
  faults     \* how many faults have happened

vars == <<journal, current, sess, ops, fence, holder, pc, goal, mem, broker,
          launched, used, answered, faults>>
records == <<journal, current, sess, ops, fence>>
ghosts == <<launched, used, answered>>
procs == <<holder, pc, goal, broker>>

(***************************************************************************)
(* Recorded phases, by disposition (classifyRecordedPhase).  A phase       *)
(* stands for every phase name of its class; Released is the one settled   *)
(* phase registration looks for.                                           *)
(***************************************************************************)
Continuable == {"intent"}
FencedRetryable == {"retryable"}
Unknown == {"unknown"}
Settled == {"settled", "released"}
TerminalDisposition == {"terminal", "abandoned"}
Phase == Continuable \cup FencedRetryable \cup Unknown \cup Settled
           \cup TerminalDisposition

\* What an adapter may report (isObservedOutcomePhase).
Observed == {"retryable", "settled", "released", "terminal"}

ASSUME OutcomeAssumption == Outcome \subseteq Observed

\* A phase that can still receive effect authority or has one outstanding.
HoldsAuthority(phase) ==
  phase \in Continuable \cup FencedRetryable \cup Unknown

NoSession == [st |-> "absent", marker |-> 0, ops |-> {}]
NoOperation == [phase |-> "none", fence |-> 0, attempt |-> 0, ver |-> 0]
Forgotten == [broker |-> 0, sid |-> "none", fence |-> 0,
              gates |-> {}, origin |-> {}]

OpenSessions == {s \in Sid : sess[s].st = "open"}
Unsettled(s) == {o \in sess[s].ops : HoldsAuthority(ops[<<s, o>>].phase)}

Init ==
  /\ journal = [st |-> "absent", epoch |-> 0]
  /\ current = {}
  /\ sess = [s \in Sid |-> NoSession]
  /\ ops = [x \in Operation |-> NoOperation]
  /\ fence = [st |-> "absent", epoch |-> 0]
  /\ holder = "nobody"
  /\ pc = [p \in Proc |-> "down"]
  /\ goal = [p \in Proc |-> "none"]
  /\ mem = [p \in Proc |-> Forgotten]
  /\ broker = 0
  /\ launched = [x \in Operation |-> 0]
  /\ used = [x \in Operation |-> {}]
  /\ answered = [x \in Operation |-> 0]
  /\ faults = 0

(***************************************************************************)
(* Invocations.                                                            *)
(***************************************************************************)
\* An invocation starts with a broker epoch no other ever had.
Start(p) ==
  /\ pc[p] = "down" /\ broker < MaxBroker
  /\ broker' = broker + 1
  /\ pc' = [pc EXCEPT ![p] = "up"]
  /\ mem' = [mem EXCEPT ![p] = [Forgotten EXCEPT !.broker = broker + 1]]
  /\ UNCHANGED <<records, holder, goal, ghosts, faults>>

\* It dies: the store is released and what it was handed is gone.
Crash(p) ==
  /\ pc[p] # "down" /\ faults < MaxFaults
  /\ faults' = faults + 1
  /\ pc' = [pc EXCEPT ![p] = "down"]
  /\ goal' = [goal EXCEPT ![p] = "none"]
  /\ holder' = IF holder = p THEN "nobody" ELSE holder
  /\ mem' = [mem EXCEPT ![p] = Forgotten]
  /\ current' = current \ {p}
  /\ UNCHANGED <<journal, sess, ops, fence, broker, ghosts>>

\* It can enter the store.
Free(p) == pc[p] = "up" /\ holder = "nobody"

\* withCurrentOpenPermit.
Current(p) == journal.st = "open" /\ p \in current

\* A committed transaction of p: versions only grow, so that every permit of
\* the version it consumed is stale for ever, and only p, if the answer reaches
\* it, has the successor.
Transact(p, values) ==
  \/ mem' = [mem EXCEPT ![p] = values] /\ current' = {p} /\ UNCHANGED faults
  \/ /\ faults < MaxFaults /\ faults' = faults + 1
     /\ current' = {} /\ UNCHANGED mem

\* A committed transaction that hands its caller no permit.
Advance == current' = {} /\ UNCHANGED <<mem, faults>>

\* A permit for the live version, read without consuming it.
Observe(p) == current' = current \cup {p} /\ UNCHANGED <<mem, faults>>

(***************************************************************************)
(* The project journal.                                                    *)
(***************************************************************************)
\* openProjectJournal: an open journal is only read.
OpenProject(p) ==
  /\ Free(p)
  /\ \/ /\ journal.st = "absent"
        /\ journal' = [st |-> "open", epoch |-> 0]
        /\ Transact(p, mem[p])
     \/ /\ journal.st = "open"
        /\ Observe(p) /\ UNCHANGED journal
  /\ UNCHANGED <<sess, ops, fence, procs, ghosts>>

\* beginClosingProject: it does not look at the sessions.
BeginProjectClose(p, epoch) ==
  /\ Free(p)
  /\ \/ /\ Current(p)
        /\ journal' = [st |-> "closing", epoch |-> epoch]
        /\ Transact(p, mem[p])
     \/ /\ journal = [st |-> "closing", epoch |-> epoch]
        /\ Observe(p) /\ UNCHANGED journal
  /\ UNCHANGED <<sess, ops, fence, procs, ghosts>>

\* recordClosedProject, with the permit its closing epoch was answered with.
RecordClosedProject(p, epoch) ==
  /\ Free(p)
  /\ journal = [st |-> "closing", epoch |-> epoch] /\ p \in current
  /\ journal' = [st |-> "closed", epoch |-> 0]
  /\ Transact(p, mem[p])
  /\ UNCHANGED <<sess, ops, fence, procs, ghosts>>

\* productionProjectCloseTargetKernel, and the finalization that consumes it.
FinalizeProject(p) ==
  /\ Free(p)
  /\ OpenSessions = {} /\ journal.st \in {"open", "absent"}
  /\ journal' = [st |-> "closed", epoch |-> 0]
  /\ Advance
  /\ UNCHANGED <<sess, ops, fence, procs, ghosts>>

\* reopenClosedProductionJournalKernel.
ReopenProject(p) ==
  /\ Free(p)
  /\ journal.st = "closed"
  /\ journal' = [st |-> "open", epoch |-> 0]
  /\ Advance
  /\ UNCHANGED <<sess, ops, fence, procs, ghosts>>

(***************************************************************************)
(* Sessions.                                                               *)
(***************************************************************************)
\* Mutant: an older open session is not looked for.
Openable(p, s) == Current(p) /\ sess[s].st = "absent"

\* No session is open, and this one never was.
Admissible(p, s) ==
  OpenSessions = {} /\ Current(p) /\ sess[s].st = "absent"

\* openOperationSession.
OpenSession(p, s) ==
  /\ Free(p) /\ Admissible(p, s)
  /\ sess' = [sess EXCEPT ![s] =
                [st |-> "open", marker |-> mem[p].broker, ops |-> {}]]
  /\ Transact(p, [mem[p] EXCEPT !.sid = s])
  /\ UNCHANGED <<journal, ops, fence, procs, ghosts>>

\* Mutant: any session will do that was once handed out.
JoinedOnce(p) == mem[p].sid # "none"

\* The caller's session, if it is still open.
Joined(p) == mem[p].sid # "none" /\ sess[mem[p].sid].st = "open"

Record(x, phase, epoch, attempt) ==
  [phase |-> phase, fence |-> epoch, attempt |-> attempt, ver |-> ops[x].ver + 1]

\* closeOperationSession.
CloseSession(p) ==
  /\ Free(p) /\ Current(p) /\ Joined(p)
  /\ Unsettled(mem[p].sid) = {}
  /\ sess' = [sess EXCEPT ![mem[p].sid].st = "closed"]
  /\ Transact(p, mem[p])
  /\ UNCHANGED <<journal, ops, fence, procs, ghosts>>

\* readReleasedIntentOrigin: the exact version of a released record.
ReadReleased(p, x) ==
  /\ Free(p) /\ x[1] = mem[p].sid
  /\ ops[x].phase = "released"
  /\ mem' = [mem EXCEPT ![p].origin = {[op |-> x[2], ver |-> ops[x].ver]}]
  /\ UNCHANGED <<records, procs, ghosts, faults>>

\* validateIntentOrigin: no history, or the released record as it was read.
ValidOrigin(p, x) ==
  \/ ops[x] = NoOperation
  \/ /\ ops[x].phase = "released"
     /\ [op |-> x[2], ver |-> ops[x].ver] \in mem[p].origin

\* registerOperationIntent: the operation and its membership together.
RegisterIntent(p, x) ==
  /\ Free(p)
  /\ Current(p) /\ Joined(p) /\ x[1] = mem[p].sid
  /\ ValidOrigin(p, x)
  /\ ops' = [ops EXCEPT ![x] = Record(x, "intent", 0, 0)]
  /\ used' = [used EXCEPT ![x] = {}]
  /\ sess' = [sess EXCEPT ![x[1]].ops = @ \cup {x[2]}]
  /\ Transact(p, mem[p])
  /\ UNCHANGED <<journal, fence, procs, launched, answered>>

(***************************************************************************)
(* Fences.                                                                 *)
(***************************************************************************)
\* An unsettled proposal is taken over as it was persisted.
Resumed == fence

\* establishInitialFence, for its own sake or as the first step of a
\* recovery: an absent fence is proposed, an unsettled one is resumed.
EstablishFence(p, purpose) ==
  /\ Free(p)
  /\ CASE fence.st = "absent" ->
            /\ fence' = [st |-> "intent", epoch |-> 1]
            /\ holder' = p
            /\ pc' = [pc EXCEPT ![p] = "settle"]
            /\ goal' = [goal EXCEPT ![p] = purpose]
            /\ UNCHANGED mem
       [] fence.st = "observed" /\ purpose = "return" ->
            /\ mem' = [mem EXCEPT ![p].fence = fence.epoch]
            /\ UNCHANGED <<fence, holder, pc, goal>>
       [] OTHER ->
            /\ holder' = p
            /\ pc' = [pc EXCEPT ![p] =
                        IF fence.st = "observed" THEN purpose ELSE "settle"]
            /\ goal' = [goal EXCEPT ![p] = purpose]
            /\ fence' = Resumed
            /\ UNCHANGED mem
  /\ UNCHANGED <<journal, current, sess, ops, broker, ghosts, faults>>

\* settleFence, its first write.
SettleFence(p) ==
  /\ pc[p] = "settle"
  /\ fence' = [fence EXCEPT !.st = "unknown"]
  /\ pc' = [pc EXCEPT ![p] = "observe"]
  /\ UNCHANGED <<journal, current, sess, ops, holder, goal, mem, broker, ghosts, faults>>

\* settleFence, its second write: the epoch is handed out, or the recovery
\* goes on.
ObserveFence(p) ==
  /\ pc[p] = "observe"
  /\ fence' = [fence EXCEPT !.st = "observed"]
  /\ IF goal[p] = "return"
       THEN /\ mem' = [mem EXCEPT ![p].fence = fence.epoch]
            /\ holder' = "nobody"
            /\ pc' = [pc EXCEPT ![p] = "up"]
            /\ goal' = [goal EXCEPT ![p] = "none"]
       ELSE /\ pc' = [pc EXCEPT ![p] = goal[p]]
            /\ UNCHANGED <<mem, holder, goal>>
  /\ UNCHANGED <<journal, current, sess, ops, broker, ghosts, faults>>

\* rotateFence: from exactly the epoch the caller holds to the next one.
RotateFence(p) ==
  /\ Free(p)
  /\ fence.st # "absent" /\ fence.epoch = mem[p].fence /\ fence.epoch < MaxFence
  /\ fence' = [st |-> "intent", epoch |-> fence.epoch + 1]
  /\ holder' = p
  /\ pc' = [pc EXCEPT ![p] = "settle"]
  /\ goal' = [goal EXCEPT ![p] = "return"]
  /\ UNCHANGED <<journal, current, sess, ops, mem, broker, ghosts, faults>>

(***************************************************************************)
(* Prepare and acknowledge.                                                *)
(***************************************************************************)
\* Mutant: a retry under the fence of the attempt it repeats.
AnyFence(x) ==
  ops[x].phase \in FencedRetryable => ops[x].fence <= fence.epoch

\* A retry needs a fence its last attempt did not have.
FreshFence(x) ==
  ops[x].phase \in FencedRetryable => ops[x].fence < fence.epoch

\* The gate of the next attempt at an operation names the record it leaves.
GateFor(x) ==
  [at |-> x, fence |-> fence.epoch, attempt |-> ops[x].attempt + 1,
   ver |-> ops[x].ver + 1, call |-> launched[x] + 1]

\* withPreparedGate: the outcome is recorded unknown before the call is made.
Prepare(p, x) ==
  /\ Free(p)
  /\ Current(p) /\ Joined(p) /\ x[1] = mem[p].sid
  /\ sess[x[1]].marker = mem[p].broker /\ x[2] \in sess[x[1]].ops
  /\ fence.st = "observed" /\ fence.epoch = mem[p].fence
  /\ ops[x].phase \in Continuable \cup FencedRetryable
  /\ ops[x].ver < MaxVer
  /\ FreshFence(x)
  /\ ops' = [ops EXCEPT ![x] =
               Record(x, "unknown", fence.epoch, ops[x].attempt + 1)]
  /\ launched' = [launched EXCEPT ![x] = @ + 1]
  /\ used' = [used EXCEPT ![x] = @ \cup {fence.epoch}]
  /\ Transact(p, [mem[p] EXCEPT !.gates = @ \cup {GateFor(x)}])
  /\ UNCHANGED <<journal, sess, fence, procs, answered>>

\* Mutant: the record version is not compared.
MatchesFields(gate) ==
  /\ ops[gate.at].fence = gate.fence /\ ops[gate.at].attempt = gate.attempt
  /\ ops[gate.at].phase \in Unknown

\* The durable record is the one a gate was minted for.
Matches(gate) ==
  /\ ops[gate.at].ver = gate.ver
  /\ ops[gate.at].fence = gate.fence /\ ops[gate.at].attempt = gate.attempt
  /\ ops[gate.at].phase \in Unknown

\* acknowledgeOutcome.
Acknowledge(p, gate, outcome) ==
  /\ Free(p) /\ Current(p) /\ Joined(p)
  /\ gate.at[1] = mem[p].sid
  /\ fence.st = "observed" /\ fence.epoch = gate.fence
  /\ Matches(gate)
  /\ ops' = [ops EXCEPT ![gate.at] =
               Record(gate.at, outcome, gate.fence, gate.attempt)]
  /\ answered' = [answered EXCEPT ![gate.at] = gate.call]
  /\ Transact(p, mem[p])
  /\ UNCHANGED <<journal, sess, fence, procs, launched, used>>

(***************************************************************************)
(* Recovery.                                                               *)
(***************************************************************************)
\* Mutants: unknown outcomes are swept away; a closing journal is not swept.
SweepUnknown(s) == sess[s].st = "open"

SweepWhileOpen(s) ==
  /\ journal.st = "open" /\ sess[s].st = "open"
  /\ \A o \in sess[s].ops : ops[<<s, o>>].phase \notin Unknown

\* An open session whose outcomes are all known (classifySessionOperations).
Sweepable(s) ==
  /\ sess[s].st = "open"
  /\ \A o \in sess[s].ops : ops[<<s, o>>].phase \notin Unknown

\* recoverAbandonedSessions, one open session: refused while an outcome in it
\* is unknown; pre-call and retryable operations are left as they are.
SweepSession(p, s) ==
  /\ Free(p) /\ Sweepable(s)
  /\ sess' = [sess EXCEPT ![s].st = "closed", ![s].marker = 0]
  /\ Advance
  /\ UNCHANGED <<journal, ops, fence, procs, ghosts>>

\* Mutant: the fence is settled but not rotated.
RotationSkipped(p) ==
  /\ pc[p] = "rotate" /\ fence.epoch < MaxFence
  /\ pc' = [pc EXCEPT ![p] = "interpret"]
  /\ goal' = [goal EXCEPT ![p] = "interpret"]
  /\ UNCHANGED <<records, holder, mem, broker, ghosts, faults>>

\* settleAndAdmit holds the store throughout.  fenceOldPermits settles the
\* fence (EstablishFence for "rotate") and then rotates it.
RotateForRecovery(p) ==
  /\ pc[p] = "rotate" /\ fence.epoch < MaxFence
  /\ fence' = [st |-> "intent", epoch |-> fence.epoch + 1]
  /\ pc' = [pc EXCEPT ![p] = "settle"]
  /\ goal' = [goal EXCEPT ![p] = "interpret"]
  /\ UNCHANGED <<journal, current, sess, ops, holder, mem, broker, ghosts, faults>>

\* An unrecorded journal is opened on the way.
OpenForRecovery(p) ==
  /\ pc[p] = "interpret" /\ journal.st = "absent"
  /\ journal' = [st |-> "open", epoch |-> 0]
  /\ Advance
  /\ UNCHANGED <<sess, ops, fence, procs, ghosts>>

\* interpretRecordedSessions abandons what could still receive authority, in
\* closed sessions too.
AbandonOperation(p, x) ==
  /\ pc[p] = "interpret" /\ journal.st = "open"
  /\ ops[x].phase \in Continuable \cup FencedRetryable
  /\ ops' = [ops EXCEPT ![x] =
               Record(x, "abandoned", fence.epoch, ops[x].attempt)]
  /\ Advance
  /\ UNCHANGED <<journal, sess, fence, procs, ghosts>>

\* An open session is rebound to the fresh broker epoch ...
RebindSession(p, s) ==
  /\ pc[p] = "interpret" /\ journal.st = "open"
  /\ sess[s].st = "open" /\ Unsettled(s) = {}
  /\ sess' = [sess EXCEPT ![s].marker = mem[p].broker]
  /\ Advance
  /\ pc' = [pc EXCEPT ![p] = "rebound"]
  /\ goal' = [goal EXCEPT ![p] = s]
  /\ UNCHANGED <<journal, ops, fence, holder, broker, ghosts>>

\* ... and closed.
CloseRebound(p) ==
  /\ pc[p] = "rebound"
  /\ sess' = [sess EXCEPT ![goal[p]].st = "closed"]
  /\ Advance
  /\ pc' = [pc EXCEPT ![p] = "interpret"]
  /\ goal' = [goal EXCEPT ![p] = "interpret"]
  /\ UNCHANGED <<journal, ops, fence, holder, broker, ghosts>>

\* The interpretation is over: admitCurrentBroker observes every session
\* closed once more.
Admit(p) ==
  /\ pc[p] = "interpret" /\ journal.st = "open"
  /\ \A x \in Operation : ~HoldsAuthority(ops[x].phase)
  /\ OpenSessions = {}
  /\ pc' = [pc EXCEPT ![p] = "admitted"]
  /\ UNCHANGED <<records, holder, goal, mem, broker, ghosts, faults>>

\* The entry ends: admitted, or refused by a journal that is closing or
\* closed, an unknown outcome, or a fence at its maximum.
LeaveRecovery(p) ==
  /\ \/ pc[p] = "admitted"
     \/ pc[p] = "interpret" /\ journal.st \in {"closing", "closed"}
     \/ pc[p] = "interpret" /\ \E x \in Operation : ops[x].phase \in Unknown
     \/ pc[p] = "rotate" /\ fence.epoch = MaxFence
  /\ holder' = "nobody"
  /\ pc' = [pc EXCEPT ![p] = "up"]
  /\ goal' = [goal EXCEPT ![p] = "none"]
  /\ UNCHANGED <<records, mem, broker, ghosts, faults>>

\* A write of a call that holds the store fails, or landed and is reported as
\* failed: the call is over where it stands.
Abort(p) ==
  /\ pc[p] \in {"settle", "observe", "rotate", "interpret", "rebound"}
  /\ faults < MaxFaults
  /\ faults' = faults + 1
  /\ holder' = "nobody"
  /\ pc' = [pc EXCEPT ![p] = "up"]
  /\ goal' = [goal EXCEPT ![p] = "none"]
  /\ UNCHANGED <<records, mem, broker, ghosts>>

Recover(p) ==
  \/ EstablishFence(p, "rotate") \/ RotateForRecovery(p)
  \/ OpenForRecovery(p) \/ \E x \in Operation : AbandonOperation(p, x)
  \/ \E s \in Sid : RebindSession(p, s)
  \/ CloseRebound(p) \/ Admit(p) \/ LeaveRecovery(p)

Next ==
  \E p \in Proc :
    \/ Start(p) \/ Crash(p) \/ Abort(p)
    \/ OpenProject(p) \/ FinalizeProject(p) \/ ReopenProject(p)
    \/ \E epoch \in ClosingEpoch :
         BeginProjectClose(p, epoch) \/ RecordClosedProject(p, epoch)
    \/ \E s \in Sid : OpenSession(p, s) \/ SweepSession(p, s)
    \/ CloseSession(p)
    \/ \E x \in Operation :
         ReadReleased(p, x) \/ RegisterIntent(p, x) \/ Prepare(p, x)
    \/ \E gate \in mem[p].gates, outcome \in Outcome :
         Acknowledge(p, gate, outcome)
    \/ EstablishFence(p, "return") \/ SettleFence(p) \/ ObserveFence(p)
    \/ RotateFence(p) \/ Recover(p)

Spec == Init /\ [][Next]_vars

(***************************************************************************)
(* Fairness: an invocation is started again, finishes a call that holds    *)
(* the store, and begins, as the chain does, by sweeping open sessions.    *)
(***************************************************************************)
Fairness ==
  \A p \in Proc :
    /\ WF_vars(Start(p))
    /\ WF_vars(SettleFence(p)) /\ WF_vars(ObserveFence(p))
    /\ WF_vars(pc[p] \notin {"up", "down"} /\ Recover(p))
    /\ \A s \in Sid : SF_vars(SweepSession(p, s))

FairSpec == Spec /\ Fairness

-----------------------------------------------------------------------------
Gate == [at : Operation, fence : Nat, attempt : Nat, ver : Nat, call : Nat]
Memory == [broker : Nat, sid : Sid \cup {"none"}, fence : Nat,
           gates : SUBSET Gate, origin : SUBSET [op : Op, ver : Nat]]
Holding == {"settle", "observe", "rotate", "interpret", "rebound", "admitted"}

\* Every variable has its type; only the holder of the store is between writes.
TypeOK ==
  /\ journal \in [st : {"absent", "open", "closing", "closed"}, epoch : Nat]
  /\ current \subseteq Proc
  /\ sess \in [Sid -> [st : {"absent", "open", "closed"}, marker : Nat,
                       ops : SUBSET Op]]
  /\ ops \in [Operation -> [phase : Phase \cup {"none"}, fence : Nat,
                            attempt : Nat, ver : Nat]]
  /\ fence \in [st : {"absent", "intent", "unknown", "observed"}, epoch : Nat]
  /\ holder \in Proc \cup {"nobody"}
  /\ pc \in [Proc -> {"down", "up"} \cup Holding]
  /\ goal \in [Proc -> {"none", "return", "rotate", "interpret"} \cup Sid]
  /\ mem \in [Proc -> Memory]
  /\ broker \in Nat /\ faults \in Nat
  /\ launched \in [Operation -> Nat] /\ answered \in [Operation -> Nat]
  /\ used \in [Operation -> SUBSET Nat]
  /\ \A p \in Proc : pc[p] \in Holding <=> holder = p

\* Two invocations of one plan never have a session open at once, however the
\* first one ended and whoever swept or recovered after it
\* (openOperationSession's SessionOlderStillOpen).
OneOpenSession == \A s, t \in OpenSessions : s = t

\* An unknown outcome is never filed away: its session stays open, and blocks
\* every later invocation, until the outcome is acknowledged
\* (SessionUnclassifiedPhase in recoverAbandonedSessions and the interpreter).
UnknownKeepsItsSessionOpen ==
  \A x \in Operation : ops[x].phase \in Unknown => sess[x[1]].st = "open"

\* No two attempts of an operation, from its registration on, run under one
\* fence epoch: a delayed call of an earlier attempt can be told from the
\* current one by its fence (SessionRetryNeedsFreshFence).
AttemptsHaveTheirOwnFence ==
  \A x \in Operation : Cardinality(used[x]) = ops[x].attempt

\* A recorded outcome is the answer to the latest preparation of its operation,
\* never the delayed result of an earlier attempt or of an earlier life of a
\* re-registered operation (acknowledgeOutcome).
OutcomesAnswerTheLatestCall ==
  \A x \in Operation :
    ops[x].phase \in Observed => answered[x] = launched[x]

\* When a recovery admits the new broker generation, every gate anyone still
\* holds is under an earlier fence, so that its result can no longer be
\* acknowledged (fenceOldPermits before interpretRecordedSessions).
AdmissionOutdatesEveryGate ==
  \A p, q \in Proc :
    pc[p] = "admitted" =>
      fence.st = "observed" /\ \A gate \in mem[q].gates : gate.fence < fence.epoch

\* The operations of a closed session are frozen: whatever permits, fences and
\* gates the invocation that opened it still holds, only a recovery touches
\* them, and only to abandon them.
ClosedSessionsAreFrozen ==
  [][\A x \in Operation :
       sess[x[1]].st = "closed" /\ ops'[x] # ops[x]
         => ops'[x].phase = "abandoned"]_vars

\* A proposed fence epoch is settled as proposed, whoever resumes it after
\* whatever crash; nobody proposes another beside it (establishInitialFence,
\* rotateFence, fenceOldPermits).
FenceProposalsAreResumed ==
  [][fence.st \in {"intent", "unknown"} => fence'.epoch = fence.epoch]_vars

\* An open session without unknown outcomes does not stay open: no crash in a
\* recovery, no unsettled fence and no closing journal keeps a later
\* invocation from sweeping it.
AbandonedSessionsAreSwept ==
  \A s \in Sid :
    sess[s].st = "open" ~>
      \/ sess[s].st = "closed"
      \/ \E o \in sess[s].ops : ops[<<s, o>>].phase \in Unknown
=============================================================================
