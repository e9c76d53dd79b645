---------------------------- MODULE HarnessRuns ----------------------------
(* A test run's ownership of its project: the project-wide mode, the lease  *)
(* of each run, the two filesystem objects a run makes, its resources, and  *)
(* the sweep that settles what dead runs left (Harness/Ownership.hs,        *)
(* Harness/DataRoot.hs, Harness/GeneratedConfig.hs, Lifecycle/Mode.hs).     *)
(*                                                                          *)
(* A process sweeps and then runs under the run-liveness lock, which the    *)
(* kernel frees when it dies.  Every durable write is a step of its own;    *)
(* a step inside a protected entry (MidEntry) excludes the other openers    *)
(* of the store, and a process may die before any step in CrashAt.          *)
EXTENDS Naturals, FiniteSets

CONSTANTS
  Proc,        \* harness processes
  Run,         \* run identities, each taken once
  Production,  \* the other holder of the mode
  Operator,    \* the author of files no run made
  Nobody,
  Epoch,       \* broker epochs; one nothing names any more can be drawn again
  None,        \* no epoch
  Releasable,  \* runs whose resources the recovery executor can release
  CrashAt, MaxCrash, MaxTouch

ASSUME NamesAssumption ==
  /\ Nobody \notin Run \cup {Production, Operator}
  /\ Production \notin Run \cup {Operator} /\ Operator \notin Run
  /\ None \notin Epoch
ASSUME SetsAssumption ==
  Releasable \subseteq Run /\ MaxCrash \in Nat /\ MaxTouch \in Nat

VARIABLES
  mode, modeAt,    \* the holder of the mode, and the epoch recorded with it
  lease, leaseAt,  \* each holder's lease, and its epoch
  closing,         \* runs whose Closing disposition is recorded
  held,            \* what a run's resource records say
  busy,            \* runs with an open operation session
  forward,         \* runs whose forward work has a current journal permit
  dir, dirRec,     \* each run's data root, and its origin record
  file, cfgRec,    \* the sibling config, and each run's origin record of it
  me,              \* what each process is doing
  crashes, touches

hold == <<mode, modeAt>>
leases == <<lease, leaseAt>>
resources == <<held, busy, forward>>
roots == <<dir, dirRec>>
config == <<file, cfgRec>>
bounds == <<crashes, touches>>
vars == <<mode, modeAt, lease, leaseAt, closing, held, busy, forward,
          dir, dirRec, file, cfgRec, me, crashes, touches>>

Holder == Run \cup {Production}
Open == {"unbound", "bound"}
NoFile == [by |-> Nobody, bytes |-> Nobody]

\* The terminal-close control of a live run (Harness/Ownership/Internal.hs).
Control == {"unbound", "binding", "fallback", "pending", "settled"}
Off == [at |-> "off", by |-> "sweep", on |-> Nobody, todo |-> {}, how |-> "short",
        ctl |-> "unbound", epoch |-> None, gen |-> None]

\* Steps of a run's body between which it may fail or end.
BeforeConfig == {"body", "binding", "bound", "config", "cfgPublish", "cfgBind"}
WithConfig == {"up", "moved", "reverse", "reversed", "authorized", "pending",
               "movedUp", "rearm", "done"}
MidEntry == {"retain", "readmit", "record", "mkdir", "bindDir", "dirForget", "dirSettle",
             "cfgForget", "cfgSettle", "cfgPublish", "cfgBind", "release", "moved", "movedUp"}

At(p, step) == me[p].at = step
Go(p, step) == me' = [me EXCEPT ![p].at = step]
Exit(p) == me' = [me EXCEPT ![p] = Off]
Entered == \E p \in Proc : me[p].at \in MidEntry

\* Mutant: a lease that was never bound is taken for one with nothing to settle.
IncompleteBound == {r \in Run : lease[r] = "bound"}

\* abandonedHarnessLeases: every incomplete lease but Production's.
Incomplete == {r \in Run : lease[r] \in Open}

\* Epochs some record or process still names.
Named == {modeAt} \cup {leaseAt[r] : r \in Incomplete}
         \cup UNION {{me[p].epoch, me[p].gen} : p \in Proc}
Fresh == CHOOSE e \in Epoch : e \notin Named
Spare == Epoch \ Named # {}

Init ==
  /\ mode = Nobody /\ modeAt = None
  /\ lease = [o \in Holder |-> "none"] /\ leaseAt = [r \in Run |-> None]
  /\ closing = {}
  /\ held = [r \in Run |-> "none"] /\ busy = {} /\ forward = {}
  /\ dir \in [Run -> {"absent", "foreign"}]
  /\ dirRec = [r \in Run |-> "none"]
  /\ file = NoFile /\ cfgRec = [r \in Run |-> "none"]
  /\ me = [p \in Proc |-> Off]
  /\ crashes = 0 /\ touches = 0

(***************************************************************************)
(* The sweep.                                                              *)
(***************************************************************************)
\* Mutant: the lock is not exclusive.
LockableBeside == TRUE

\* withRunLiveness: the lock is not waited for.
Lockable == \A q \in Proc : At(q, "off")

EnterRun(p) ==
  /\ At(p, "off") /\ Lockable
  /\ me' = [me EXCEPT ![p] = [Off EXCEPT !.at = "sweep", !.todo = Incomplete]]
  /\ UNCHANGED <<hold, leases, closing, resources, roots, config, bounds>>

\* The swept leases are settled one after the other.
SettleOne(p, r) ==
  /\ At(p, "sweep") /\ r \in me[p].todo
  /\ me' = [me EXCEPT ![p] = [@ EXCEPT !.on = r, !.todo = me[p].todo \ {r}, !.how = "unbound",
              !.at = IF lease[r] = "bound" THEN "reopen" ELSE "dir"]]
  /\ UNCHANGED <<hold, leases, closing, resources, roots, config, bounds>>

\* The list is read again, and the project's own safety check may refuse.
SweepDone(p) ==
  /\ At(p, "sweep") /\ me[p].todo = {}
  /\ IF Incomplete = {} THEN Go(p, "take") \/ Exit(p) ELSE Exit(p)
  /\ UNCHANGED <<hold, leases, closing, resources, roots, config, bounds>>

\* retainAbandonedHarnessMode: exactly this run's mode, or a refusal.
ReopenMode(p) ==
  /\ At(p, "reopen") /\ ~Entered
  /\ IF mode = me[p].on /\ lease[me[p].on] = "bound"
       THEN /\ Spare /\ modeAt' = Fresh
            /\ me' = [me EXCEPT ![p] = [@ EXCEPT !.at = "retain", !.epoch = Fresh]]
       ELSE Exit(p) /\ UNCHANGED modeAt
  /\ UNCHANGED <<mode, leases, closing, resources, roots, config, bounds>>

\* retainBoundLeaseGeneration.
ReopenLease(p) ==
  /\ At(p, "retain")
  /\ leaseAt' = [leaseAt EXCEPT ![me[p].on] = me[p].epoch]
  /\ Go(p, "readmit")
  /\ UNCHANGED <<hold, lease, closing, resources, roots, config, bounds>>

\* readmitSessions: old permits are fenced, and every recorded session is driven
\* to its end.
Readmit(p) ==
  /\ At(p, "readmit")
  /\ busy' = busy \ {me[p].on} /\ forward' = forward \ {me[p].on}
  /\ Go(p, "resolve")
  /\ UNCHANGED <<hold, leases, closing, held, roots, config, bounds>>

\* resolveBoundRun: finish a persisted close, close a run that acquired
\* nothing, or release what it acquired.
Resolve(p) ==
  /\ At(p, "resolve") /\ ~Entered
  /\ LET r == me[p].on IN
       me' = [me EXCEPT ![p] =
         IF r \in closing THEN [@ EXCEPT !.at = "dir", !.how = "final"]
         ELSE IF held[r] = "none" THEN [@ EXCEPT !.at = "dir", !.how = "short"]
         ELSE [@ EXCEPT !.at = "forest"]]
  /\ UNCHANGED <<hold, leases, closing, resources, roots, config, bounds>>

\* driveRecoveredForest, whose executor may be unable to.
ReleaseRecovered(p) ==
  /\ At(p, "forest")
  /\ LET r == me[p].on IN
       IF held[r] = "released" \/ r \in Releasable
         THEN held' = [held EXCEPT ![r] = "released"] /\ Go(p, "settled")
         ELSE Exit(p) /\ UNCHANGED held
  /\ UNCHANGED <<hold, leases, closing, busy, forward, roots, config, bounds>>

\* finishRecoveredClose, as far as the Closing disposition.
AuthorizeRecovered(p) ==
  /\ At(p, "settled") /\ ~Entered
  /\ IF me[p].on \notin busy
       THEN /\ closing' = closing \cup {me[p].on}
            /\ me' = [me EXCEPT ![p] = [@ EXCEPT !.at = "dir", !.how = "final"]]
       ELSE Exit(p) /\ UNCHANGED closing
  /\ UNCHANGED <<hold, leases, resources, roots, config, bounds>>

(***************************************************************************)
(* Settling a run's two objects.                                           *)
(***************************************************************************)
\* A refusal ends the sweep, or the run with its lease and mode held; in the
\* body's own release of its config it ends the body.
Refuse(p) ==
  me' = [me EXCEPT ![p] =
           IF @.by = "body" THEN [@ EXCEPT !.at = "dir", !.by = "run"] ELSE Off]
AfterConfig(p) ==
  me' = [me EXCEPT ![p] = CASE @.by = "body" -> [@ EXCEPT !.at = "dir", !.by = "run"]
                            [] @.by = "run" -> [@ EXCEPT !.at = "prove"]
                            [] @.by = "sweep" -> [@ EXCEPT !.at = "close"]]

\* releaseDataRoot and recoverDataRoot, up to the record.
SettleDir(p) ==
  /\ At(p, "dir") /\ ~Entered
  /\ LET r == me[p].on IN
       \/ dirRec[r] = "none" /\ Go(p, "cfg") /\ UNCHANGED dir
       \/ dirRec[r] = "found" /\ Go(p, "dirSettle") /\ UNCHANGED dir
       \/ dirRec[r] = "origin" /\ dir' = [dir EXCEPT ![r] = "absent"] /\ Go(p, "dirSettle")
       \/ dirRec[r] = "managed" /\ dir[r] = "made"
          /\ dir' = [dir EXCEPT ![r] = "absent"] /\ Go(p, "dirForget")
       \/ dirRec[r] = "managed" /\ dir[r] # "made" /\ Refuse(p) /\ UNCHANGED dir
  /\ UNCHANGED <<hold, leases, closing, resources, dirRec, config, bounds>>

ForgetDir(p) ==
  /\ At(p, "dirForget") \/ At(p, "dirSettle")
  /\ dirRec' = [dirRec EXCEPT ![me[p].on] = "none"]
  /\ Go(p, "cfg")
  /\ UNCHANGED <<hold, leases, closing, resources, dir, config, bounds>>

\* Mutant: only the identity is compared, not the payload.
InstalledByIdentity(r) == file.by = r

\* payloadStillMatches: the object that was bound, with the bytes it was given.
Installed(r) == file = [by |-> r, bytes |-> r]

\* releaseGeneratedConfig and recoverGeneratedConfig, up to the record.  A file
\* whose identity was never bound is known by its bytes, and its record stays.
SettleConfig(p) ==
  /\ At(p, "cfg") /\ ~Entered
  /\ LET r == me[p].on IN
       \/ cfgRec[r] = "none" /\ AfterConfig(p) /\ UNCHANGED file
       \/ cfgRec[r] = "origin" /\ file = NoFile /\ Go(p, "cfgSettle") /\ UNCHANGED file
       \/ cfgRec[r] = "origin" /\ file.bytes = r /\ file' = NoFile /\ AfterConfig(p)
       \/ cfgRec[r] = "origin" /\ file # NoFile /\ file.bytes # r /\ Refuse(p) /\ UNCHANGED file
       \/ cfgRec[r] = "managed" /\ Installed(r) /\ file' = NoFile /\ Go(p, "cfgForget")
       \/ cfgRec[r] = "managed" /\ ~Installed(r) /\ Refuse(p) /\ UNCHANGED file
  /\ UNCHANGED <<hold, leases, closing, resources, roots, cfgRec, bounds>>

ForgetConfig(p) ==
  /\ At(p, "cfgForget") \/ At(p, "cfgSettle")
  /\ cfgRec' = [cfgRec EXCEPT ![me[p].on] = "none"]
  /\ AfterConfig(p)
  /\ UNCHANGED <<hold, leases, closing, resources, roots, file, bounds>>

(***************************************************************************)
(* Closing a run.                                                          *)
(***************************************************************************)
\* runTerminalClose: the control says which close, and whether there is one.
Prove(p) ==
  /\ At(p, "prove") /\ ~Entered
  /\ me' = [me EXCEPT ![p] =
       IF @.ctl = "settled" THEN [@ EXCEPT !.at = "close", !.how = "final"]
       ELSE IF @.ctl \in {"unbound", "fallback"} /\ held[@.on] = "none"
         THEN [@ EXCEPT !.at = "close", !.how = "short"]
       ELSE Off]
  /\ UNCHANGED <<hold, leases, closing, resources, roots, config, bounds>>

\* Mutant: the proof of the terminal close is trusted.
ClosableTrusted(p) == me[p].how = "unbound" => held[me[p].on] = "none"

\* What the entry that closes the lease looks at again: verifyHarnessShortClose,
\* or the sweep's proof for an unbound lease.
Closable(p) ==
  LET r == me[p].on IN
    CASE me[p].how = "unbound" -> held[r] = "none"
      [] me[p].how = "short" ->
           /\ leaseAt[r] = me[p].epoch
           /\ held[r] = "none" /\ (lease[r] = "bound" => r \notin busy)
      [] me[p].how = "final" -> TRUE

\* closeLeaseForKey, then the mode.
CloseLease(p) ==
  /\ At(p, "close") /\ ~Entered
  /\ IF Closable(p)
       THEN lease' = [lease EXCEPT ![me[p].on] = "closed"] /\ Go(p, "release")
       ELSE Exit(p) /\ UNCHANGED lease
  /\ UNCHANGED <<hold, leaseAt, closing, resources, roots, config, bounds>>

NextLease(p) ==
  me' = [me EXCEPT ![p] = IF @.by = "sweep" THEN [@ EXCEPT !.at = "sweep"] ELSE Off]

\* releaseMode refuses another's mode; the sweep of an unbound lease leaves it alone.
ReleaseMode(p) ==
  /\ At(p, "release")
  /\ IF mode = me[p].on THEN mode' = Nobody /\ modeAt' = None ELSE UNCHANGED hold
  /\ IF mode \in {me[p].on, Nobody} \/ me[p].how = "unbound" THEN NextLease(p) ELSE Exit(p)
  /\ UNCHANGED <<leases, closing, resources, roots, config, bounds>>

(***************************************************************************)
(* A run.                                                                  *)
(***************************************************************************)
\* Mutant: a Production invocation's mode is not another's.
EligibleBesideProduction == mode \in {Nobody, Production}

\* modeEligibility for a harness run.
Eligible == mode = Nobody

\* The preconditions once more, inside the entry that takes the mode.
Admitted == file = NoFile /\ Incomplete = {} /\ Eligible
Untaken == {r \in Run : lease[r] = "none" /\ mode # r}

\* withHarnessRoot, as far as the mode: a run and an epoch no one had.
TakeMode(p, r) ==
  /\ At(p, "take") /\ ~Entered
  /\ Admitted /\ r \in Untaken /\ Spare
  /\ mode' = r /\ modeAt' = Fresh
  /\ me' = [me EXCEPT ![p] = [Off EXCEPT !.at = "record", !.by = "run", !.on = r,
              !.epoch = Fresh, !.gen = Fresh]]
  /\ UNCHANGED <<leases, closing, resources, roots, config, bounds>>

\* Bound: when every run identity of the model is used, a process leaves as well.
TakeRefused(p) ==
  /\ At(p, "take") /\ ~Entered
  /\ ~Admitted \/ Untaken = {}
  /\ Exit(p)
  /\ UNCHANGED <<hold, leases, closing, resources, roots, config, bounds>>

\* recordUnboundLease.
RecordLease(p) ==
  /\ At(p, "record")
  /\ lease' = [lease EXCEPT ![me[p].on] = "unbound"]
  /\ leaseAt' = [leaseAt EXCEPT ![me[p].on] = me[p].epoch]
  /\ Go(p, "origin")
  /\ UNCHANGED <<hold, closing, resources, roots, config, bounds>>

\* acquireDataRoot: the record of what is there comes first.
PublishDirOrigin(p) ==
  /\ At(p, "origin") /\ ~Entered
  /\ LET r == me[p].on IN
       IF dir[r] = "absent"
         THEN dirRec' = [dirRec EXCEPT ![r] = "origin"] /\ Go(p, "mkdir")
         ELSE dirRec' = [dirRec EXCEPT ![r] = "found"] /\ Go(p, "body")
  /\ UNCHANGED <<hold, leases, closing, resources, dir, config, bounds>>

MakeDir(p) ==
  /\ At(p, "mkdir")
  /\ dir' = [dir EXCEPT ![me[p].on] = "made"]
  /\ Go(p, "bindDir")
  /\ UNCHANGED <<hold, leases, closing, resources, dirRec, config, bounds>>

BindDir(p) ==
  /\ At(p, "bindDir")
  /\ dirRec' = [dirRec EXCEPT ![me[p].on] = "managed"]
  /\ Go(p, "body")
  /\ UNCHANGED <<hold, leases, closing, resources, dir, config, bounds>>

\* A data root that cannot be taken ends the run there, with what was written.
DataRootRefused(p) ==
  /\ me[p].at \in {"origin", "mkdir", "bindDir"}
  /\ Exit(p)
  /\ UNCHANGED <<hold, leases, closing, resources, roots, config, bounds>>

BeginBinding(p) ==
  /\ At(p, "body")
  /\ me' = [me EXCEPT ![p] = [@ EXCEPT !.at = "binding", !.ctl = "binding"]]
  /\ UNCHANGED <<hold, leases, closing, resources, roots, config, bounds>>

\* bindFreshRunLease: exactly the unbound lease of this run's generation.
BindLease(p) ==
  /\ At(p, "binding") /\ ~Entered
  /\ LET r == me[p].on IN
       /\ lease[r] = "unbound" /\ leaseAt[r] = me[p].epoch
       /\ lease' = [lease EXCEPT ![r] = "bound"]
  /\ Go(p, "bound")
  /\ UNCHANGED <<hold, leaseAt, closing, resources, roots, config, bounds>>

ArmBoundClose(p) ==
  /\ At(p, "bound")
  /\ me' = [me EXCEPT ![p] = [@ EXCEPT !.at = "config", !.ctl = "fallback"]]
  /\ UNCHANGED <<hold, leases, closing, resources, roots, config, bounds>>

\* acquireGeneratedConfig: a file that is there is left, and nothing recorded.
PublishConfigOrigin(p) ==
  /\ At(p, "config") /\ ~Entered
  /\ IF file = NoFile
       THEN cfgRec' = [cfgRec EXCEPT ![me[p].on] = "origin"] /\ Go(p, "cfgPublish")
       ELSE Go(p, "dir") /\ UNCHANGED cfgRec
  /\ UNCHANGED <<hold, leases, closing, resources, roots, file, bounds>>

\* publishOwnedFile never replaces.
PublishConfig(p) ==
  /\ At(p, "cfgPublish")
  /\ IF file = NoFile
       THEN file' = [by |-> me[p].on, bytes |-> me[p].on] /\ Go(p, "cfgBind")
       ELSE Go(p, "dir") /\ UNCHANGED file
  /\ UNCHANGED <<hold, leases, closing, resources, roots, cfgRec, bounds>>

BindConfig(p) ==
  /\ At(p, "cfgBind")
  /\ cfgRec' = [cfgRec EXCEPT ![me[p].on] = "managed"]
  /\ forward' = forward \cup {me[p].on}
  /\ Go(p, "up")
  /\ UNCHANGED <<hold, leases, closing, held, busy, roots, file, bounds>>

\* The mode and the lease are exactly those of the source generation.
Exact(p) ==
  LET r == me[p].on IN
    mode = r /\ lease[r] = "bound" /\ {modeAt, leaseAt[r]} = {me[p].gen}

\* withFreshHarnessDestroyInvocation and withFreshHarnessInvocationFrom: the
\* mode moves to a fresh epoch, then the lease.
MoveMode(p) ==
  /\ At(p, "up") \/ At(p, "reversed")
  /\ ~Entered /\ Exact(p) /\ Spare
  /\ modeAt' = Fresh
  /\ me' = [me EXCEPT ![p] = [@ EXCEPT !.gen = Fresh, !.at = IF At(p, "up") THEN "moved" ELSE "movedUp"]]
  /\ UNCHANGED <<mode, leases, closing, resources, roots, config, bounds>>

MoveLease(p) ==
  /\ At(p, "moved") \/ At(p, "movedUp")
  /\ leaseAt' = [leaseAt EXCEPT ![me[p].on] = me[p].gen]
  /\ Go(p, IF At(p, "moved") THEN "reverse" ELSE "rearm")
  /\ UNCHANGED <<hold, lease, closing, resources, roots, config, bounds>>

\* Mutant: the permits of the forward work stay current.
ReverseUnfenced(p) ==
  /\ At(p, "reverse") /\ ~Entered /\ me[p].on \notin busy
  /\ held' = [held EXCEPT ![me[p].on] = IF @ = "acquired" THEN "released" ELSE @]
  /\ Go(p, "reversed")
  /\ UNCHANGED <<hold, leases, closing, busy, forward, roots, config, bounds>>

\* runExactHarnessDestroyProjection: its own sessions leave every older permit
\* behind, and it opens none while another is open.
Reverse(p) ==
  /\ At(p, "reverse") /\ ~Entered /\ me[p].on \notin busy
  /\ held' = [held EXCEPT ![me[p].on] = IF @ = "acquired" THEN "released" ELSE @]
  /\ forward' = forward \ {me[p].on}
  /\ Go(p, "reversed")
  /\ UNCHANGED <<hold, leases, closing, busy, roots, config, bounds>>

\* rearmOwnedHarnessBoundClose: the control follows the new generation.
Rearm(p) ==
  /\ At(p, "rearm")
  /\ me' = [me EXCEPT ![p] = [@ EXCEPT !.at = "up", !.epoch = me[p].gen]]
  /\ forward' = forward \cup {me[p].on}
  /\ UNCHANGED <<hold, leases, closing, held, busy, roots, config, bounds>>

\* authorizeHarnessClose, markOwnedHarnessClosePending, settleOwnedHarnessClose.
AuthorizeClose(p) ==
  /\ At(p, "reversed") /\ ~Entered /\ me[p].on \notin busy
  /\ closing' = closing \cup {me[p].on}
  /\ Go(p, "authorized")
  /\ UNCHANGED <<hold, leases, resources, roots, config, bounds>>

MarkPending(p) ==
  /\ At(p, "authorized")
  /\ me' = [me EXCEPT ![p] = [@ EXCEPT !.at = "pending", !.ctl = "pending"]]
  /\ UNCHANGED <<hold, leases, closing, resources, roots, config, bounds>>

SettleClose(p) ==
  /\ At(p, "pending")
  /\ me' = [me EXCEPT ![p] = [@ EXCEPT !.at = "done", !.ctl = "settled"]]
  /\ UNCHANGED <<hold, leases, closing, resources, roots, config, bounds>>

\* The body returns or throws: its config first, if it has one, then its root.
EndBody(p) ==
  /\ me[p].at \in BeforeConfig \cup WithConfig
  /\ me' = [me EXCEPT ![p] = IF @.at \in WithConfig
              THEN [@ EXCEPT !.at = "cfg", !.by = "body"] ELSE [@ EXCEPT !.at = "dir"]]
  /\ UNCHANGED <<hold, leases, closing, resources, roots, config, bounds>>

(***************************************************************************)
(* Forward work, which may outlive the body that started it: a session, a  *)
(* resource, the session's end.  Only the journal's permit stops it.       *)
(***************************************************************************)
Acquire(r) ==
  /\ r \in forward \ busy /\ ~Entered
  /\ busy' = busy \cup {r}
  /\ held' \in {held, [held EXCEPT ![r] = "acquired"]}
  /\ UNCHANGED <<hold, leases, closing, forward, roots, config, me, bounds>>

EndSession(r) ==
  /\ r \in forward \cap busy /\ ~Entered
  /\ busy' = busy \ {r}
  /\ UNCHANGED <<hold, leases, closing, held, forward, roots, config, me, bounds>>

(***************************************************************************)
(* Production invocations, the operator, and the death of a process.       *)
(***************************************************************************)
\* acquireProductionMode, then its lease.
ProductionTakes ==
  /\ ~Entered /\ mode \in {Nobody, Production}
  /\ \/ /\ mode' = Production /\ modeAt' = None /\ UNCHANGED lease
     \/ /\ mode = Production
        /\ lease' = [lease EXCEPT ![Production] = "unbound"] /\ UNCHANGED hold
  /\ UNCHANGED <<leaseAt, closing, resources, roots, config, me, bounds>>

\* closeCompletedProductionInvocation; releaseProductionMode gives the mode up last.
ProductionCloses ==
  /\ ~Entered /\ mode = Production
  /\ \/ lease' = [lease EXCEPT ![Production] = "closed"] /\ UNCHANGED hold
     \/ /\ lease[Production] \notin Open
        /\ mode' = Nobody /\ modeAt' = None /\ UNCHANGED lease
  /\ UNCHANGED <<leaseAt, closing, resources, roots, config, me, bounds>>

\* Bound: at most MaxTouch of these.
OperatorActs ==
  /\ touches < MaxTouch /\ touches' = touches + 1
  /\ \/ /\ file' \in {NoFile, [by |-> Operator, bytes |-> Operator]} \cup
                     (IF file = NoFile THEN {} ELSE {[file EXCEPT !.bytes = Operator]})
        /\ file' # file /\ UNCHANGED dir
     \/ \E r \in Run : dir[r] = "made" /\ dir' = [dir EXCEPT ![r] = "absent"] /\ UNCHANGED file
  /\ UNCHANGED <<hold, leases, closing, resources, dirRec, cfgRec, me, crashes>>

\* Bound: at most MaxCrash of these, before the steps of CrashAt.
Crash(p) ==
  /\ me[p].at \in CrashAt /\ crashes < MaxCrash
  /\ crashes' = crashes + 1
  /\ Exit(p)
  /\ UNCHANGED <<hold, leases, closing, resources, roots, config, touches>>

Sweep(p) ==
  \/ EnterRun(p) \/ SweepDone(p) \/ \E r \in Run : SettleOne(p, r)
  \/ ReopenMode(p) \/ ReopenLease(p) \/ Readmit(p)
  \/ Resolve(p) \/ ReleaseRecovered(p) \/ AuthorizeRecovered(p)
Settle(p) ==
  \/ SettleDir(p) \/ ForgetDir(p) \/ SettleConfig(p) \/ ForgetConfig(p)
  \/ Prove(p) \/ CloseLease(p) \/ ReleaseMode(p)
Start(p) ==
  \/ (\E r \in Run : TakeMode(p, r)) \/ TakeRefused(p) \/ RecordLease(p)
  \/ PublishDirOrigin(p) \/ MakeDir(p) \/ BindDir(p)
Body(p) ==
  \/ BeginBinding(p) \/ BindLease(p) \/ ArmBoundClose(p)
  \/ PublishConfigOrigin(p) \/ PublishConfig(p) \/ BindConfig(p)
  \/ MoveMode(p) \/ MoveLease(p) \/ Reverse(p) \/ Rearm(p)
  \/ AuthorizeClose(p) \/ MarkPending(p) \/ SettleClose(p)

Next ==
  \/ \E p \in Proc : \/ Sweep(p) \/ Settle(p) \/ Start(p) \/ Body(p)
                     \/ EndBody(p) \/ DataRootRefused(p) \/ Crash(p)
  \/ \E r \in Run : Acquire(r) \/ EndSession(r)
  \/ ProductionTakes \/ ProductionCloses \/ OperatorActs

Spec == Init /\ [][Next]_vars

\* Processes keep coming, a process in the sweep, in a settlement or at the start
\* of a run takes its next step, and a body ends.
Fairness == \A p \in Proc :
  /\ WF_vars(Sweep(p)) /\ WF_vars(Settle(p)) /\ WF_vars(Start(p)) /\ WF_vars(EndBody(p))
FairSpec == Spec /\ Fairness

(***************************************************************************)
(* Properties.                                                             *)
(***************************************************************************)
Step == {"off", "sweep", "reopen", "retain", "readmit", "resolve", "forest", "settled",
         "dir", "dirForget", "dirSettle", "cfg", "cfgForget", "cfgSettle", "prove", "close",
         "release", "take", "record", "origin", "mkdir", "bindDir"} \cup BeforeConfig \cup WithConfig
Task == [at : Step, by : {"sweep", "run", "body"}, on : Run \cup {Nobody}, todo : SUBSET Run,
         how : {"unbound", "short", "final"}, ctl : Control,
         epoch : Epoch \cup {None}, gen : Epoch \cup {None}]

\* The records hold only what the code can write to them; a run's lease never
\* has an epoch before it is recorded (recordUnboundLease, encodeLease).
TypeOK ==
  /\ mode \in Holder \cup {Nobody} /\ modeAt \in Epoch \cup {None}
  /\ lease \in [Holder -> Open \cup {"none", "closed"}]
  /\ leaseAt \in [Run -> Epoch \cup {None}]
  /\ \A r \in Run : leaseAt[r] = None <=> lease[r] = "none"
  /\ closing \subseteq Run
  /\ held \in [Run -> {"none", "acquired", "released"}]
  /\ busy \subseteq Run /\ forward \subseteq Run
  /\ dir \in [Run -> {"absent", "made", "foreign"}]
  /\ dirRec \in [Run -> {"none", "origin", "found", "managed"}]
  /\ file \in [by : Run \cup {Operator, Nobody}, bytes : Run \cup {Operator, Nobody}]
  /\ cfgRec \in [Run -> {"none", "origin", "managed"}]
  /\ me \in [Proc -> Task]
  /\ crashes \in 0..MaxCrash /\ touches \in 0..MaxTouch

\* The mode is the last thing a holder gives up and the first it takes: whoever
\* has an open lease, a run or a Production invocation, holds the project.
OpenLeaseHoldsMode == \A o \in Holder : lease[o] \in Open => mode = o

\* A process that settles a run is the only one on it: neither another sweep nor
\* the run itself is still at work (withRunLiveness).
NoLiveRunIsSwept ==
  \A p, q \in Proc : p # q /\ ~At(q, "off") => me[p].on = Nobody \/ me[p].on # me[q].on

\* A Closing disposition is recorded when everything was released, and nothing
\* is acquired after it: a restart that finds one only finishes the close.
ClosingIsSettled == \A r \in closing : held[r] # "acquired" /\ r \notin busy

\* At the moment a run's lease closes, and the sweep loses sight of it, the run
\* holds nothing: no resource, no session, neither of its two objects.
ClosesSettled ==
  [][\A r \in Run : lease[r] # "closed" /\ lease'[r] = "closed" =>
       /\ held[r] # "acquired" /\ r \notin busy
       /\ dirRec[r] = "none" /\ cfgRec[r] # "managed"
       /\ dir[r] # "made" /\ file.by # r]_vars

\* A file the operator wrote or edited, and a directory that was there before the
\* run, are never removed by a release or a recovery.
StrangersSurvive ==
  [][touches' = touches =>
       /\ file.bytes = Operator => file' = file
       /\ \A r \in Run : dir[r] = "foreign" => dir'[r] = "foreign"]_vars

\* What no sweep gets past, once nobody is at work on the run: an object whose
\* record says it is bound and that is not there any more, or is not what was
\* bound, and a file in the place of a config that was about to be published.
Wedged(r) ==
  /\ \A p \in Proc : me[p].on # r
  /\ \/ dirRec[r] = "managed" /\ dir[r] # "made"
     \/ cfgRec[r] = "managed" /\ ~Installed(r)
     \/ cfgRec[r] = "origin" /\ file # NoFile /\ file.bytes # r

\* A mode without an open lease, and nobody at work on the run: what a death
\* between the two writes of taking or of giving up the project leaves.  No sweep
\* sees it, since a sweep looks for open leases.
Stranded(r) == mode = r /\ lease[r] \notin Open /\ \A p \in Proc : me[p].on # r

\* A run that died or failed is swept until it has given the project up, and with
\* it its lease (OpenLeaseHoldsMode), wherever processes die, unless what they
\* left is Wedged or Stranded.
AbandonedRunsEnd == \A r \in Run : mode = r ~> mode # r \/ Wedged(r) \/ Stranded(r)

\* What finalizeHarnessClose says of a crash between the closed lease and the mode,
\* and releaseOwnedObject of one before the record is forgotten: the run is
\* recoverable.
DeadRunsAreRecoverable == \A r \in Run : mode = r ~> mode # r

=============================================================================
