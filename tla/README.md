# HostBootstrap in TLA+

HostBootstrap is a pip-installable Python floor (`src/hostbootstrap`) that builds and hands off to a
project binary written against a Haskell core (`src/core/hostbootstrap-core`). The core keeps every
durable decision about a project - who may act, what has been started, what must be undone - in a small
protected record store; the floor keeps a host's toolchain, a project's binary and the published base images.
This project models the protocols of both and checks them, and proves most of what it checks.

Paths below are relative to `src/core/hostbootstrap-core/` unless they start with `src/`.

## 1. Inventory

| Component | State | Operations | What makes it hard |
|---|---|---|---|
| Protected store (`internal/ownership/.../Protected.hs`) | versioned records, one exclusive lock | enter, compare-and-swap, compare-and-delete, list | a write may land and be reported failed; versions restart after a delete |
| Redo coordinator (`Lifecycle/Transaction.hs`) | one coordinator record per plan, stamped targets | ensure, run, redo, recover Production | crash between descriptor, targets and commit; stale permits; records read before the coordinator is ensured |
| Journal, sessions, fences, gates (`Lifecycle/Session.hs`) | project journal, session, operation and fence records | open, register, prepare, acknowledge, close, rotate, sweep, interpret, admit | plain values outlive the entry that made them; late results; recovery that itself crashes |
| Mode, lease, snapshot, closure (`Lifecycle/Mode.hs`) | mode, lease, reverse-root intent, invocation and snapshot records | root bracket, bind, rotate, close, migrate, reopen an abandoned run | multi-entry protocols that must be resumable after each write |
| Authority kernel (`internal/authority`) | operator principal, broker epochs | allocate epoch, verify root | two invocations must never share an epoch |
| Chain interpreter (`Chain.hs`) | one session, one permit, a carrier of acquired resources | sweep, open, prepare a step, run it, settle it, descend | the effect runs outside the lock |
| Reconcile and plan (`Reconcile.hs`, `Lifecycle/Plan.hs`, `ProjectPlan*`) | resource records, journal graphs | classify, adopt, repair, tear down | partial failures of an ordered plan |
| Handoff (`Handoff*`) | frames, tokens, receipts, cursors | admit, relay, prepare, descend, settle | two processes over a pipe, lost and late answers |
| Command entry (`Command*`) | verbs, cursors, authority | up, down, destroy, test | composition of everything above |
| Teardown (`Teardown*`) | reverse plan, settlement rows | release each resource once, in order | one step of several failing |
| Ownership seam (`internal/ownership/.../Ownership`, `Ownership/Shipped.hs`) | ownership receipts | reserve, create, probe, release | foreign resources with our name |
| Providers and Ensure (`Ensure*`, `Substrate*`, `internal/colima-backend`) | VM and container runtimes | ensure, start, stop | host state changes under the feet of a check |
| Cluster (`Cluster*`) | budgets, cordons, workloads | plan, reconcile, resume | partial progress |
| WSL2 global wall (`Wsl2*`) | the active record, the target and the names beside it | claim, stage, bind, apply, restore, release | shared by all projects and by the user's editor; a crash between any two kernel calls |
| Harness (`Harness*`) | run leases, generated config, data roots | start, close, reopen an abandoned run | crash between step and record |
| Roles and services (`RoleLifecycle.hs`, `Activation.hs`, `Service*`, `Readiness.hs`, `Detached.hs`) | detached processes, readiness | start, poll, stop | timeouts against late answers |
| Configuration and documents (`Config*`, `Dhall*`, `DocValidator.hs`) | none that persists | decode, validate | pure |
| Command runner (`src/hostbootstrap/process.py`) | a child, two drain tasks, the captured lines | run, probe | failures and cancellations at every await; pipes that fill |
| Native bootstrap (`src/hostbootstrap/bootstrap.py`, `cli.py`) | the host's toolchain and package index, cabal's output, the binary's stable name | doctor, build, run | invocations share all of it without a lock, while a binary runs |
| Prerequisites and substrate (`prereqs.py`, `substrate.py`) | none | detect, check | external tools |
| Base image publication (`base_image.py`, `docker_ops.py`, `resources.py`, `cli.py`) | a daemon's tags, the registry's tag | base build, base build-and-push | two lanes, other invocations and other machines on one tag |
| Self-update (`self_update.py`) | pipx's installation | update | one external call |
| Development runners (`check_code.py`, `test_all.py`) | none | check-code, test-all | sequential |

The store is shared by every process on the host that works on the project. A process enters it under an
exclusive lock, reads, writes record by record, and leaves; it keeps the permits, session handles, fences
and gates it was given as ordinary values. Effects on the world happen between two entries.

### What should be true of each

* Coordinator: a multi-record transition happens entirely, once, or not at all; whoever redoes it
  succeeds; nobody overwrites what they did not see.
* Mode: no mode record means nothing is live; a closed project can be recognised as closed by whoever
  retries the close.
* Sessions: one open session per plan; nothing with an unknown outcome is filed away; a closed session is
  frozen.
* Fences and gates: an attempt has a fence of its own; a late answer never settles a newer attempt; after
  recovery nobody's old gate works.
* Global wall: the user's file is never lost and comes back exactly (as far as an identity tells it); a torn
  file is never put in force; any crash can be resumed (but one half way through a move); one owner at a time.
* Harness: a run's lease closes only when nothing of it is left; every run that died or failed is settled by a
  later sweep and gives the project back (but from the windows section 3 lists); no file or directory of
  somebody else's is removed.
* Command runner: a call that returns has captured everything; one that raises leaves no child and no task
  that writes to what it has closed; every call ends whose child does.
* Native bootstrap: what runs is what was built; a running program's file never changes; the binary's name
  stays; whatever was left half done is repaired by the next invocation that comes alone.
* Base image publication: what is reported was published and passed; the builds of a command fit on their
  host; one flavor's failure ends nothing else.
* Authority, handoff, teardown, providers: see the plan.

## 2. Modules

| Module | Role |
|---|---|
| `LifecycleRecords` | vocabulary: records, transaction kinds, targets, preconditions |
| `AtomicLifecycle` | abstract specification: the records change by whole transactions |
| `RedoTransaction` | coordinator and Production writes, one record write per step |
| `RedoTransactionProofs` | its theorems: types, redo, atomicity, permits, the Production closure |
| `MCRedoTransaction` | its instances |
| `SessionJournal` | journal, sessions, fences, gates and recovery of one plan |
| `SessionJournalProofs` | its theorems |
| `MCSessionJournal` | its instances |
| `GlobalWall` | journal and driver of the WSL2 wall, with the user beside it |
| `MCGlobalWall` | its instances |
| `GlobalWallProofs` | its theorems |
| `HarnessRuns` | test runs: mode, leases, owned objects, terminal close, the sweep |
| `MCHarnessRuns` | its instances |
| `HarnessRunsProofs` | its theorems |
| `CommandRun` | one call of `process.run`: caller, drains, decoder, child |
| `MCCommandRun` | its instance |
| `CommandRunProofs` | its theorems |
| `NativeBuild` | invocations of doctor, build and run on one host and project |
| `MCNativeBuild` | its instance |
| `NativeBuildProofs` | its theorems |
| `PublishPlan` | what a base command computes before docker: gates, caps, parents |
| `BasePublish` | the base commands over it, on shared daemons and one registry |
| `MCBasePublish` | its instance |
| `BasePublishProofs` | theorems of both |
| `SequenceFacts` | lemmas on induction, recursive functions and flattened sequences |

`BasePublish` EXTENDS `PublishPlan`; `RedoTransaction` instantiates `AtomicLifecycle`. The modules of the floor
and those of the core share no state: the binary the floor publishes is what runs the core.

### RedoTransaction

`coord` is the coordinator record (`CoordinatorState`): absent, idle, or applying a descriptor with its
sequence number, kind, expectations (`from`) and contents (`to`). `rec` holds one record per target role.
The steps follow the code's writes:

| Action | Code |
|---|---|
| `Enter`, `Leave`, `Crash` | `withProtectedEntry`, the lock a dead process loses |
| `Ensure`, `Redo` | `ensureTransactionCoordinator`, `recoverApplying` |
| `Admit` | a Mode entry after `recoverProductionTransactions` |
| `Begin` | `runLifecycleTransaction` up to the Applying write |
| `Apply` | `applyTarget` / `applyProductionTarget`, one target |
| `Commit` | the Idle write |
| `TakeMode`, `ClearIntent`, `ArmLease`, `RefuseArm` | `withProductionRoot`, `recordUnboundLease` |
| `BindLease` | `bindFreshRunLease` |
| `RecordIntent`, `CommitIntent`, `RotateMode`, `RotateLease` | the reverse-root intent of a destroy |
| `ReadProduction`, then `Ensure` and `Begin` | `releaseProductionMode` |

Writes fail in two ways: `WriteFails` (nothing landed) and `ReportsFailure` (the rename landed, the
directory sync did not, and the caller is told of a failure). A record's content is abstracted to its
lifecycle state and the broker generation it names; a session or operation record says one of `Payload`.
One record stands for the session role and one for the operation role: the coordinator treats every record
of a role alike. `basis` is a ghost: what the plan's records said when a permit was issued.

`AtomicLifecycle` has neither versions nor processes. `TransactionsAreAtomic` maps the concrete state to
it by reading a published descriptor as committed (`Logical`).

### SessionJournal

Every coordinator transaction is one step here: that is what `TransactionsAreAtomic` grants. Fences are
written by plain compare-and-swaps and keep one step per write. `holder` is only set by the calls that
write more than once in an entry (fence settlement, recovery); any other call is one step, possible while
nobody holds the store.

A permit is a coordinator version. Versions only grow, so a permit either names the live version or is
stale for ever: `current` is the set of invocations whose permit is live. `mem` is what each invocation
keeps: its broker epoch, its session, the fence it observed, every gate it was ever handed, and a released
record it read. `Transact` has a second outcome in which the transaction commits and its answer is lost.

A phase stands for its class in `classifyRecordedPhase`. The continuable phases other than the initial
intents (`Reserved`, `ReservationRetryFenced`) are not acknowledged through Session and have no action.
`Start` allocates a fresh broker epoch; that no two invocations share one is the authority kernel's
promise, not modelled yet. The chain's effect between `Prepare` and `Acknowledge` is any delay.

`launched`, `used` and `answered` are ghosts: how often an operation was prepared, under which fences
since its registration, and which preparation its recorded outcome answers.

### GlobalWall

`wall` is the active record (`PersistedWallRecord`); `names` says which object each of five names is linked
to: the target, the stage and its first, armed name, and the names that retain the origin and the managed
object. `content` says who wrote an object and from which text its managed lines were merged. A call
(`applyGlobalWall`, `restoreGlobalWall`) alternates between a look, which compares every name with the
journal, and the primitive steps it then decided on, which `plan` holds:

| Action | Code |
|---|---|
| `StartApply`, `StartRestore` | the two entry points, refusing another owner and the wrong half |
| `AllocateFence`, `Claim` | `allocateFence`, `prepareFreshReceipt` |
| `BeginStage`, `StageMissing`, `ArmedLeftover`, `ArmedBound`, `WithdrawArmed`, `BeginApply` | `driveStage` and what it calls |
| `RetainOrigin`, `PublishStage`, `SettleApply` | `driveApplying`, `settleWallApply` |
| `BeginRestore` ... `SettleRestore` | `driveRestore`, `driveRestoring` |
| `Release`, `VerifyReleased`, `Clear` | `releaseWall`, `verifyWallReleased`, `clearReleased` |
| `Refuse` | any other layout: a conflict |
| `Confirm`, `Link`, `Remove`, `Create`, `Bind` | `withConfirmedIdentity` and the ownership row's primitives |
| `Crash` | a process that dies, or a step that fails or is reported failed |
| `UserReplaces`, `UserEdits`, `UserDeletes` | the user's editor, external to the code |

The process may die before any step and the user act before any: nothing is assumed of when. `mine` is a ghost:
the user's files the driver is to leave a name, namely every one that was there when it decided on its steps,
and every one the user made or edited since, less those it has no way to notice (`Unnoticed`).
`withConfirmedIdentity` compares identities and then acts, in two steps: what the user does between the two
escapes it, and so does, before the first, an edit in place or a new file under the identity it is about to
find. `HalfMoved` names the four layouts that a death between the link and the withdrawal of a move leaves.

An identity is a kernel identity: an object no name is linked to
frees its identity, and a later create may get the same one. A look at up to three names is one step.
The journal's writes are single steps because they run inside one protected entry, whose compare-and-swap
`RedoTransaction` models.

### HarnessRuns

`mode` and `lease` are the records of section 1, `modeAt` and `leaseAt` the broker epochs written with them;
`closing` holds the runs whose invocation record says Closing. `held`, `busy` and `forward` stand for a run's
resource records, its open operation sessions and the currency of its forward permits, which
`SessionJournal` models in detail. `dir`, `file` are the two objects a run makes, `dirRec`, `cfgRec` its origin
records of them (`origin`: published, `managed`: bound to an identity, `found`: somebody else's). `me` is what
a process does: its step, which bracket it is in (`by`), the run it works on, the leases left to sweep, how
the lease is to be closed, its close control, and the epochs of its close authority and current generation.

| Action | Code |
|---|---|
| `EnterRun`, `SettleOne`, `SweepDone` | `ownProjectRun`, `recoverAbandonedHarnessRuns` under `withRunLiveness` |
| `ReopenMode`, `ReopenLease`, `Readmit` | `withAbandonedHarnessRun`: `retainAbandonedHarnessMode`, `retainBoundLeaseGeneration`, `readmitSessions` |
| `Resolve`, `ReleaseRecovered`, `AuthorizeRecovered` | `resolveBoundRun`, `closeOrRecoverResources`, `finishRecoveredClose` |
| `SettleDir`, `ForgetDir`, `SettleConfig`, `ForgetConfig` | release and recovery of the two objects: the object, then the record |
| `Prove`, `CloseLease`, `ReleaseMode` | `runTerminalClose`, `closeHarnessRun`, `finalizeHarnessClose` and the sweep's closes |
| `TakeMode`, `TakeRefused`, `RecordLease` | `withHarnessRoot` |
| `PublishDirOrigin`, `MakeDir`, `BindDir`, `DataRootRefused` | `takeDataRoot` |
| `BeginBinding`, `BindLease`, `ArmBoundClose` | `beginOwnedHarnessBinding`, `bindFreshRunLease`, `armOwnedHarnessBoundClose` |
| `PublishConfigOrigin`, `PublishConfig`, `BindConfig` | `acquireOwnedRunConfig` |
| `MoveMode`, `MoveLease`, `Reverse`, `Rearm` | the fresh generation of a destroy and of the next variant |
| `AuthorizeClose`, `MarkPending`, `SettleClose` | `authorizeAndMarkExactHarnessClose`, `settleOwnedHarnessClose` |
| `EndBody` | the body returns or throws, at any of its steps |
| `Acquire`, `EndSession` | forward work |
| `ProductionTakes`, `ProductionCloses` | Production invocations, as far as they touch mode and lease |
| `OperatorActs`, `Crash` | an operator's editor and shell (external); a dead process |

Every write is a step. `MidEntry` names the steps between two writes of one protected entry, during which no
other process enters the store. Forward work is not tied to the body that started it: `closeHarnessRun`
looks at sessions and resources again in the entry that closes the lease, and `AuthoritySpec` tests that it
refuses when something was acquired since the proof; the model allows what that check is for.

### CommandRun

`caller` is where the coroutine awaits: both drains (`gather`), the child (`wait`), and in the cleanup the
child it killed (`reap`) and its drains (`settle`). `says` is what the child will write to each pipe, `wrote`
and `read` how much of it entered and left the pipe; `text` and `lines` are a drain's decoder, pending text
and capture. `heir` is a descendant that outlives the child and holds its pipes; `status` is the child's.

| Action | Code |
|---|---|
| `Spawn`, `SpawnFails` | `create_subprocess_exec` and the two tasks |
| `Drain`, `DrainEnd`, `DrainCancelled` | `_drain`: one read, the end of the stream, a cancellation |
| `Emit` | the capture, then the mirror, which may raise |
| `Gathered`, `GatherRaises`, `Waited` | the body of the `try` |
| `CleanUp`, `Reaped`, `Settled` | `except BaseException` and `finally` |
| `CancelGather`, `CancelWait`, `CancelReap`, `CancelSettle` | a cancellation of the caller, by where it awaits |
| `Write`, `Exit`, `HeirEnds`, `MirrorBreaks`, `Reap` | external: child, descendant, terminal, child watcher |

A byte is one of a plain character, a lead byte, its tail, a carriage return and a newline. That is what an
incremental UTF-8 decoder and the line splitter tell apart.

### NativeBuild

`host` and `project` are chosen at the start: a host is what `detect` and the prerequisite checks find, a
project the names its cabal files give. `tool` and `index` are the host's toolchain and cabal's package index,
`left` what a command that outlived its invocation is still installing; `source`, `dist` and `links` are the
version of the source, what cabal's own executable holds, and what each invocation's cabal is linking. `exe`,
`temp`, `prev` are names of files - the stable name, and the unique siblings `_copy_if_changed` makes of it -
`bytes` what the files hold and `image` which of them a program executes. `me` is what each invocation is doing.

| Action | Code |
|---|---|
| `Start`, `Enter` | the commands: the project, the substrate and the floor (`discover_project`, `detect`, `run_doctor`) |
| `Probe`, `Install`, `PlaceGhcup`, `GhcupPlaced` | `_ensure_toolchain`, `_already_present`, `_install_verified_ghcup` |
| `RefreshIndex`, `Build` | `_build_native` up to cabal's end |
| `Compare`, `Copy`, `Replace`, `Aside`, `Swap`, `SwapFails` | `_copy_if_changed`, on Windows with two renames |
| `Identity`, `Exec` | the new binary's own first call, and `_exec_project_binary` |
| `Fail` | any of these that raises, with what its handlers undo |
| `Link`, `ProgramEnds`, `Edit`, `Crash`, `Outlive` | cabal's linker, the program, the developer, a killed process, a command it left at work (external) |

A process that is killed leaves the command it ran at work: cabal's linker (`links`), an installer, or `cabal
update` (`left`), which changes the host when it ends (`Outlive`), whatever runs by then. `process.run` kills
only the child it spawned, so a command that was killed but has children of its own is the same case.

No command takes a lock, so any number of invocations interleave at each of these steps. `shared` is a
ghost: another invocation was building or publishing in this one's time.

### PublishPlan and BasePublish

`PublishPlan` holds the pure part: which maintainer and machine may run the commands (`Authority`, `Native`),
what each build may use of its host (`Sufficient`, `Budget`), the formatter's command lines (`Chunks`), the
gates (`Clean`), and whether upstream offers a parent for each flavor (`Resolved`). `BasePublish` runs
invocations over it. `lane` is the docker command each flavor of an invocation is at, `ref` the image a lane
took by its ID or digest; `tags` says which image each daemon's rolling tag names, `known` which images a
daemon has a repository digest of, and `pushes` what the registry's tag was set to, and by whom. An image is
named by the invocation that built it; `unsound` are those the consumer's build fails from.

| Action | Code |
|---|---|
| `Enter`, `RunTools` | the commands' authority; `check_code`, `test_all` |
| `PassGates`, `Measure`, `Resolve` | `_run_quality_gates_or_abort`, `_resolve_build_budget`, `_base_work` |
| `Begin`, `Build` | `_run_base_targets`, `docker build` |
| `Inspect`, `Smoke`, `Push`, `Pull`, `Digest`, `Check` | `_build_then_publish`, one docker call each |
| `Collect` | `gather` of the lanes and the verdict over their outcomes |
| `FailEarly`, `Fails`, `Interrupt` | a command that fails, raises, or is interrupted |

A docker call may do its work and be reported failed (`Answered`). Two invocations on one daemon share its
tags and images, two on different daemons only the registry.

## 3. Runs

| Run | Instance | Question |
|---|---|---|
| `redo_production` | 2 processes, 3 transactions, 3 epochs, 2 faults | do the Production records change atomically and in a recoverable order? |
| `redo_session` | 2 processes, 2 payloads, 2 transactions, 2 faults, fairness | is a session update ever lost, doubled or halved, and is a published descriptor finished? |
| `session_recovery` | 2 invocations, 2 sessions, 1 operation key, 1 fault | does recovery outdate everything a stalled invocation still holds? |
| `session_gates` | 2 invocations, 1 session, 1 operation, 2 fences, 5 record versions, 1 fault, fairness | does an answer always reach the attempt it belongs to, and is an abandoned session swept? |
| `wall_recovery` | 2 owners, 3 identities, 3 contents, 2 crashes and 1 act of the user anywhere, fairness | does the user's file survive, is every crash but a half move resumable, is a release clean, does a wall settle? |
| `wall_replaced` (violation) | 1 owner, no crash, 1 act of the user | is a replacement of the managed file left intact, as `wsl2.md` says? |
| `wall_half_moved` (violation) | 1 owner, 1 crash, no user | is every point where a publication can fail one the next call resumes, as its tests say? |
| `harness_runs` | 2 processes, 1 run, with or without a foreign data root, 2 crashes anywhere, 2 acts of the operator, fairness | does a lease close with nothing left behind, does everyone with a lease hold the project, does no stranger's file go, does every run end that is not stuck in a window of section 3? |
| `harness_stranded` (violation) | 2 processes, 1 run, 1 crash between lease and mode, fairness | is a run that died there recoverable, as `finalizeHarnessClose` says? |
| `command_run` | 4 outputs for each of 2 pipes, pipes of 2 bytes, reads of up to 3, 2 cancellations, fairness | is a capture whole, is a child ever left, does every call end? |
| `native_build` | 8 hosts, 3 projects, 2 invocations, 8 files, 1 edit, 1 fault, fairness | does run execute what was built, is a running program's file kept, is everything half done repaired? |
| `base_publish` | 10 settings, 2 invocations on 1 or 2 daemons, 1 fault, fairness | is what is published and reported the image that passed, do the builds fit, does one flavor's failure stay its own? |

Bounds. Two processes are enough for the lock and for every stale value: the protocol never compares three
parties. Three transactions (in `redo_production`) allow open, finalize and reopen with a redo of each; three
epochs allow an up, a destroy and an up again; two faults allow a crash inside the recovery of a crash; the
session runs need one, since a second invocation that stalls plays the other part. The wall needs three
identities: the user's file, the managed object, and either the user's new file or a torn leftover; the contents
are the empty file, a text, and one no managed section can be merged into. `MaxSeq` stands for the last sequence
number of `Word64`, and the code refuses there as the model does; `MaxFence` likewise. One harness run is enough
beside two processes, one of which may be sweeping it while the other is at work on it, and Production before
and after it: only one run at a time has a lease to settle (`OpenLeaseHoldsMode`). That one run's leftovers harm
no other run is left to the theorems, which are about any number of runs. Five epochs suffice because an epoch
that no record and no process names any more may be drawn again, which the properties cannot tell from a new
one. `MaxVer`, `MaxEpoch`, `MaxBroker`, `MaxFaults`, `MaxCrash` and `MaxTouch` only bound the instance.
`CrashAt` of `HarnessRuns` says before which steps a process may die: all of them in `harness_runs`
(`Anywhere`), one in `harness_stranded`, to show which window it is. Symmetry permutes processes (and sessions)
in the runs without liveness properties only (361 thousand states of the wall, 292 thousand of the harness, 663
thousand of `session_gates`).

The floor's instances. The outputs of `command_run` are the shapes a read can cut: nothing, a wide
character, a carriage return inside a line and before its end, a lone lead byte at the end; pipes of two bytes
fill after two writes, and a second cancellation reaches each await of the cleanup (314 thousand states). In
`native_build` there is a host of each kind and one that is refused for each reason: a new Linux, a used
Darwin, a new Windows, a Windows for which no ghcup is pinned, and hosts that lack a check, an architecture or
a supported system; brew's installation of ghcup is thus not exercised. Three projects stand for the ways a
name is picked and refused. One edit gives two sources, and one fault one step that fails or one process
that dies; what the second invocation does at the same time covers the rest. Eight
files leave a free one for two invocations at every step, as `NativeBuildAssumption` asks (221 thousand states). The
index does not age within a behaviour, which is shorter than a week. `base_publish` has a setting that is refused
for each reason, memory one KiB below and exactly at the minimum, and source lists that fill the command line
exactly and miss it by one; each invocation runs once per behaviour, which is enough for another one to meet
it at every step (149 thousand states).

Fairness. `redo_session`: a process inside its entry takes its next step (weak fairness; nothing blocks it,
since it holds the lock), and the plan's next session entry eventually gets the lock (strong fairness, since
other entries come and go). Nothing is assumed about Mode being used or transactions begun. `session_gates`: an
invocation is started again, finishes a call that holds the store, and sweeps when it starts, which is what
`openChainJournal` does first. `wall_recovery`: a call takes its next step, since it holds the wall's store
alone, and each owner asks for its wall again, as every bring-up and tear-down does; what no wall needs is
nobody's obligation. `harness_runs` and `harness_stranded`: a command is started again and its sweep, its
settlements and the start of its run go on, and a body ends; nothing is assumed about what a body does, about
forward work, or about Production ever giving up a mode it has. `command_run`: the event loop runs what is ready
and the kernel ends what was killed; whether a wait for the child returns while a descendant holds its pipes
differs between releases of asyncio, so that is not assumed, and `CallsEnd` itself says under which conduct of
the child and its descendants a call ends. `native_build`: an invocation takes its next step (nothing blocks
it), cabal links, a command that was left at work ends, and so does a program; and the developer runs the
program again, online, which only matters for `Converges`. `base_publish`: a command takes its next step, since
docker and the tools answer. Faults are finite in all.

Findings. Three runs are expected to be violated, each by what the code does against what the repository says.

* `wall_replaced`: `ReplacementsAreLeft` says that no step of a teardown takes the last name from a file of the
  user's other than the managed object. `deleteWallFile` observes the identity and then removes whatever has the
  name; a file the user saves in between is lost. `wsl2.md` says it is left intact. `UserFilesSurvive` states what
  the comparison of identities does save, at every moment the user may act.
* `wall_half_moved`: `EveryFaultIsResumable` fails after a death between the link and the withdrawal of a
  move, which leaves two names on one object; no call accepts that layout (the repair is planned as sprint 14.19).
  `CrashesAreRecovered` says that apart from the four layouts of this kind there is no other.
* `harness_stranded`: `DeadRunsAreRecoverable` fails after a death between the closed lease and the mode's
  release (the repair is planned as sprint 19.13): a sweep looks for open leases, and there is none. It fails
  too if `CrashAt` holds `record` instead: the harness takes its mode in one write and records its lease in
  another, where the phase document says one. And it fails if it holds `dirForget` or `cfgForget`: an object
  that is gone is a conflict to `reobserveReportedIdentity`, so after a crash between removing an object and
  forgetting its record every recovery refuses, against the comment of `releaseOwnedObject`, which calls this a
  window the next run resolves. `AbandonedRunsEnd` lets processes die anywhere and names what these windows
  leave, a mode without a lease (`Stranded`) and a record that is ahead of its object (`Wedged`); a run that
  died or failed in any other way ends.

Weak points. Each of these is a window in which a property fails; the property excuses it.

* `recoverGeneratedConfig` removes an unbound config and does not forget its record, so the record outlives the
  lease that indexes it, which the header of `Harness/Ownership.hs` says settling it prevents; `ClosesSettled` asks
  of the config's record only that it is not bound.
* A refused data root leaves lease and mode to the next sweep (remaining work of sprint 19.1): `DataRootRefused`
  is in every run of the harness.
* The wall recognises a file by its identity, which the kernel may hand out again: a new file of the user's can
  pass for the one the driver looked at (`Unnoticed`).
* In `process.run` the null device is opened after the child was spawned and outside the `try`: if that fails,
  the child is left. A cancellation while the child is being spawned is asyncio's own to handle. Neither is modelled.
* A process that dies between the bytes and the permissions of ghcup leaves a file that later probes
  take for neither present nor absent, and no later invocation repairs it: `Converges` excuses a ghcup that
  stays so (`Wedged`).
* Invocations of build and run take no lock: one can run another's binary, or a torn one, and leave a name that
  the next has to repair. `RunsWhatItBuilt` speaks of invocations no other overlapped (`shared`); `Converges`
  excuses invocations that overlap for ever. A process that dies in the Windows swap leaves the last binary
  beside its name, for the next publication to replace.
* The push names the rolling tag, so another invocation on the same daemon can have moved it since the smoke;
  the smoke of the published digest then finds out, after the push. `PublishedWasSmoked` speaks of invocations
  that had their daemon's tag to themselves (`shared`); `base_image.md` (lines 103-105) says without that condition
  that the smoke precedes any change of the registry.
* Of two flavors that fail `base build` reports each, where `build_release.md` (lines 157-159) says that only the
  first failure is raised. `FailuresStayApart` does not depend on which of them are shown.
* The caps of a command are its own: two commands on one host may sum past it, and the smokes carry no
  caps. The gates judge the checkout once; what is edited afterwards is built ungated.

No run needs deadlock checking disabled: see `CHECK_DEADLOCK` in none of the configurations.

## 4. Theorems

`RedoTransactionProofs` proves, for every set of processes, every subset of kinds, every payload set and
all bounds, from the named assumptions of `RedoTransaction` only, the refinement and every safety property of the
redo runs:

* `TypeCorrect`: `Spec => []TypeOK`.
* `NoConflict`: `Spec => []RedoNeverConflicts`.
* `Atomicity`: `Spec => TransactionsAreAtomic`.
* `BeginsOnIssued`, `ModeGoesLast`, `ClosureIsWhole`: `BeginsOnIssuedRecords`, `ModeAbsentMeansReleased` and
  `TerminalClosureIsWhole`.

`RedoNeverConflicts` is not inductive: that a finalization's expectations still match depends on no Mode
entry having written since the descriptor was published (`ModeEntryIsAdmitted`), on the closing process
having published what the records still say (`ClosingSeesRecords`), and on a process that materialises a
descriptor having passed only applied targets (`PassedIsApplied`). `RedoInvariant` is their conjunction;
one lemma per action shows that it is preserved, and the temporal step combines them.

The last four rest on `AtomicInvariant`, which is `RedoInvariant` with five parts more:

* `PermitsAreCurrent`: no permit is ahead of the coordinator, and the live one was issued on the records as they
  are; only `Begin` makes a descriptor pending and it presents the live permit, which is `BeginsOnIssued`.
* `DescriptorIsSound`: what a finalization asks for. An absent mode and a closed lease are asked for together, and
  a pre-effect release finds no destroy.
* `ArmingHoldsMode`: a process on its way to arm a lease holds the mode, so the abstract `ArmLease` and
  `ClearIntent`, which demand the mode, are enabled where the code relies on the step before.
* `LeaseLedgers`, `TerminalIsClosed`: how intent, lease, mode and journal are tied together between two writes. The
  materialisation order of `expectedRoles` carries them: the lease is closed when the mode is given up, the intent
  is terminal when the lease is closed.

In the refinement, publishing a descriptor is the abstract transaction (`BeginMeans`); materialising and committing
leave what the records mean alone (`ApplyMeans`, `CommitMeans`); and since no Mode entry writes while a finalization
is pending, each of its writes is the abstract action of its name (`ModeMeans`).

`SessionJournalProofs` proves every safety property the session runs check, for all invocations, sessions,
operation keys, outcomes and limits, from the named assumptions of `SessionJournal`: `TypeCorrect`,
`OneSessionAtATime`, `UnknownsAreKept`, `AttemptsAreFenced`, `AnswersAreLatest`, `AdmissionOutdates`,
`ProposalsAreResumed` and `ClosedAreFrozen`. The inductive invariant, `SessionInvariant`, has these parts:

* `GoalOK`: who settles a fence knows what for. `TypeOK` needs it, since a settlement continues at its goal.
* `FenceOK`: nobody holds an epoch or a gate above the fence, nor one equal to it while a proposal is
  unsettled, nor, once a recovery has rotated the fence, a gate at it. Admission and resumption follow:
  `rotateFence` needs the epoch its caller holds, which no caller holds of an unsettled proposal.
* `MembersOK`, `RebindOK`: a recorded operation is a member of a session that exists, so the member list a
  close or a sweep inspects misses nothing; a rebound session stays clean because its holder keeps the store.
* `AttemptsOK`: the fences used are at or below the one in the record, which is at or below the live one.
* `GatesOK`: no gate is ahead of its record's version, so a gate that matches it is the latest call's.

Each part is preserved by a lemma of its own with one step per action or group of actions.

`HarnessRunsProofs` proves every safety property of the run `harness_runs`, for all processes, runs, epochs
and bounds, wherever a process may die (`CrashAt` is any set), from `NamesAssumption` and `SetsAssumption`:
`TypesHold`, `OpenLeasesHoldTheMode`, `NoLiveRunSwept`, `ClosingStaysSettled`, `ClosesAreSettled` and
`StrangersAreSafe`. The argument follows a run from its records to its close. `HarnessInvariant` has these
parts:

* `Alone`: one process is at work at a time, and one that is not keeps nothing. Every other part can then
  be shown for the process that moves; the others are off and owe nothing (`OffOwesNothing`).
* `Working`: the run in hand has a lease, a bound one in the body, and an epoch where one is written.
  `TypeOK` needs it: a lease without an epoch would otherwise be written.
* `Serving`: a sweep has no terminal-close control, so only a live run's `Prove` answers for one.
* `Holding`: between the mode and the lease of a run nobody else takes the mode; at the mode's release the
  lease is closed.
* `Fencing`: forward work starts with a bound lease, and has lost its permit before a run is closed. That
  work outlives its body, so no part about the process alone implies it.
* `Recording`: an object of a run has a record until the step about to remove that record, and nothing that
  was there before carries the record of an object the run made.
* `Settling`: past its settlements a run has neither object, and the sweep's short way is taken only for a
  lease that is not bound.

`ClosesAreSettled` combines the last three with what `Closable` looks at again; `StrangersAreSafe` follows
from `Recording`.

`GlobalWallProofs` proves the safety of the wall for all owners, identities, contents and bounds, wherever a
process may die and whenever the user may act, from the three named assumptions of `GlobalWall` on its constants:
`TypesHold`, `UserFilesStay`, `TornIsLeft`, `ReleasesAreClean` and `OwnersOnly`. The invariant, `WallOK`, has
these parts besides types and owners:

* `Planned`: the plans, and what is left of them, that each phase of the journal has. Everything else is told
  apart by phase.
* `Beside`: which of the names beside the target a phase has in use, and the one the bound object is under.
  `ReleasesAreClean` is its last case.
* `Aimed`: what the object of a plan is by now. An object that is about to lose a name has another one, or is
  not one of the user's that the driver is to leave; this is where the second observation counts.
* `Kept`, `Left`: where the user's files and torn ones may be, given what a plan is about.
* `Restful`: a wall that was restored has the target back unless the user touched it.

For recovery after a crash a further invariant, `Kempt`, says how the names lie as long as the user has kept away
since the claim (`Undisturbed`): what each phase of the journal starts from, and what each plan half carried out
leaves (`Publishing`, `Retracting`). A file that is moved has two names until the old one is withdrawn; the four
layouts between those halves (`HalfMoved`) are the only ones the next call refuses, which is `CrashesRecover`.

`CommandRunProofs` proves `TypesHold`, `NoChildLeft` and `SinksLast` for any outputs, pipes, reads and number of
cancellations. `ChildAt` says what the caller's place tells of the child and of the failure it carries,
`DrainsAt` that a drain which still reads was asked to stop once the caller is past `gather`.

`CaptureWhole` proves `CaptureIsWhole` for any bytes and any way the reads split them. Its invariant:

* `Captured`: while a drain reads, its lines and its pending text are the text of the bytes read so far, decoded in
  one piece (`Taken`), with each line ended (`Cuts`); once it is done they are the whole output.
* `SaidAll`: a child that is dead and was not killed has written all it had to say.

One read preserves `Captured` since decoding is the same in two parts as in one, the decoder's held byte carried
over (`DecodedAppend`), since dropping the carriage returns of line ends is (`KeptAppend`) where the splitter
keeps a last carriage return pending, and since the splitter cuts at every newline and nowhere else (`SplitCuts`).

`NativeBuildProofs` proves every safety property of `native_build` for any number of invocations, hosts,
projects, versions and faults: `TypesHold`, `ToolchainFirst`, `ImagesKept`, `StableName`, `RunsItsOwn`; and
`OfflineLeaves`, which is not model-checked on its own. `NativeBuildAssumption` asks for more files than
can have a name, so that there always is a new one for a sibling. The invariants:

* `ToolingOK`: an invocation that is past a step of the toolchain finds what it ensured, since no step of
  anybody takes it away again.
* `NamesOK` (`Slots`, `Apart`): which names an invocation has at each step, and that the file it fills is under
  no other name and runs nowhere. `ImagesKept` and `StableName` follow.
* `MineOK` (`Asked`, `Alone`, `Has`): as long as an invocation is not `shared`, nobody else links, what it linked
  is what it asked for, and what the stable name holds is what it copied.
* `OnlineOK`: whoever installs something is not offline. `OfflineLeaves` follows: while every invocation at work is
  offline, and no command of an online one has outlived it, nothing reaches the toolchain or the index, and no death
  leaves a command behind that would. A command left by an online invocation is not excused away: until it ends
  somebody is `Fetching`, and `Outlive` may change the host under an offline one.

`BasePublishProofs` proves every safety property of `base_publish` for any number of invocations, daemons, settings
and faults: `TypesHold`, `CapsFit`, `FailuresApart`, `PublishedWereSmoked`, `ReportsPublished` and
`SourcesFormatted`. The parts:

* `Wide` gives caps and measures their types; `BudgetFits` is the arithmetic of `Budget` for one build and for
  two, and `OneAtATime` that a command in turn has one build.
* `Order`, `OneLane`: how far the lanes of a command are, by the command's own stage.
* `Met`, `Mine`, `Pushed`: while nobody else on its daemon builds its flavor, the tag and the reference of an
  invocation are its own image, and that image passed from the smoke on. `LaneEffects` says once what a step of
  another lane can change.
* `OnTag`, `Found`, `Sound`, `SinceLast`: a digest that resolves is of an image that was pushed or pulled since
  the invocation's own push, and it passed once it is reported.
* `Gated`: an invocation past its gates, or with a lane at work, has a setting whose gates pass. What then is left
  for `SourcesFormatted` is pure: `ChunksPack`, by induction over the sources, that the command lines are not
  empty, fit, and give each source once and in order, whatever the sizes (`SourcesAssumption` only says
  that a root's sources are a sequence of sizes that can be read or not).

`SequenceFacts` has what two of these modules need of data. Induction over the natural numbers is stated of a set
(`Induction`, from a least counterexample), since the provers take no operator as a parameter. A recursive function
along `0 .. N` is shown to satisfy its equations (`Recursion`, with a function built step by step as the witness);
the models' `Decoded`, `Lines`, `Kept`, `Sources` and `Chunks` are such functions. `FlattenAppend` and
`FlattenExtend` say what `FlattenSeq` makes of a sequence that grows at its end.

`TypeOK` of `RedoTransaction`, `SessionJournal`, `HarnessRuns`, `GlobalWall`, `CommandRun`, `NativeBuild` and
`BasePublish`, and `FenceProposalsAreResumed`, `WallIsItsOwners` and `OfflineTakesWhatIsThere`, are proved and
have no run of their own. Every invariant, every action property and the refinement the passing runs check are proved.
Model-checked only are the seven liveness properties, `DescriptorsAreFinished`, `AbandonedSessionsAreSwept`,
`WallsSettle`, `AbandonedRunsEnd`, `CallsEnd`, `Converges` and `CommandsEnd`: liveness under fairness and `ENABLED`
are out of the prover's reach.

## 5. Not modelled

The content of records (digests, codecs, canonical encodings), the file layout of the store, and the
operating system's lock are abstracted. `recordDurableUnknown` (`Lifecycle/Prepared.hs`) writes an unknown
phase without the gate's checks and has no model. Plan migration's old and new revisions each run the
recovery modelled here; the barrier between them is not modelled. Everything section 1 lists and section 2
does not is left for the plan below; configuration decoding, document validation and providers' command
lines are pure or outside the program. Of the global wall, the merge of managed lines and the record codec
are abstracted, and the WSL shutdown, power loss, the driver's bound of 24 steps and the volume check are
left out. Of the harness, the engine that runs the cases, the staging name of the config, profile slots,
migrating (frozen) leases and the reverse-root refusal of other entries are left out, and a look at an object
and its removal are one step.

Of the floor: self-update is one pipx call and a comparison of two names, with nothing kept between calls. How a
prerequisite check reads its tool's output, how versions are parsed and compared (the choice of the latest CUDA
tag among those that fit), winget's own state, the search for a Windows ghcup, the text of docker's command lines,
and the temporary directory of the tests are abstracted. Both flavors resolve upstream versions separately; the
model's catalog does not change between the two.

Known hazards of components without a module, or without a property, are these: a journal left Closing must be
resumable (`Lifecycle/Session.hs:2399`); the Production mode is taken and its lease armed in two writes
(`Lifecycle/Mode.hs:6949`); a broker epoch is advanced before it is used, and a command reservation is used once
except for a replayed teardown (`Authority/Kernel.hs`); settling a step's gate can itself fail (`Chain.hs:459`);
a token grant may lose its compare-and-swap to its own retry (`Handoff.hs:4280`); a reused identity passes for
the one observed (`Wsl2/GlobalWall/Host.hs:1473`).

## 6. Plan

In this order:

1. `ReverseRoot`: the intent of both `down` (promotion) and `destroy`, with every resumption point, as a
   refinement of an abstract "epoch rotation" that changes mode, lease and intent at once.
2. `BrokerEpoch`: the authority kernel's allocation under crashes, composed with `SessionJournal.Start`.
3. `ChainRun`: `Chain.hs` over `SessionJournal`: the order sweep, open, prepare, effect, settle, close,
   with exceptions and descents; every effect is preceded by a durable unknown and answered once.
4. `Handoff`: tokens, receipts and cursors between a parent and a child frame over a pipe.
5. `Teardown`: the reverse plan, retained and refused rows, retry of a half-done destroy.
6. `OwnershipSeam`: reservations against foreign changes, the staged link of `Ownership/Shipped.hs`.
7. `Readiness`, `Detached` and the activation file two services may publish: timeouts against late answers.

Theorems planned: the safety of each module above as it is written.
