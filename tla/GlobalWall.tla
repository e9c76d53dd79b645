---------------------------- MODULE GlobalWall ----------------------------
(* The journal and the driver that put a managed .wslconfig in place of the *)
(* user's and bring the user's file back (Wsl2/GlobalWall.hs and            *)
(* Wsl2/GlobalWall/Host.hs).                                                *)
(*                                                                          *)
(* One call runs at a time: it holds the exclusive entry of the wall's      *)
(* store from its first step to its last, and a process that dies frees it. *)
(* The user acts on the target between any two of its steps, and the process *)
(* may die before any of them.                                              *)
EXTENDS Naturals, Sequences

CONSTANTS
  Request,      \* callers: an owner and the managed lines it wants
  Ident,        \* kernel identities; an unlinked one can be handed out again
  Bytes,        \* what the user writes
  Empty,        \* the empty file, a member of Bytes
  Unmergeable,  \* contents no managed section can be merged into
  Absent,       \* nothing there
  User, Torn,   \* authors of a file that no completed create wrote
  MaxCrash, MaxTouch

ASSUME ContentsAssumption == Empty \in Bytes /\ Unmergeable \subseteq Bytes
ASSUME BoundsAssumption == MaxCrash \in Nat /\ MaxTouch \in Nat

VARIABLES
  names,    \* what the target and the four names beside it are linked to
  content,  \* the bytes of each object
  wall,     \* the active record
  call,     \* the running call
  plan,     \* the primitive steps it has decided on and not yet taken
  obj,      \* the object those steps are about
  mine,     \* ghost: the user's objects that the driver is to leave a name
  touched,  \* ghost: the user acted since the wall was claimed
  crashes, touches

disk == <<names, content>>
driver == <<call, plan, obj>>
ghosts == <<mine, touched>>
bounds == <<crashes, touches>>
vars == <<names, content, wall, call, plan, obj, mine, touched, crashes, touches>>

\* stage, origin and managed are stageCandidate, retainedPath and retiredPath;
\* armed is the staged object's first name.
Name == {"target", "stage", "armed", "origin", "managed"}

Content == [by : Request \cup {User, Torn}, from : Bytes]
Object == [id : Ident, content : Content]

ASSUME AbsentAssumption ==
  /\ Absent \notin Ident \cup Request \cup {User, Torn} \cup Object
  /\ User # Torn /\ {User, Torn} \cap Request = {}

Phase == {"none", "origin", "staging", "bound", "applying", "applied",
          "restoring", "restored", "released"}
Teardown == {"restoring", "restored", "released"}

NoWall == [phase |-> "none", owner |-> Absent, origin |-> Absent, bound |-> Absent]
NoCall == [op |-> "none", by |-> Absent]

Do(what, from, to) == [do |-> what, src |-> from, dst |-> to]
Delete(n) == <<Do("confirm", n, n), Do("remove", n, n)>>
\* renameOpenFile: the kernel primitive is a link, so a move is a link and the
\* withdrawal of the old name.
Move(a, b) == <<Do("confirm", a, a), Do("link", a, b), Do("withdraw", a, a)>>
CreateStage ==
  <<Do("create", "armed", "armed"), Do("bind", "armed", "armed"), Do("link", "armed", "stage")>>

At == IF call.op = "none" THEN "idle"
      ELSE IF plan = <<>> THEN "look" ELSE plan[1].do
Looking(op) == At = "look" /\ call.op = op

\* observeWallFile: which object is there and what it holds.
Seen(n) ==
  IF names[n] = Absent THEN Absent ELSE [id |-> names[n], content |-> content[names[n]]]

\* desiredFromOrigin: the managed lines of the owner merged into the origin.
Base(o) == IF o = Absent THEN Empty ELSE o.content.from
Desired == [by |-> wall.owner, from |-> Base(wall.origin)]
Want == [id |-> wall.bound, content |-> Desired]

Free == {i \in Ident : \A n \in Name : names[n] # i}

\* Files whose last writer is the user.
UserFiles == {i \in Ident : content[i].by = User /\ \E n \in Name : names[n] = i}

---------------------------------------------------------------------------
(* The layouts the journal tells apart.                                     *)

\* validatePreparedApply, apart from the stage itself.
Untaken == Seen("target") = wall.origin /\ Seen("origin") = Absent

\* Mutant: an origin already retained is not taken for a prepared layout.
PreparedBeforeRetention == Seen("stage") = Want /\ Untaken

\* observesPreparedLayout
Prepared ==
  /\ Seen("stage") = Want
  /\ \/ Untaken
     \/ Seen("target") = Absent /\ Seen("origin") = wall.origin

\* observesAppliedLayout
Published ==
  Seen("target") = Want /\ Seen("stage") = Absent /\ Seen("origin") = wall.origin

\* observesAppliedRestoreLayout
InForce ==
  Seen("target") = Want /\ Seen("origin") = wall.origin /\ Seen("managed") = Absent

\* observesOriginPublicationLayout
OriginPending ==
  /\ wall.origin # Absent /\ Seen("target") = Absent
  /\ Seen("origin") = wall.origin /\ Seen("managed") = Want

\* observesManagedCleanupLayout
ManagedLeft ==
  /\ wall.origin # Absent /\ Seen("target") = wall.origin
  /\ Seen("origin") = Absent /\ Seen("managed") = Want

\* Mutant: a layout counts as restored while the managed object is still there.
RestoredTarget == Seen("target") = wall.origin /\ Seen("origin") = Absent

\* observesRestoredLayout
Restored ==
  Seen("target") = wall.origin /\ Seen("origin") = Absent /\ Seen("managed") = Absent

\* classifyWallStageCreation, and what driveStage makes of the armed name.
StageResumable ==
  \/ wall.phase = "staging" /\ Seen("stage") = Absent
  \/ /\ wall.phase = "bound" /\ Seen("stage") = Absent
     /\ Seen("armed") \in {Absent, Want}
  \/ /\ wall.phase = "bound" /\ Seen("stage") = Want
     /\ Seen("armed") = Want \/ (Seen("armed") = Absent /\ Untaken)

\* classifyWallApply
ApplyResumable ==
  \/ wall.phase = "origin" \/ StageResumable
  \/ wall.phase = "applying" /\ (Prepared \/ Published)
  \/ wall.phase = "applied" /\ Published

\* classifyWallRestore
RestoreResumable ==
  \/ wall.phase = "applied" /\ InForce
  \/ wall.phase = "restoring" /\ (InForce \/ OriginPending \/ ManagedLeft \/ Restored)
  \/ wall.phase \in {"restored", "released"} /\ Restored

---------------------------------------------------------------------------
Init ==
  /\ \E b \in Bytes : content = [i \in Ident |-> [by |-> User, from |-> b]]
  /\ \E t \in Ident \cup {Absent} :
       /\ names = [n \in Name |-> IF n = "target" THEN t ELSE Absent]
       /\ mine = {t} \ {Absent}
  /\ wall = NoWall /\ call = NoCall /\ plan = <<>> /\ obj = Absent
  /\ touched = FALSE /\ crashes = 0 /\ touches = 0

Stop == call' = NoCall /\ plan' = <<>> /\ obj' = Absent
Advance == plan' = Tail(plan) /\ UNCHANGED <<call, obj>>
Intend(steps, i) == plan' = steps /\ obj' = i /\ UNCHANGED call

\* storeReceipt: the record read back under the same entry is replaced.
Record(phase) ==
  /\ wall' = [wall EXCEPT !.phase = phase]
  /\ UNCHANGED <<disk, ghosts, bounds>>
\* What the driver decides it decides in view of every file that is there.
Decide(steps, i) ==
  /\ Intend(steps, i)
  /\ mine' = mine \cup UserFiles
  /\ UNCHANGED <<disk, wall, touched, bounds>>

\* precheckActiveRequest and validateReservationAgainstRecord
Admitted(r) == wall.phase = "none" \/ wall.owner = r

\* applyGlobalWall.  A refused call changes nothing and is no step.
StartApply(r) ==
  /\ At = "idle" /\ Admitted(r) /\ wall.phase \notin Teardown
  /\ call' = [op |-> "apply", by |-> r]
  /\ plan' = IF wall.phase = "none"
             THEN <<Do("fence", "target", "target"), Do("claim", "target", "target")>>
             ELSE <<>>
  /\ UNCHANGED <<disk, wall, obj, ghosts, bounds>>

\* restoreGlobalWall
StartRestore(r) ==
  /\ At = "idle" /\ Admitted(r) /\ wall.phase \in Teardown \cup {"applied"}
  /\ call' = [op |-> "restore", by |-> r]
  /\ UNCHANGED <<disk, wall, plan, obj, ghosts, bounds>>

\* allocateFence.  The names beside the target embed the fence, so a new fence
\* means names nobody has used.
AllocateFence ==
  /\ At = "fence"
  /\ names' = [n \in Name |-> IF n = "target" THEN names[n] ELSE Absent]
  /\ Advance
  /\ UNCHANGED <<content, wall, ghosts, bounds>>

\* prepareFreshReceipt: the origin is in the first record stored.
Claim ==
  /\ At = "claim"
  /\ IF Base(Seen("target")) \in Unmergeable
     THEN Stop /\ UNCHANGED <<wall, touched>>
     ELSE /\ wall' = [phase |-> "origin", owner |-> call.by,
                      origin |-> Seen("target"), bound |-> Absent]
          /\ touched' = FALSE
          /\ Advance
  /\ UNCHANGED <<disk, mine, bounds>>

---------------------------------------------------------------------------
(* driveApply                                                               *)

BeginStage ==
  Looking("apply") /\ wall.phase = "origin" /\ Record("staging") /\ UNCHANGED driver

\* recoverMissingBound and createBindAndLink
StageMissing ==
  /\ Looking("apply") /\ StageResumable
  /\ Seen("stage") = Absent /\ Seen("armed") = Absent
  /\ Decide(CreateStage, Absent)

\* Mutant: what an interrupted create left is bound and linked.
ArmedLeftoverAdopted ==
  /\ Looking("apply") /\ wall.phase = "staging"
  /\ Seen("stage") = Absent /\ Seen("armed") # Absent
  /\ Decide(Tail(CreateStage), names["armed"])

\* recoverDurablyBoundArmed: an object whose identity was never journalled is
\* removed, whatever it holds; a journalled one gets its durable name.
ArmedLeftover ==
  /\ Looking("apply") /\ wall.phase = "staging"
  /\ Seen("stage") = Absent /\ Seen("armed") # Absent
  /\ Decide(Delete("armed"), names["armed"])

ArmedBound ==
  /\ Looking("apply") /\ wall.phase = "bound"
  /\ Seen("stage") = Absent /\ Seen("armed") = Want
  /\ Decide(<<Do("link", "armed", "stage")>> \o Delete("armed"), wall.bound)

\* recoverObservedBound
WithdrawArmed ==
  /\ Looking("apply") /\ wall.phase = "bound"
  /\ Seen("stage") = Want /\ Seen("armed") = Want
  /\ Decide(Delete("armed"), wall.bound)

BeginApply ==
  /\ Looking("apply") /\ wall.phase = "bound"
  /\ Seen("stage") = Want /\ Seen("armed") = Absent /\ Untaken
  /\ Record("applying") /\ UNCHANGED driver

\* driveApplying
RetainOrigin ==
  /\ Looking("apply") /\ wall.phase = "applying"
  /\ Prepared /\ wall.origin # Absent /\ Seen("target") = wall.origin
  /\ Decide(Move("target", "origin"), wall.origin.id)

PublishStage ==
  /\ Looking("apply") /\ wall.phase = "applying"
  /\ Prepared /\ Seen("target") = Absent
  /\ Decide(Move("stage", "target"), wall.bound)

SettleApply ==
  /\ Looking("apply") /\ wall.phase \in {"applying", "applied"} /\ Published
  /\ Record("applied") /\ Stop

---------------------------------------------------------------------------
(* driveRestore                                                             *)

BeginRestore ==
  /\ Looking("restore") /\ wall.phase = "applied" /\ InForce
  /\ Record("restoring") /\ UNCHANGED driver

DeleteManaged ==
  /\ Looking("restore") /\ wall.phase = "restoring"
  /\ InForce /\ wall.origin = Absent
  /\ Decide(Delete("target"), wall.bound)

\* Mutant: the managed target is deleted while the origin is still away.
DropManaged ==
  /\ Looking("restore") /\ wall.phase = "restoring"
  /\ InForce /\ wall.origin # Absent
  /\ Decide(Delete("target"), wall.bound)

RetireManaged ==
  /\ Looking("restore") /\ wall.phase = "restoring"
  /\ InForce /\ wall.origin # Absent
  /\ Decide(Move("target", "managed"), wall.bound)

PublishOrigin ==
  /\ Looking("restore") /\ wall.phase = "restoring" /\ OriginPending
  /\ Decide(Move("origin", "target"), wall.origin.id)

CleanManaged ==
  /\ Looking("restore") /\ wall.phase = "restoring" /\ ManagedLeft
  /\ Decide(Delete("managed"), wall.bound)

SettleRestore ==
  /\ Looking("restore") /\ wall.phase = "restoring" /\ Restored
  /\ Record("restored") /\ UNCHANGED driver

\* releaseWall, then clearReleased
Release ==
  /\ Looking("restore") /\ wall.phase = "restored" /\ Restored
  /\ Record("released")
  /\ Intend(<<Do("clear", "target", "target")>>, Absent)

\* verifyWallReleased
VerifyReleased ==
  /\ Looking("restore") /\ wall.phase = "released" /\ Restored
  /\ Decide(<<Do("clear", "target", "target")>>, Absent)

\* Any other layout is a conflict: the call ends and nothing changes.
Refuse ==
  /\ \/ Looking("apply") /\ ~ApplyResumable
     \/ Looking("restore") /\ ~RestoreResumable
  /\ Stop /\ UNCHANGED <<disk, wall, ghosts, bounds>>

---------------------------------------------------------------------------
(* The primitive steps.                                                     *)

Src == plan[1].src
Dst == plan[1].dst

\* Mutant: the identity is not observed again before the act.
Trust == At = "confirm" /\ Advance /\ UNCHANGED <<disk, wall, ghosts, bounds>>

\* withConfirmedIdentity
Confirm ==
  /\ At = "confirm"
  /\ IF names[Src] = obj THEN Advance ELSE Stop
  /\ UNCHANGED <<disk, wall, ghosts, bounds>>

\* rowLinkNoReplace: whatever has the source name now gets the other.
Link ==
  /\ At = "link"
  /\ IF names[Src] # Absent /\ names[Dst] = Absent
     THEN Advance /\ names' = [names EXCEPT ![Dst] = names[Src]]
     ELSE Stop /\ UNCHANGED names
  /\ UNCHANGED <<content, wall, ghosts, bounds>>

\* rowRemoveObject: whatever has the name now loses it.
Remove ==
  /\ At \in {"remove", "withdraw"}
  /\ IF names[Src] # Absent
     THEN Advance /\ names' = [names EXCEPT ![Src] = Absent]
     ELSE Stop /\ UNCHANGED names
  /\ UNCHANGED <<content, wall, ghosts, bounds>>

\* createArmedStage
Create ==
  /\ At = "create"
  /\ \E i \in Free :
       /\ names' = [names EXCEPT ![Src] = i]
       /\ content' = [content EXCEPT ![i] = Desired]
       /\ obj' = i
  /\ plan' = Tail(plan)
  /\ UNCHANGED <<call, wall, ghosts, bounds>>

\* bindWallStage and validateApplyTarget
Bind ==
  /\ At = "bind"
  /\ IF wall.origin # Absent /\ wall.origin.id = obj
     THEN Stop /\ UNCHANGED wall
     ELSE Advance /\ wall' = [wall EXCEPT !.phase = "bound", !.bound = obj]
  /\ UNCHANGED <<disk, ghosts, bounds>>

\* deleteActiveIfEqual
Clear ==
  /\ At = "clear"
  /\ wall' = NoWall /\ Stop
  /\ UNCHANGED <<disk, ghosts, bounds>>

---------------------------------------------------------------------------
\* The process dies, between any two steps; a create may be torn.  A primitive or a store write that
\* fails, or lands and is reported failed, ends the call the same way.
Crash ==
  /\ At # "idle" /\ crashes < MaxCrash
  /\ crashes' = crashes + 1
  /\ Stop
  /\ \/ UNCHANGED disk
     \/ /\ At = "create"
        /\ \E i \in Free :
             /\ names' = [names EXCEPT ![Src] = i]
             /\ content' = [content EXCEPT ![i] = [by |-> Torn, from |-> Empty]]
  /\ UNCHANGED <<wall, ghosts, touches>>

UserStep ==
  /\ touches < MaxTouch /\ touches' = touches + 1 /\ touched' = TRUE
  /\ UNCHANGED <<wall, driver, crashes>>

\* What the driver has no way to notice on the name it is about to take: an act
\* after it confirmed the identity there, and before that new bytes in the very
\* object it looked at, or another under the same identity.
Unnoticed(i) ==
  /\ plan # <<>> /\ Src = "target"
  /\ At \in {"remove", "withdraw"} \/ (At = "confirm" /\ i = obj)

\* The user saves a new file over the target, or where there was none.
UserReplaces ==
  /\ UserStep
  /\ \E i \in Free, b \in Bytes :
       /\ names' = [names EXCEPT !["target"] = i]
       /\ content' = [content EXCEPT ![i] = [by |-> User, from |-> b]]
       /\ mine' = (mine \ {names["target"]}) \cup (IF Unnoticed(i) THEN {} ELSE {i})

\* The user edits the target in place.
UserEdits ==
  /\ UserStep /\ names["target"] # Absent
  /\ \E b \in Bytes :
       content' = [content EXCEPT ![names["target"]] = [by |-> User, from |-> b]]
  /\ mine' = mine \cup (IF Unnoticed(names["target"]) THEN {} ELSE {names["target"]})
  /\ UNCHANGED names

UserDeletes ==
  /\ UserStep /\ names["target"] # Absent
  /\ names' = [names EXCEPT !["target"] = Absent]
  /\ mine' = mine \ {names["target"]}
  /\ UNCHANGED content

Drive ==
  \/ BeginStage \/ StageMissing \/ ArmedLeftover \/ ArmedBound \/ WithdrawArmed
  \/ BeginApply \/ RetainOrigin \/ PublishStage \/ SettleApply
  \/ BeginRestore \/ DeleteManaged \/ RetireManaged \/ PublishOrigin
  \/ CleanManaged \/ SettleRestore \/ Release \/ VerifyReleased \/ Refuse

Primitive ==
  AllocateFence \/ Claim \/ Confirm \/ Link \/ Remove \/ Create \/ Bind \/ Clear

Next ==
  \/ \E r \in Request : StartApply(r) \/ StartRestore(r)
  \/ Drive \/ Primitive \/ Crash
  \/ UserReplaces \/ UserEdits \/ UserDeletes

Spec == Init /\ [][Next]_vars

\* A call takes its next step, since it holds the entry alone; a wall left in
\* the middle is asked for again, as every bring-up and tear-down does.
Fairness ==
  /\ WF_vars(Drive \/ Primitive)
  /\ \A r \in Request : WF_vars(StartApply(r)) /\ WF_vars(StartRestore(r))

FairSpec == Spec /\ Fairness

---------------------------------------------------------------------------
Step == [do : {"fence", "claim", "confirm", "link", "remove", "withdraw",
               "create", "bind", "clear"}, src : Name, dst : Name]

TypeOK ==
  /\ names \in [Name -> Ident \cup {Absent}]
  /\ content \in [Ident -> Content]
  /\ wall \in [phase : Phase, owner : Request \cup {Absent},
               origin : Object \cup {Absent}, bound : Ident \cup {Absent}]
  /\ call \in [op : {"none", "apply", "restore"}, by : Request \cup {Absent}]
  /\ plan \in Seq(Step) /\ obj \in Ident \cup {Absent}
  /\ mine \subseteq Ident /\ touched \in BOOLEAN
  /\ crashes \in 0 .. MaxCrash /\ touches \in 0 .. MaxTouch

\* No file of the user's that was there at a look of the driver, or that the user
\* made or edited since, disappears by the driver's hand: it keeps a name, the
\* target or the one the journal retains it under.  Left out is exactly what
\* comparing identities cannot tell (Unnoticed); see ReplacementsAreLeft for that.
UserFilesSurvive == \A i \in mine : \E n \in Name : names[n] = i

\* What wsl2.md says of a release: a foreign replacement of the managed file is left
\* intact, at whatever moment the user makes it.
ReplacementsAreLeft ==
  [][wall.phase \in Teardown /\ touches' = touches =>
       UserFiles \ {wall.bound} \subseteq UserFiles']_vars

\* What an interrupted create left is never vouched for: the journal does not
\* bind it, and neither the durable stage name nor the target ever holds it.
TornIsNeverAdopted ==
  \A i \in Ident :
    content[i].by = Torn =>
      names["target"] # i /\ names["stage"] # i /\ wall.bound # i

\* A wall the journal calls restored has put back the very file it took, unless
\* the user changed it, and leaves nothing of its own beside it.
ReleaseIsClean ==
  wall.phase \in {"restored", "released", "none"} =>
    /\ \A n \in Name \ {"target"} : names[n] = Absent
    /\ wall.phase = "none" \/ touched \/ Seen("target") = wall.origin

\* Whoever's wall is active, nobody else acts on it or changes its owner.
WallIsItsOwners ==
  [][/\ wall.phase # "none" /\ wall'.phase # "none" => wall'.owner = wall.owner
     /\ wall # wall' /\ wall.phase # "none" => call.by = wall.owner]_vars

\* The layouts of a wall whose managed object or whose origin has two of the
\* names: what is left between a link and the withdrawal of the old name, in the
\* two moves of an apply and the two of a restore.  No classification knows them.
Retaining ==
  wall.origin # Absent /\ Seen("stage") = Want
    /\ Seen("target") = wall.origin /\ Seen("origin") = wall.origin
Staging == Seen("stage") = Want /\ Seen("target") = Want /\ Seen("origin") = wall.origin
Retiring ==
  wall.origin # Absent /\ Seen("target") = Want
    /\ Seen("origin") = wall.origin /\ Seen("managed") = Want
Returning ==
  wall.origin # Absent /\ Seen("target") = wall.origin
    /\ Seen("origin") = wall.origin /\ Seen("managed") = Want
HalfMoved ==
  \/ wall.phase = "applying" /\ (Retaining \/ Staging)
  \/ wall.phase = "restoring" /\ (Retiring \/ Returning)

\* Wherever a process died, the next call of the same owner knows what to do, as
\* long as the user left the target alone and the process did not die half way
\* through a move: there the next call, and every later one, is refused.
CrashesAreRecovered ==
  touched \/ wall.phase = "none" \/ ApplyResumable \/ RestoreResumable \/ At # "idle"
    \/ HalfMoved

\* What the tests say of a publication, that every point where it can fail is one
\* the next call classifies and carries on from.
EveryFaultIsResumable ==
  touched \/ wall.phase = "none" \/ ApplyResumable \/ RestoreResumable \/ At # "idle"

\* A wall that is being put up is in force in the end, and one that is being taken
\* down is gone, whichever call died half way, unless the user took a hand in it
\* or a process died half way through a move.
WallsSettle ==
  LET Stuck == touched \/ (HalfMoved /\ At = "idle") IN
  /\ wall.phase \in {"origin", "staging", "bound", "applying"} ~> wall.phase = "applied" \/ Stuck
  /\ wall.phase \in Teardown ~> wall.phase = "none" \/ Stuck
===========================================================================
