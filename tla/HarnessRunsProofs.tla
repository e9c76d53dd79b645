------------------------- MODULE HarnessRunsProofs -------------------------
(***************************************************************************)
(* What TLAPS proves of HarnessRuns, for any processes, runs, epochs and   *)
(* bounds, and wherever a process may die: its type invariant and every    *)
(* safety property the passing runs check.  The inductive invariant has a  *)
(* part for each thing a step relies on: the lock (Alone), the run in hand *)
(* (Working, Serving), the mode (Holding), the permits (Fencing), the      *)
(* records of a run's two objects (Recording) and the order in which they  *)
(* are settled (Settling).                                                 *)
(***************************************************************************)
EXTENDS HarnessRuns, TLAPS

-----------------------------------------------------------------------------
(* The inductive invariant.                                                *)

\* The run-liveness lock: one process at a time is at work.
Alone ==
  /\ \A p, q \in Proc : p # q => At(p, "off") \/ At(q, "off")
  /\ \A p \in Proc : At(p, "off") => me[p] = Off

Idle == {"off", "sweep", "take"}

\* The steps of a live run from its lease to its last generation.
Bound == {"bound", "config", "cfgPublish", "cfgBind", "up", "moved", "reverse",
          "reversed", "movedUp", "rearm"}
Live == {"record", "origin", "mkdir", "bindDir", "body", "binding"} \cup Bound

\* The steps of a sweep that reopens a run, and of a settlement.
Reopening == {"reopen", "retain", "readmit", "resolve", "forest", "settled"}
Settlement == {"dir", "dirForget", "dirSettle", "cfg", "cfgForget", "cfgSettle", "prove",
               "close"}

\* A process that works on a run works on one that has, or is about to have, a lease.
WorksOn(p) ==
  /\ me[p].at \notin Idle => me[p].on \in Run
  /\ me[p].at \notin Idle \cup {"record"} => lease[me[p].on] # "none"
  /\ \A r \in me[p].todo : lease[r] # "none"
  /\ me[p].at = "record" => lease[me[p].on] = "none"
  /\ me[p].at \in Bound => lease[me[p].on] = "bound"
  /\ me[p].at \in {"retain", "record"} => me[p].epoch # None
  /\ me[p].at \in {"moved", "movedUp"} => me[p].gen # None
Working == \A p \in Proc : WorksOn(p)

\* A sweep has no terminal-close control; a live run has one.
Serves(p) ==
  /\ me[p].at = "sweep" => me[p].by = "sweep"
  /\ me[p].by = "sweep" => me[p].ctl = "unbound"
  /\ me[p].at \in Live \cup WithConfig => me[p].by # "sweep"
Serving == \A p \in Proc : Serves(p)

\* Between the mode and the lease of a run, nothing else holds the project.
Holds(p) ==
  /\ At(p, "record") => mode = me[p].on
  /\ At(p, "release") => lease[me[p].on] = "closed"
Holding == OpenLeaseHoldsMode /\ \A p \in Proc : Holds(p)

\* No forward work, and nothing acquired, is left of a run.
Quiet(r) == held[r] # "acquired" /\ r \notin forward

\* Forward work starts with a bound lease; whoever closes a run has stopped it.
Fenced(r) ==
  /\ lease[r] \in {"none", "unbound"} => r \notin forward \cup busy
  /\ r \in closing => Quiet(r) /\ r \notin busy /\ lease[r] # "none"
Fences(p) ==
  /\ me[p].at \in {"reversed", "movedUp", "rearm", "settled"} => Quiet(me[p].on)
  /\ me[p].at \in {"resolve", "forest"} => me[p].on \notin forward
  /\ me[p].at \in Live => me[p].on \notin closing
  /\ me[p].at \in {"authorized", "pending", "done"} => me[p].on \in closing
  /\ me[p].at \notin Idle /\ (me[p].how = "final" \/ me[p].ctl \in {"pending", "settled"})
       => me[p].on \in closing
Fencing == (\A r \in Run : Fenced(r)) /\ \A p \in Proc : Fences(p)

\* An object of a run has a record, until the step that is about to remove that.
Recorded(r) ==
  /\ dirRec[r] = "origin" => dir[r] # "foreign"
  /\ dirRec[r] \in {"none", "found"} => dir[r] # "made"
  /\ cfgRec[r] = "none" => file.by # r
  /\ lease[r] = "none" => dirRec[r] = "none"
Records(p) ==
  /\ me[p].at = "origin" => dirRec[me[p].on] = "none"
  /\ me[p].at \in {"mkdir", "bindDir"} => dirRec[me[p].on] = "origin"
  /\ me[p].at \in {"dirForget", "dirSettle"} => dir[me[p].on] # "made"
  /\ me[p].at = "cfgPublish" => cfgRec[me[p].on] # "none"
Recording == (\A r \in Run : Recorded(r)) /\ \A p \in Proc : Records(p)

\* Past its two settlements a run has neither object; the body's own release of
\* its config comes before that.  The short sweep is for a lease that is not bound.
Settles(p) ==
  /\ me[p].at \in {"cfg", "cfgForget", "cfgSettle", "prove", "close"} /\ me[p].by # "body"
       => dirRec[me[p].on] = "none"
  /\ me[p].at \in {"cfgForget", "cfgSettle", "prove", "close"} => file.by # me[p].on
  /\ me[p].at \in {"prove", "close"} => cfgRec[me[p].on] # "managed" /\ me[p].by # "body"
  /\ me[p].at \notin Idle /\ me[p].how = "unbound"
       => me[p].at \in Reopening \cup Settlement \cup {"release"}
  /\ me[p].at \in Settlement /\ me[p].how = "unbound" => lease[me[p].on] # "bound"
Settling == \A p \in Proc : Settles(p)

HarnessInvariant ==
  TypeOK /\ Alone /\ Working /\ Serving /\ Holding /\ Fencing /\ Recording /\ Settling

-----------------------------------------------------------------------------
(* Type correctness.                                                       *)

\* What a process is doing is one of the things the code can be at, and an epoch
\* that is drawn is one that nothing names.
LEMMA TaskTypes ==
  ASSUME TypeOK, NEW p \in Proc
  PROVE  /\ me[p] \in Task /\ Off \in Task
         /\ Spare => Fresh \in Epoch \ Named /\ Fresh # None
<1>1. me[p] \in Task
  BY DEF TypeOK
<1>2. Off \in Task
  BY DEF Off, Task, Step, Control
<1>3. Spare => Fresh \in Epoch \ Named
  BY DEF Spare, Fresh
<1> QED  BY <1>1, <1>2, <1>3, NamesAssumption

\* What a step does to a task.
LEMMA TaskMoves ==
  ASSUME NEW t \in Task, NEW step \in Step
  PROVE  /\ [t EXCEPT !.at = step] \in Task
         /\ \A b \in {"sweep", "run", "body"} : [t EXCEPT !.at = step, !.by = b] \in Task
         /\ \A h \in {"unbound", "short", "final"} : [t EXCEPT !.at = step, !.how = h] \in Task
         /\ \A c \in Control : [t EXCEPT !.at = step, !.ctl = c] \in Task
         /\ \A e \in Epoch \cup {None} : /\ [t EXCEPT !.at = step, !.epoch = e] \in Task
                                           /\ [t EXCEPT !.gen = e, !.at = step] \in Task
         /\ \A r \in Run : [t EXCEPT !.on = r, !.todo = t.todo \ {r}, !.how = "unbound",
                              !.at = step] \in Task
<1> USE DEF Task
<1>1. [t EXCEPT !.at = step] \in Task
  OBVIOUS
<1>2. \A b \in {"sweep", "run", "body"} : [t EXCEPT !.at = step, !.by = b] \in Task
  OBVIOUS
<1>3. \A h \in {"unbound", "short", "final"} : [t EXCEPT !.at = step, !.how = h] \in Task
  OBVIOUS
<1>4. \A c \in Control : [t EXCEPT !.at = step, !.ctl = c] \in Task
  OBVIOUS
<1>5. \A e \in Epoch \cup {None} : /\ [t EXCEPT !.at = step, !.epoch = e] \in Task
                                     /\ [t EXCEPT !.gen = e, !.at = step] \in Task
  OBVIOUS
<1>6. \A r \in Run : [t EXCEPT !.on = r, !.todo = t.todo \ {r}, !.how = "unbound",
                        !.at = step] \in Task
  OBVIOUS
<1> QED  BY <1>1, <1>2, <1>3, <1>4, <1>5, <1>6

\* Moving on to another step, or leaving.
LEMMA GoTypes ==
  ASSUME TypeOK, NEW p \in Proc, NEW step \in Step
  PROVE  /\ Go(p, step) => me' \in [Proc -> Task]
         /\ Exit(p) => me' \in [Proc -> Task]
<1>1. me[p] \in Task /\ Off \in Task /\ me \in [Proc -> Task]
  BY TaskTypes DEF TypeOK
<1>2. [me[p] EXCEPT !.at = step] \in Task
  BY <1>1, TaskMoves
<1>3. Go(p, step) => me' = [me EXCEPT ![p] = [me[p] EXCEPT !.at = step]]
  BY DEF Go
<1> QED  BY <1>1, <1>2, <1>3 DEF Exit

\* A refusal, and the step after a run's config.
LEMMA RefuseTypes ==
  ASSUME TypeOK, NEW p \in Proc, Refuse(p) \/ AfterConfig(p)
  PROVE  me' \in [Proc -> Task]
<1>1. me[p] \in Task /\ Off \in Task
  BY TaskTypes
<1>2. me[p].by \in {"sweep", "run", "body"}
  BY <1>1 DEF Task
<1>3. /\ [me[p] EXCEPT !.at = "dir", !.by = "run"] \in Task
      /\ \A step \in {"prove", "close"} : [me[p] EXCEPT !.at = step] \in Task
  BY <1>1 DEF Task, Step
<1> QED  BY <1>1, <1>2, <1>3 DEF Refuse, AfterConfig, TypeOK

\* The initial state has the types.
LEMMA InitTypes == Init => TypeOK
<1> SUFFICES ASSUME Init PROVE TypeOK
  OBVIOUS
<1>1. Off \in Task
  BY DEF Off, Task, Step, Control
<1>2. me \in [Proc -> Task]
  BY <1>1 DEF Init
<1> QED
  BY <1>2, NamesAssumption, SetsAssumption DEF Init, TypeOK, Holder, Open, NoFile

\* Every step of a process leaves it at a step of the code.
LEMMA TasksKept ==
  ASSUME TypeOK, Working, Next
  PROVE  me' \in [Proc -> Task]
<1>1. ASSUME NEW p \in Proc, EnterRun(p) PROVE me' \in [Proc -> Task]
  BY <1>1 DEF EnterRun, TypeOK, Task, Off, Incomplete, Step, Control
<1>2. ASSUME NEW p \in Proc, NEW r \in Run, SettleOne(p, r) PROVE me' \in [Proc -> Task]
  <2>1. me[p] \in Task
    BY TaskTypes
  <2> DEFINE moved(step) ==
        [me[p] EXCEPT !.on = r, !.todo = me[p].todo \ {r}, !.how = "unbound", !.at = step]
  <2>2. moved("reopen") \in Task /\ moved("dir") \in Task
    BY <2>1, TaskMoves DEF Step
  <2>3. CASE lease[r] = "bound"
    <3>1. me' = [me EXCEPT ![p] = moved("reopen")]
      BY <1>2, <2>3 DEF SettleOne
    <3> QED  BY <2>2, <3>1 DEF TypeOK
  <2>4. CASE lease[r] # "bound"
    <3>1. me' = [me EXCEPT ![p] = moved("dir")]
      BY <1>2, <2>4 DEF SettleOne
    <3> QED  BY <2>2, <3>1 DEF TypeOK
  <2> QED  BY <2>3, <2>4
<1>3. ASSUME NEW p \in Proc, SweepDone(p) PROVE me' \in [Proc -> Task]
  BY <1>3, GoTypes DEF SweepDone, Step, BeforeConfig, WithConfig
<1>4. ASSUME NEW p \in Proc, ReopenMode(p) PROVE me' \in [Proc -> Task]
  <2>1. me[p] \in Task /\ Off \in Task
    BY TaskTypes
  <2> DEFINE renewed == [me[p] EXCEPT !.at = "retain", !.epoch = Fresh]
  <2>2. Spare => renewed \in Task
    BY <2>1, TaskTypes, TaskMoves DEF Step
  <2>3. me' = [me EXCEPT ![p] = Off] \/ (Spare /\ me' = [me EXCEPT ![p] = renewed])
    BY <1>4 DEF ReopenMode, Exit
  <2> QED  BY <2>1, <2>2, <2>3 DEF TypeOK
<1>5. ASSUME NEW p \in Proc, ReopenLease(p) PROVE me' \in [Proc -> Task]
  BY <1>5, GoTypes DEF ReopenLease, Step, BeforeConfig, WithConfig
<1>6. ASSUME NEW p \in Proc, Readmit(p) PROVE me' \in [Proc -> Task]
  BY <1>6, GoTypes DEF Readmit, Step, BeforeConfig, WithConfig
<1>7. ASSUME NEW p \in Proc, Resolve(p) PROVE me' \in [Proc -> Task]
  <2>1. me[p] \in Task /\ Off \in Task
    BY TaskTypes
  <2>2. /\ \A h \in {"final", "short"} : [me[p] EXCEPT !.at = "dir", !.how = h] \in Task
        /\ [me[p] EXCEPT !.at = "forest"] \in Task
    BY <2>1, TaskMoves DEF Step, BeforeConfig, WithConfig, Control
  <2> QED  BY <1>7, <2>1, <2>2 DEF Resolve, Exit, TypeOK
<1>8. ASSUME NEW p \in Proc, ReleaseRecovered(p) PROVE me' \in [Proc -> Task]
  BY <1>8, GoTypes DEF ReleaseRecovered, Step, BeforeConfig, WithConfig
<1>9. ASSUME NEW p \in Proc, AuthorizeRecovered(p) PROVE me' \in [Proc -> Task]
  <2>1. me[p] \in Task /\ Off \in Task
    BY TaskTypes
  <2>2. [me[p] EXCEPT !.at = "dir", !.how = "final"] \in Task
    BY <2>1, TaskMoves DEF Step, BeforeConfig, WithConfig, Control
  <2> QED  BY <1>9, <2>1, <2>2 DEF AuthorizeRecovered, Exit, TypeOK
<1>10. ASSUME NEW p \in Proc, SettleDir(p) PROVE me' \in [Proc -> Task]
  BY <1>10, RefuseTypes, GoTypes DEF SettleDir, Step
<1>11. ASSUME NEW p \in Proc, ForgetDir(p) PROVE me' \in [Proc -> Task]
  BY <1>11, GoTypes DEF ForgetDir, Step, BeforeConfig, WithConfig
<1>12. ASSUME NEW p \in Proc, SettleConfig(p) PROVE me' \in [Proc -> Task]
  BY <1>12, RefuseTypes, GoTypes DEF SettleConfig, Step
<1>13. ASSUME NEW p \in Proc, ForgetConfig(p) PROVE me' \in [Proc -> Task]
  BY <1>13, RefuseTypes, GoTypes DEF ForgetConfig, Step
<1>14. ASSUME NEW p \in Proc, Prove(p) PROVE me' \in [Proc -> Task]
  <2>1. me[p] \in Task /\ Off \in Task
    BY TaskTypes
  <2>2. \A h \in {"final", "short"} : [me[p] EXCEPT !.at = "close", !.how = h] \in Task
    BY <2>1, TaskMoves DEF Step, BeforeConfig, WithConfig, Control
  <2> QED  BY <1>14, <2>1, <2>2 DEF Prove, Exit, TypeOK
<1>15. ASSUME NEW p \in Proc, CloseLease(p) PROVE me' \in [Proc -> Task]
  BY <1>15, GoTypes DEF CloseLease, Step, BeforeConfig, WithConfig
<1>16. ASSUME NEW p \in Proc, ReleaseMode(p) PROVE me' \in [Proc -> Task]
  <2>1. me[p] \in Task /\ Off \in Task
    BY TaskTypes
  <2>2. [me[p] EXCEPT !.at = "sweep"] \in Task
    BY <2>1, TaskMoves DEF Step, BeforeConfig, WithConfig, Control
  <2> QED  BY <1>16, <2>1, <2>2 DEF ReleaseMode, Exit, TypeOK, NextLease
<1>17. ASSUME NEW p \in Proc, NEW r \in Run, TakeMode(p, r) PROVE me' \in [Proc -> Task]
  BY <1>17, TaskTypes DEF TakeMode, TypeOK, Task, Off, Step, Control
<1>18. ASSUME NEW p \in Proc, TakeRefused(p) PROVE me' \in [Proc -> Task]
  BY <1>18, GoTypes DEF TakeRefused, Step, BeforeConfig, WithConfig
<1>19. ASSUME NEW p \in Proc, RecordLease(p) PROVE me' \in [Proc -> Task]
  BY <1>19, GoTypes DEF RecordLease, Step, BeforeConfig, WithConfig
<1>20. ASSUME NEW p \in Proc, PublishDirOrigin(p) PROVE me' \in [Proc -> Task]
  BY <1>20, GoTypes DEF PublishDirOrigin, Step, BeforeConfig, WithConfig
<1>21. ASSUME NEW p \in Proc, MakeDir(p) PROVE me' \in [Proc -> Task]
  BY <1>21, GoTypes DEF MakeDir, Step, BeforeConfig, WithConfig
<1>22. ASSUME NEW p \in Proc, BindDir(p) PROVE me' \in [Proc -> Task]
  BY <1>22, GoTypes DEF BindDir, Step, BeforeConfig, WithConfig
<1>23. ASSUME NEW p \in Proc, DataRootRefused(p) PROVE me' \in [Proc -> Task]
  BY <1>23, GoTypes DEF DataRootRefused, Step, BeforeConfig, WithConfig
<1>24. ASSUME NEW p \in Proc, BeginBinding(p) PROVE me' \in [Proc -> Task]
  <2>1. me[p] \in Task /\ Off \in Task
    BY TaskTypes
  <2>2. [me[p] EXCEPT !.at = "binding", !.ctl = "binding"] \in Task
    BY <2>1, TaskMoves DEF Step, BeforeConfig, WithConfig, Control
  <2> QED  BY <1>24, <2>1, <2>2 DEF BeginBinding, Exit, TypeOK
<1>25. ASSUME NEW p \in Proc, BindLease(p) PROVE me' \in [Proc -> Task]
  BY <1>25, GoTypes DEF BindLease, Step, BeforeConfig, WithConfig
<1>26. ASSUME NEW p \in Proc, ArmBoundClose(p) PROVE me' \in [Proc -> Task]
  <2>1. me[p] \in Task /\ Off \in Task
    BY TaskTypes
  <2>2. [me[p] EXCEPT !.at = "config", !.ctl = "fallback"] \in Task
    BY <2>1, TaskMoves DEF Step, BeforeConfig, WithConfig, Control
  <2> QED  BY <1>26, <2>1, <2>2 DEF ArmBoundClose, Exit, TypeOK
<1>27. ASSUME NEW p \in Proc, PublishConfigOrigin(p) PROVE me' \in [Proc -> Task]
  BY <1>27, GoTypes DEF PublishConfigOrigin, Step, BeforeConfig, WithConfig
<1>28. ASSUME NEW p \in Proc, PublishConfig(p) PROVE me' \in [Proc -> Task]
  BY <1>28, GoTypes DEF PublishConfig, Step, BeforeConfig, WithConfig
<1>29. ASSUME NEW p \in Proc, BindConfig(p) PROVE me' \in [Proc -> Task]
  BY <1>29, GoTypes DEF BindConfig, Step, BeforeConfig, WithConfig
<1>30. ASSUME NEW p \in Proc, MoveMode(p) PROVE me' \in [Proc -> Task]
  <2>1. me[p] \in Task /\ Off \in Task
    BY TaskTypes
  <2>2. \A e \in Epoch, step \in {"moved", "movedUp"} :
          [me[p] EXCEPT !.gen = e, !.at = step] \in Task
    BY <2>1, TaskMoves DEF Step, BeforeConfig, WithConfig, Control
  <2> QED  BY <1>30, <2>1, <2>2, TaskTypes DEF MoveMode, Exit, TypeOK
<1>31. ASSUME NEW p \in Proc, MoveLease(p) PROVE me' \in [Proc -> Task]
  BY <1>31, GoTypes DEF MoveLease, Step, BeforeConfig, WithConfig
<1>32. ASSUME NEW p \in Proc, Reverse(p) PROVE me' \in [Proc -> Task]
  BY <1>32, GoTypes DEF Reverse, Step, BeforeConfig, WithConfig
<1>33. ASSUME NEW p \in Proc, Rearm(p) PROVE me' \in [Proc -> Task]
  <2>1. me[p] \in Task /\ me[p].gen \in Epoch \cup {None}
    BY TaskTypes DEF Task
  <2>2. [me[p] EXCEPT !.at = "up", !.epoch = me[p].gen] \in Task
    BY <2>1, TaskMoves DEF Step, WithConfig
  <2> QED  BY <1>33, <2>2 DEF Rearm, TypeOK
<1>34. ASSUME NEW p \in Proc, AuthorizeClose(p) PROVE me' \in [Proc -> Task]
  BY <1>34, GoTypes DEF AuthorizeClose, Step, BeforeConfig, WithConfig
<1>35. ASSUME NEW p \in Proc, MarkPending(p) PROVE me' \in [Proc -> Task]
  <2>1. me[p] \in Task /\ Off \in Task
    BY TaskTypes
  <2>2. [me[p] EXCEPT !.at = "pending", !.ctl = "pending"] \in Task
    BY <2>1, TaskMoves DEF Step, BeforeConfig, WithConfig, Control
  <2> QED  BY <1>35, <2>1, <2>2 DEF MarkPending, Exit, TypeOK
<1>36. ASSUME NEW p \in Proc, SettleClose(p) PROVE me' \in [Proc -> Task]
  <2>1. me[p] \in Task /\ Off \in Task
    BY TaskTypes
  <2>2. [me[p] EXCEPT !.at = "done", !.ctl = "settled"] \in Task
    BY <2>1, TaskMoves DEF Step, BeforeConfig, WithConfig, Control
  <2> QED  BY <1>36, <2>1, <2>2 DEF SettleClose, Exit, TypeOK
<1>37. ASSUME NEW p \in Proc, EndBody(p) PROVE me' \in [Proc -> Task]
  <2>1. me[p] \in Task /\ Off \in Task
    BY TaskTypes
  <2>2. /\ [me[p] EXCEPT !.at = "cfg", !.by = "body"] \in Task
        /\ [me[p] EXCEPT !.at = "dir"] \in Task
    BY <2>1, TaskMoves DEF Step, BeforeConfig, WithConfig, Control
  <2> QED  BY <1>37, <2>1, <2>2 DEF EndBody, Exit, TypeOK
<1>38. ASSUME NEW p \in Proc, Crash(p) PROVE me' \in [Proc -> Task]
  BY <1>38, GoTypes DEF Crash, Step, BeforeConfig, WithConfig
<1>39. ASSUME NEW r \in Run, Acquire(r) \/ EndSession(r) PROVE me' \in [Proc -> Task]
  BY <1>39 DEF Acquire, EndSession, TypeOK
<1>40. ASSUME ProductionTakes \/ ProductionCloses \/ OperatorActs PROVE me' \in [Proc -> Task]
  BY <1>40 DEF ProductionTakes, ProductionCloses, OperatorActs, TypeOK
<1> QED
  BY <1>1, <1>2, <1>3, <1>4, <1>5, <1>6, <1>7, <1>8, <1>9, <1>10, <1>11, <1>12,
     <1>13, <1>14, <1>15, <1>16, <1>17, <1>18, <1>19, <1>20, <1>21, <1>22, <1>23, <1>24,
     <1>25, <1>26, <1>27, <1>28, <1>29, <1>30, <1>31, <1>32, <1>33, <1>34, <1>35, <1>36,
     <1>37, <1>38, <1>39, <1>40
  DEF Next, Sweep, Settle, Start, Body

\* Every step keeps the records to what the code can write.
LEMMA TypesKept ==
  ASSUME TypeOK, Working, Next
  PROVE  TypeOK'
<1>1. me' \in [Proc -> Task]
  BY TasksKept
<1>2. ASSUME UNCHANGED <<hold, leases, closing, resources, roots, config, bounds>> PROVE TypeOK'
  BY <1>1, <1>2 DEF TypeOK, hold, leases, resources, roots, config, bounds
<1>3. ASSUME NEW p \in Proc,
            EnterRun(p) \/ SweepDone(p) \/ Resolve(p) \/ Prove(p) \/ TakeRefused(p)
            \/ DataRootRefused(p) \/ BeginBinding(p) \/ ArmBoundClose(p) \/ MarkPending(p)
            \/ SettleClose(p) \/ EndBody(p)
     PROVE  TypeOK'
  BY <1>2, <1>3
  DEF EnterRun, SweepDone, Resolve, Prove, TakeRefused, DataRootRefused, BeginBinding,
      ArmBoundClose, MarkPending, SettleClose, EndBody
<1>4. ASSUME NEW p \in Proc, NEW r \in Run, SettleOne(p, r) PROVE TypeOK'
  BY <1>2, <1>4 DEF SettleOne
<1>5. ASSUME NEW p \in Proc, ReopenMode(p) PROVE TypeOK'
  BY <1>1, <1>5, TaskTypes
  DEF ReopenMode, TypeOK, hold, leases, resources, roots, config, bounds
<1>6. ASSUME NEW p \in Proc, ReopenLease(p) PROVE TypeOK'
  <2>1. me[p].on \in Run
    BY <1>6 DEF Working, WorksOn, Idle, Bound, At, ReopenLease
  <2>2. me[p].epoch \in Epoch /\ lease[me[p].on] # "none"
    BY <1>6, TaskTypes DEF Task, Working, WorksOn, Idle, At, ReopenLease
  <2> QED
    BY <1>1, <1>6, <2>1, <2>2, NamesAssumption
    DEF ReopenLease, TypeOK, hold, leases, resources, roots, config, bounds
<1>7. ASSUME NEW p \in Proc, Readmit(p) PROVE TypeOK'
  <2>1. me[p].on \in Run
    BY <1>7 DEF Working, WorksOn, Idle, At, Readmit
  <2> QED
    BY <1>1, <1>7, <2>1 DEF Readmit, TypeOK, hold, leases, resources, roots, config, bounds
<1>8. ASSUME NEW p \in Proc, ReleaseRecovered(p) PROVE TypeOK'
  <2>1. me[p].on \in Run
    BY <1>8 DEF Working, WorksOn, Idle, At, ReleaseRecovered
  <2>2. held' = held \/ held' = [held EXCEPT ![me[p].on] = "released"]
    BY <1>8 DEF ReleaseRecovered
  <2>3. UNCHANGED <<hold, leases, closing, busy, forward, roots, config, bounds>>
    BY <1>8 DEF ReleaseRecovered
  <2> QED
    BY <1>1, <2>1, <2>2, <2>3 DEF TypeOK, hold, leases, resources, roots, config, bounds
<1>9. ASSUME NEW p \in Proc, AuthorizeRecovered(p) PROVE TypeOK'
  <2>1. me[p].on \in Run
    BY <1>9 DEF Working, WorksOn, Idle, At, AuthorizeRecovered
  <2> QED
    BY <1>1, <1>9, <2>1
    DEF AuthorizeRecovered, TypeOK, hold, leases, resources, roots, config, bounds
<1>10. ASSUME NEW p \in Proc, SettleDir(p) PROVE TypeOK'
  BY <1>1, <1>10
  DEF SettleDir, TypeOK, Working, WorksOn, Idle, At, hold, leases, resources, roots, config, bounds
<1>11. ASSUME NEW p \in Proc, ForgetDir(p) PROVE TypeOK'
  <2>1. me[p].on \in Run
    BY <1>11 DEF Working, WorksOn, Idle, At, ForgetDir
  <2> QED
    BY <1>1, <1>11, <2>1
    DEF ForgetDir, TypeOK, hold, leases, resources, roots, config, bounds
<1>12. ASSUME NEW p \in Proc, SettleConfig(p) PROVE TypeOK'
  BY <1>1, <1>12
  DEF SettleConfig, TypeOK, Working, WorksOn, Idle, At, NoFile, hold, leases, resources, roots,
      config, bounds
<1>13. ASSUME NEW p \in Proc, ForgetConfig(p) PROVE TypeOK'
  <2>1. me[p].on \in Run
    BY <1>13 DEF Working, WorksOn, Idle, At, ForgetConfig
  <2> QED
    BY <1>1, <1>13, <2>1
    DEF ForgetConfig, TypeOK, hold, leases, resources, roots, config, bounds
<1>14. ASSUME NEW p \in Proc, CloseLease(p) PROVE TypeOK'
  <2>1. me[p].on \in Run
    BY <1>14 DEF Working, WorksOn, Idle, At, CloseLease
  <2>2. lease[me[p].on] # "none"
    BY <1>14 DEF Working, WorksOn, Idle, At, CloseLease
  <2> QED
    BY <1>1, <1>14, <2>1, <2>2
    DEF CloseLease, TypeOK, Holder, Open, hold, leases, resources, roots, config, bounds
<1>15. ASSUME NEW p \in Proc, ReleaseMode(p) PROVE TypeOK'
  BY <1>1, <1>15
  DEF ReleaseMode, TypeOK, Holder, hold, leases, resources, roots, config, bounds
<1>16. ASSUME NEW p \in Proc, NEW r \in Run, TakeMode(p, r) PROVE TypeOK'
  BY <1>1, <1>16, TaskTypes
  DEF TakeMode, TypeOK, Holder, Untaken, hold, leases, resources, roots, config, bounds
<1>17. ASSUME NEW p \in Proc, RecordLease(p) PROVE TypeOK'
  <2>1. me[p].on \in Run
    BY <1>17 DEF Working, WorksOn, Idle, At, RecordLease
  <2>2. me[p].epoch \in Epoch
    BY <1>17, TaskTypes DEF Task, Working, WorksOn, Idle, At, RecordLease
  <2> QED
    BY <1>1, <1>17, <2>1, <2>2, NamesAssumption
    DEF RecordLease, TypeOK, Holder, Open, hold, leases, resources, roots, config, bounds
<1>18. ASSUME NEW p \in Proc, PublishDirOrigin(p) PROVE TypeOK'
  <2>1. me[p].on \in Run
    BY <1>18 DEF Working, WorksOn, Idle, At, PublishDirOrigin
  <2> QED
    BY <1>1, <1>18, <2>1
    DEF PublishDirOrigin, TypeOK, hold, leases, resources, roots, config, bounds
<1>19. ASSUME NEW p \in Proc, MakeDir(p) PROVE TypeOK'
  <2>1. me[p].on \in Run
    BY <1>19 DEF Working, WorksOn, Idle, At, MakeDir
  <2> QED
    BY <1>1, <1>19, <2>1 DEF MakeDir, TypeOK, hold, leases, resources, roots, config, bounds
<1>20. ASSUME NEW p \in Proc, BindDir(p) PROVE TypeOK'
  <2>1. me[p].on \in Run
    BY <1>20 DEF Working, WorksOn, Idle, At, BindDir
  <2> QED
    BY <1>1, <1>20, <2>1 DEF BindDir, TypeOK, hold, leases, resources, roots, config, bounds
<1>21. ASSUME NEW p \in Proc, BindLease(p) PROVE TypeOK'
  <2>1. me[p].on \in Run
    BY <1>21 DEF Working, WorksOn, Idle, At, BindLease
  <2> QED
    BY <1>1, <1>21, <2>1
    DEF BindLease, TypeOK, Holder, Open, hold, leases, resources, roots, config, bounds
<1>22. ASSUME NEW p \in Proc, PublishConfigOrigin(p) PROVE TypeOK'
  <2>1. me[p].on \in Run
    BY <1>22 DEF Working, WorksOn, Idle, At, PublishConfigOrigin
  <2> QED
    BY <1>1, <1>22, <2>1
    DEF PublishConfigOrigin, TypeOK, hold, leases, resources, roots, config, bounds
<1>23. ASSUME NEW p \in Proc, PublishConfig(p) PROVE TypeOK'
  <2>1. me[p].on \in Run
    BY <1>23 DEF Working, WorksOn, Idle, At, PublishConfig
  <2> QED
    BY <1>1, <1>23, <2>1
    DEF PublishConfig, TypeOK, NoFile, hold, leases, resources, roots, config, bounds
<1>24. ASSUME NEW p \in Proc, BindConfig(p) PROVE TypeOK'
  <2>1. me[p].on \in Run
    BY <1>24 DEF Working, WorksOn, Idle, Bound, At, BindConfig
  <2> QED
    BY <1>1, <1>24, <2>1
    DEF BindConfig, TypeOK, hold, leases, resources, roots, config, bounds
<1>25. ASSUME NEW p \in Proc, MoveMode(p) PROVE TypeOK'
  BY <1>1, <1>25, TaskTypes
  DEF MoveMode, TypeOK, hold, leases, resources, roots, config, bounds
<1>26. ASSUME NEW p \in Proc, MoveLease(p) PROVE TypeOK'
  <2>1. me[p].on \in Run
    BY <1>26 DEF Working, WorksOn, Idle, Bound, At, MoveLease
  <2>2. me[p].gen \in Epoch /\ lease[me[p].on] # "none"
    BY <1>26, TaskTypes DEF Task, Working, WorksOn, Idle, At, MoveLease
  <2> QED
    BY <1>1, <1>26, <2>1, <2>2, NamesAssumption
    DEF MoveLease, TypeOK, hold, leases, resources, roots, config, bounds
<1>27. ASSUME NEW p \in Proc, Reverse(p) PROVE TypeOK'
  <2>1. me[p].on \in Run
    BY <1>27 DEF Working, WorksOn, Idle, At, Reverse
  <2> QED
    BY <1>1, <1>27, <2>1 DEF Reverse, TypeOK, hold, leases, resources, roots, config, bounds
<1>28. ASSUME NEW p \in Proc, Rearm(p) PROVE TypeOK'
  <2>1. me[p].on \in Run
    BY <1>28 DEF Working, WorksOn, Idle, At, Rearm
  <2> QED
    BY <1>1, <1>28, <2>1 DEF Rearm, TypeOK, hold, leases, resources, roots, config, bounds
<1>29. ASSUME NEW p \in Proc, AuthorizeClose(p) PROVE TypeOK'
  <2>1. me[p].on \in Run
    BY <1>29 DEF Working, WorksOn, Idle, At, AuthorizeClose
  <2> QED
    BY <1>1, <1>29, <2>1
    DEF AuthorizeClose, TypeOK, hold, leases, resources, roots, config, bounds
<1>30. ASSUME NEW p \in Proc, Crash(p) PROVE TypeOK'
  BY <1>1, <1>30, SetsAssumption
  DEF Crash, TypeOK, hold, leases, resources, roots, config, bounds
<1>31. ASSUME NEW r \in Run, Acquire(r) \/ EndSession(r) PROVE TypeOK'
  BY <1>1, <1>31
  DEF Acquire, EndSession, TypeOK, hold, leases, resources, roots, config, bounds
<1>32. ASSUME ProductionTakes \/ ProductionCloses PROVE TypeOK'
  BY <1>1, <1>32, NamesAssumption
  DEF ProductionTakes, ProductionCloses, TypeOK, Holder, Open, hold, leases, resources,
      roots, config, bounds
<1>33. ASSUME OperatorActs PROVE TypeOK'
  BY <1>1, <1>33, SetsAssumption
  DEF OperatorActs, TypeOK, NoFile, hold, leases, resources, roots, config, bounds
<1> QED
  BY <1>1, <1>2, <1>3, <1>4, <1>5, <1>6, <1>7, <1>8, <1>9, <1>10, <1>11, <1>12, <1>13,
     <1>14, <1>15, <1>16, <1>17, <1>18, <1>19, <1>20, <1>21, <1>22, <1>23, <1>24, <1>25,
     <1>26, <1>27, <1>28, <1>29, <1>30, <1>31, <1>32, <1>33
  DEF Next, Sweep, Settle, Start, Body

-----------------------------------------------------------------------------
(* One process at a time.                                                  *)

\* A step of a process.
Moves(p) ==
  Sweep(p) \/ Settle(p) \/ Start(p) \/ Body(p) \/ EndBody(p) \/ DataRootRefused(p) \/ Crash(p)

\* Only what p does changes, and when it leaves it keeps nothing.
Turn(p) ==
  /\ me' = [me EXCEPT ![p] = me'[p]]
  /\ me'[p].at = "off" => me'[p] = Off

\* The ways in which a step ends.
LEMMA Turns ==
  ASSUME TypeOK, NEW p \in Proc
  PROVE  /\ \A t : me' = [me EXCEPT ![p] = t] /\ (t = Off \/ t.at # "off") => Turn(p)
         /\ \A step \in Step \ {"off"} : Go(p, step) => Turn(p) /\ me'[p].at = step
         /\ Exit(p) => Turn(p) /\ me'[p] = Off
         /\ Refuse(p) \/ AfterConfig(p) \/ NextLease(p) => Turn(p)
<1>1. me \in [Proc -> Task] /\ me[p] \in Task /\ me[p].by \in {"sweep", "run", "body"}
  BY TaskTypes DEF TypeOK, Task
<1>2. ASSUME NEW t, me' = [me EXCEPT ![p] = t], t = Off \/ t.at # "off" PROVE Turn(p)
  BY <1>1, <1>2 DEF Turn
<1>3. ASSUME NEW step \in Step \ {"off"}, Go(p, step) PROVE Turn(p) /\ me'[p].at = step
  BY <1>1, <1>3 DEF Turn, Go, Task
<1>4. ASSUME Exit(p) PROVE Turn(p) /\ me'[p] = Off
  BY <1>1, <1>4 DEF Turn, Exit
<1>5. ASSUME Refuse(p) PROVE Turn(p)
  BY <1>1, <1>5 DEF Turn, Refuse, Task
<1>6. ASSUME AfterConfig(p) PROVE Turn(p)
  BY <1>1, <1>6 DEF Turn, AfterConfig, Task
<1>7. ASSUME NextLease(p) PROVE Turn(p)
  BY <1>1, <1>7 DEF Turn, NextLease, Task
<1> QED  BY <1>2, <1>3, <1>4, <1>5, <1>6, <1>7

\* Whatever a process does is its turn; it takes the lock to begin.
LEMMA OneMoves ==
  ASSUME TypeOK, NEW p \in Proc, Moves(p)
  PROVE  Turn(p) /\ (~At(p, "off") \/ Lockable \/ Crash(p))
<1> DEFINE Result == Turn(p) /\ (~At(p, "off") \/ Lockable \/ Crash(p))
<1>1. me \in [Proc -> Task] /\ me[p] \in Task
  BY TaskTypes DEF TypeOK
<1>2. ASSUME EnterRun(p) PROVE Result
  BY <1>1, <1>2 DEF EnterRun, Turn, Off
<1>3. ASSUME NEW r \in Run, SettleOne(p, r) PROVE Result
  BY <1>1, <1>3 DEF SettleOne, Turn, At, Task, Off
<1>4. ASSUME SweepDone(p) PROVE Result
  <2>1. Exit(p) \/ \E step \in Step \ {"off"} : Go(p, step)
    BY <1>4 DEF SweepDone, Step, BeforeConfig, WithConfig
  <2>2. ~At(p, "off")
    BY <1>4 DEF SweepDone, At
  <2> QED  BY <2>1, <2>2, Turns
<1>5. ASSUME ReopenMode(p) PROVE Result
  <2>1. Exit(p) \/ me' = [me EXCEPT ![p] = [me[p] EXCEPT !.at = "retain", !.epoch = Fresh]]
    BY <1>5 DEF ReopenMode
  <2>2. [me[p] EXCEPT !.at = "retain", !.epoch = Fresh].at = "retain"
    BY <1>1 DEF Task
  <2>3. ~At(p, "off")
    BY <1>5 DEF ReopenMode, At
  <2> QED  BY <2>1, <2>2, <2>3, Turns
<1>6. ASSUME ReopenLease(p) PROVE Result
  <2>1. Exit(p) \/ \E step \in Step \ {"off"} : Go(p, step)
    BY <1>6 DEF ReopenLease, Step, BeforeConfig, WithConfig
  <2>2. ~At(p, "off")
    BY <1>6 DEF ReopenLease, At
  <2> QED  BY <2>1, <2>2, Turns
<1>7. ASSUME Readmit(p) PROVE Result
  <2>1. Exit(p) \/ \E step \in Step \ {"off"} : Go(p, step)
    BY <1>7 DEF Readmit, Step, BeforeConfig, WithConfig
  <2>2. ~At(p, "off")
    BY <1>7 DEF Readmit, At
  <2> QED  BY <2>1, <2>2, Turns
<1>8. ASSUME Resolve(p) PROVE Result
  BY <1>1, <1>8 DEF Resolve, Turn, At, Task, Off
<1>9. ASSUME ReleaseRecovered(p) PROVE Result
  <2>1. Exit(p) \/ \E step \in Step \ {"off"} : Go(p, step)
    BY <1>9 DEF ReleaseRecovered, Step, BeforeConfig, WithConfig
  <2>2. ~At(p, "off")
    BY <1>9 DEF ReleaseRecovered, At
  <2> QED  BY <2>1, <2>2, Turns
<1>10. ASSUME AuthorizeRecovered(p) PROVE Result
  <2>1. Exit(p) \/ me' = [me EXCEPT ![p] = [me[p] EXCEPT !.at = "dir", !.how = "final"]]
    BY <1>10 DEF AuthorizeRecovered
  <2>2. [me[p] EXCEPT !.at = "dir", !.how = "final"].at = "dir"
    BY <1>1 DEF Task
  <2>3. ~At(p, "off")
    BY <1>10 DEF AuthorizeRecovered, At
  <2> QED  BY <2>1, <2>2, <2>3, Turns
<1>11. ASSUME SettleDir(p) PROVE Result
  <2>1. \/ Exit(p) \/ Refuse(p) \/ AfterConfig(p) \/ NextLease(p)
        \/ \E step \in Step \ {"off"} : Go(p, step)
    BY <1>11 DEF SettleDir, Step
  <2>2. ~At(p, "off")
    BY <1>11 DEF SettleDir, At
  <2> QED  BY <2>1, <2>2, Turns
<1>12. ASSUME ForgetDir(p) PROVE Result
  <2>1. Exit(p) \/ \E step \in Step \ {"off"} : Go(p, step)
    BY <1>12 DEF ForgetDir, Step, BeforeConfig, WithConfig
  <2>2. ~At(p, "off")
    BY <1>12 DEF ForgetDir, At
  <2> QED  BY <2>1, <2>2, Turns
<1>13. ASSUME SettleConfig(p) PROVE Result
  <2>1. \/ Exit(p) \/ Refuse(p) \/ AfterConfig(p) \/ NextLease(p)
        \/ \E step \in Step \ {"off"} : Go(p, step)
    BY <1>13 DEF SettleConfig, Step
  <2>2. ~At(p, "off")
    BY <1>13 DEF SettleConfig, At
  <2> QED  BY <2>1, <2>2, Turns
<1>14. ASSUME ForgetConfig(p) PROVE Result
  <2>1. \/ Exit(p) \/ Refuse(p) \/ AfterConfig(p) \/ NextLease(p)
        \/ \E step \in Step \ {"off"} : Go(p, step)
    BY <1>14 DEF ForgetConfig, Step
  <2>2. ~At(p, "off")
    BY <1>14 DEF ForgetConfig, At
  <2> QED  BY <2>1, <2>2, Turns
<1>15. ASSUME Prove(p) PROVE Result
  BY <1>1, <1>15 DEF Prove, Turn, At, Task, Off
<1>16. ASSUME CloseLease(p) PROVE Result
  <2>1. Exit(p) \/ \E step \in Step \ {"off"} : Go(p, step)
    BY <1>16 DEF CloseLease, Step, BeforeConfig, WithConfig
  <2>2. ~At(p, "off")
    BY <1>16 DEF CloseLease, At
  <2> QED  BY <2>1, <2>2, Turns
<1>17. ASSUME ReleaseMode(p) PROVE Result
  <2>1. \/ Exit(p) \/ Refuse(p) \/ AfterConfig(p) \/ NextLease(p)
        \/ \E step \in Step \ {"off"} : Go(p, step)
    BY <1>17 DEF ReleaseMode, Step
  <2>2. ~At(p, "off")
    BY <1>17 DEF ReleaseMode, At
  <2> QED  BY <2>1, <2>2, Turns
<1>18. ASSUME NEW r \in Run, TakeMode(p, r) PROVE Result
  BY <1>1, <1>18 DEF TakeMode, Turn, At, Task, Off
<1>19. ASSUME TakeRefused(p) PROVE Result
  <2>1. Exit(p) \/ \E step \in Step \ {"off"} : Go(p, step)
    BY <1>19 DEF TakeRefused, Step, BeforeConfig, WithConfig
  <2>2. ~At(p, "off")
    BY <1>19 DEF TakeRefused, At
  <2> QED  BY <2>1, <2>2, Turns
<1>20. ASSUME RecordLease(p) PROVE Result
  <2>1. Exit(p) \/ \E step \in Step \ {"off"} : Go(p, step)
    BY <1>20 DEF RecordLease, Step, BeforeConfig, WithConfig
  <2>2. ~At(p, "off")
    BY <1>20 DEF RecordLease, At
  <2> QED  BY <2>1, <2>2, Turns
<1>21. ASSUME PublishDirOrigin(p) PROVE Result
  <2>1. Exit(p) \/ \E step \in Step \ {"off"} : Go(p, step)
    BY <1>21 DEF PublishDirOrigin, Step, BeforeConfig, WithConfig
  <2>2. ~At(p, "off")
    BY <1>21 DEF PublishDirOrigin, At
  <2> QED  BY <2>1, <2>2, Turns
<1>22. ASSUME MakeDir(p) PROVE Result
  <2>1. Exit(p) \/ \E step \in Step \ {"off"} : Go(p, step)
    BY <1>22 DEF MakeDir, Step, BeforeConfig, WithConfig
  <2>2. ~At(p, "off")
    BY <1>22 DEF MakeDir, At
  <2> QED  BY <2>1, <2>2, Turns
<1>23. ASSUME BindDir(p) PROVE Result
  <2>1. Exit(p) \/ \E step \in Step \ {"off"} : Go(p, step)
    BY <1>23 DEF BindDir, Step, BeforeConfig, WithConfig
  <2>2. ~At(p, "off")
    BY <1>23 DEF BindDir, At
  <2> QED  BY <2>1, <2>2, Turns
<1>24. ASSUME DataRootRefused(p) PROVE Result
  <2>1. Exit(p) \/ \E step \in Step \ {"off"} : Go(p, step)
    BY <1>24 DEF DataRootRefused, Step, BeforeConfig, WithConfig
  <2>2. ~At(p, "off")
    BY <1>24 DEF DataRootRefused, At
  <2> QED  BY <2>1, <2>2, Turns
<1>25. ASSUME BeginBinding(p) PROVE Result
  BY <1>1, <1>25 DEF BeginBinding, Turn, At, Task, Off
<1>26. ASSUME BindLease(p) PROVE Result
  <2>1. Exit(p) \/ \E step \in Step \ {"off"} : Go(p, step)
    BY <1>26 DEF BindLease, Step, BeforeConfig, WithConfig
  <2>2. ~At(p, "off")
    BY <1>26 DEF BindLease, At
  <2> QED  BY <2>1, <2>2, Turns
<1>27. ASSUME ArmBoundClose(p) PROVE Result
  BY <1>1, <1>27 DEF ArmBoundClose, Turn, At, Task, Off
<1>28. ASSUME PublishConfigOrigin(p) PROVE Result
  <2>1. Exit(p) \/ \E step \in Step \ {"off"} : Go(p, step)
    BY <1>28 DEF PublishConfigOrigin, Step, BeforeConfig, WithConfig
  <2>2. ~At(p, "off")
    BY <1>28 DEF PublishConfigOrigin, At
  <2> QED  BY <2>1, <2>2, Turns
<1>29. ASSUME PublishConfig(p) PROVE Result
  <2>1. Exit(p) \/ \E step \in Step \ {"off"} : Go(p, step)
    BY <1>29 DEF PublishConfig, Step, BeforeConfig, WithConfig
  <2>2. ~At(p, "off")
    BY <1>29 DEF PublishConfig, At
  <2> QED  BY <2>1, <2>2, Turns
<1>30. ASSUME BindConfig(p) PROVE Result
  <2>1. Exit(p) \/ \E step \in Step \ {"off"} : Go(p, step)
    BY <1>30 DEF BindConfig, Step, BeforeConfig, WithConfig
  <2>2. ~At(p, "off")
    BY <1>30 DEF BindConfig, At
  <2> QED  BY <2>1, <2>2, Turns
<1>31. ASSUME MoveMode(p) PROVE Result
  BY <1>1, <1>31 DEF MoveMode, Turn, At, Task, Off
<1>32. ASSUME MoveLease(p) PROVE Result
  <2>1. Exit(p) \/ \E step \in Step \ {"off"} : Go(p, step)
    BY <1>32 DEF MoveLease, Step, BeforeConfig, WithConfig
  <2>2. ~At(p, "off")
    BY <1>32 DEF MoveLease, At
  <2> QED  BY <2>1, <2>2, Turns
<1>33. ASSUME Reverse(p) PROVE Result
  <2>1. Exit(p) \/ \E step \in Step \ {"off"} : Go(p, step)
    BY <1>33 DEF Reverse, Step, BeforeConfig, WithConfig
  <2>2. ~At(p, "off")
    BY <1>33 DEF Reverse, At
  <2> QED  BY <2>1, <2>2, Turns
<1>34. ASSUME Rearm(p) PROVE Result
  BY <1>1, <1>34 DEF Rearm, Turn, At, Task, Off
<1>35. ASSUME AuthorizeClose(p) PROVE Result
  <2>1. Exit(p) \/ \E step \in Step \ {"off"} : Go(p, step)
    BY <1>35 DEF AuthorizeClose, Step, BeforeConfig, WithConfig
  <2>2. ~At(p, "off")
    BY <1>35 DEF AuthorizeClose, At
  <2> QED  BY <2>1, <2>2, Turns
<1>36. ASSUME MarkPending(p) PROVE Result
  BY <1>1, <1>36 DEF MarkPending, Turn, At, Task, Off
<1>37. ASSUME SettleClose(p) PROVE Result
  BY <1>1, <1>37 DEF SettleClose, Turn, At, Task, Off
<1>38. ASSUME EndBody(p) PROVE Result
  BY <1>1, <1>38 DEF EndBody, Turn, At, Task, Off, BeforeConfig, WithConfig
<1>39. ASSUME Crash(p) PROVE Result
  BY <1>39, Turns DEF Crash
<1> QED
  BY <1>1, <1>2, <1>3, <1>4, <1>5, <1>6, <1>7, <1>8, <1>9, <1>10, <1>11, <1>12, <1>13,
     <1>14, <1>15, <1>16, <1>17, <1>18, <1>19, <1>20, <1>21, <1>22, <1>23, <1>24, <1>25,
     <1>26, <1>27, <1>28, <1>29, <1>30, <1>31, <1>32, <1>33, <1>34, <1>35, <1>36, <1>37,
     <1>38, <1>39 DEF Moves, Sweep, Settle, Start, Body

\* So one process at a time is at work, and while one moves the others do not.
LEMMA AloneKept ==
  ASSUME TypeOK, Alone, NEW p \in Proc, Moves(p)
  PROVE  Alone' /\ (~At(p, "off") \/ Lockable => \A q \in Proc \ {p} : me'[q] = Off)
<1>1. Turn(p) /\ (~At(p, "off") \/ Lockable \/ Crash(p)) /\ me \in [Proc -> Task]
  BY OneMoves DEF TypeOK
<1>2. \A q \in Proc \ {p} : me'[q] = me[q]
  BY <1>1 DEF Turn
<1>3. CASE ~At(p, "off") \/ Lockable
  <2>1. \A q \in Proc \ {p} : me'[q] = Off
    BY <1>2, <1>3 DEF Alone, Lockable, At
  <2>2. me'[p].at = "off" => me'[p] = Off
    BY <1>1 DEF Turn
  <2>3. \A q \in Proc : me'[q].at = "off" => me'[q] = Off
    BY <2>1, <2>2
  <2>4. \A q \in Proc \ {p} : me'[q].at = "off"
    BY <2>1 DEF Off
  <2>5. \A q, r \in Proc : q # r => me'[q].at = "off" \/ me'[r].at = "off"
    BY <2>4
  <2> QED  BY <2>1, <2>3, <2>5 DEF Alone, At
<1>4. CASE At(p, "off") /\ Crash(p)
  <2>1. me' = me
    BY <1>1, <1>4 DEF Alone, Crash, Exit
  <2> QED  BY <2>1, <1>2, <1>4 DEF Alone, At, Lockable
<1> QED  BY <1>1, <1>3, <1>4

\* What a process is at after the ways in which a step ends.
LEMMA Ends ==
  ASSUME TypeOK, NEW p \in Proc
  PROVE  /\ \A step : Go(p, step) => me'[p] = [me[p] EXCEPT !.at = step]
         /\ Exit(p) => me'[p] = Off
         /\ Refuse(p) => \/ me'[p] = Off
                         \/ me'[p] = [me[p] EXCEPT !.at = "dir", !.by = "run"]
         /\ AfterConfig(p) =>
              \/ me[p].by = "body" /\ me'[p] = [me[p] EXCEPT !.at = "dir", !.by = "run"]
              \/ me[p].by = "run" /\ me'[p] = [me[p] EXCEPT !.at = "prove"]
              \/ me[p].by = "sweep" /\ me'[p] = [me[p] EXCEPT !.at = "close"]
         /\ NextLease(p) => me'[p] = Off \/ me'[p] = [me[p] EXCEPT !.at = "sweep"]
<1>1. me \in [Proc -> Task] /\ me[p].by \in {"sweep", "run", "body"}
  BY TaskTypes DEF TypeOK, Task
<1>2. /\ \A step : Go(p, step) => me'[p] = [me[p] EXCEPT !.at = step]
      /\ Exit(p) => me'[p] = Off
  BY <1>1 DEF Go, Exit
<1>3. Refuse(p) => me'[p] = Off \/ me'[p] = [me[p] EXCEPT !.at = "dir", !.by = "run"]
  BY <1>1 DEF Refuse
<1>4. AfterConfig(p) =>
        \/ me[p].by = "body" /\ me'[p] = [me[p] EXCEPT !.at = "dir", !.by = "run"]
        \/ me[p].by = "run" /\ me'[p] = [me[p] EXCEPT !.at = "prove"]
        \/ me[p].by = "sweep" /\ me'[p] = [me[p] EXCEPT !.at = "close"]
  BY <1>1 DEF AfterConfig
<1>5. NextLease(p) => me'[p] = Off \/ me'[p] = [me[p] EXCEPT !.at = "sweep"]
  BY <1>1 DEF NextLease
<1> QED  BY <1>2, <1>3, <1>4, <1>5

\* The run in hand, and how and under which control it is settled.
SameRun(p) ==
  me'[p].on = me[p].on /\ me'[p].how = me[p].how /\ me'[p].ctl = me[p].ctl
Same(p) == SameRun(p) /\ me'[p].by = me[p].by

\* The same, of the parts of a task the invariant speaks about.
LEMMA EndFields ==
  ASSUME TypeOK, NEW p \in Proc
  PROVE  /\ \A step : Go(p, step) => me'[p].at = step /\ Same(p)
         /\ Exit(p) => me'[p] = Off
         /\ Refuse(p) => \/ me'[p] = Off
                         \/ me'[p].at = "dir" /\ me'[p].by = "run" /\ SameRun(p)
         /\ AfterConfig(p) =>
              \/ me[p].by = "body" /\ me'[p].at = "dir" /\ me'[p].by = "run" /\ SameRun(p)
              \/ me[p].by = "run" /\ me'[p].at = "prove" /\ Same(p)
              \/ me[p].by = "sweep" /\ me'[p].at = "close" /\ Same(p)
         /\ NextLease(p) => \/ me'[p] = Off
                            \/ me[p].by = "sweep" /\ me'[p].at = "sweep" /\ Same(p)
<1>1. me \in [Proc -> Task] /\ me[p] \in Task /\ me[p].by \in {"sweep", "run", "body"}
  BY TaskTypes DEF TypeOK, Task
<1>2. \A step : Go(p, step) => me'[p].at = step /\ Same(p)
  BY <1>1 DEF Go, Same, SameRun, Task
<1>3. Exit(p) => me'[p] = Off
  BY <1>1 DEF Exit
<1>4. Refuse(p) => \/ me'[p] = Off
                   \/ me'[p].at = "dir" /\ me'[p].by = "run" /\ SameRun(p)
  BY <1>1 DEF Refuse, SameRun, Task
<1>5. AfterConfig(p) =>
        \/ me[p].by = "body" /\ me'[p].at = "dir" /\ me'[p].by = "run" /\ SameRun(p)
        \/ me[p].by = "run" /\ me'[p].at = "prove" /\ Same(p)
        \/ me[p].by = "sweep" /\ me'[p].at = "close" /\ Same(p)
  BY <1>1 DEF AfterConfig, Same, SameRun, Task
<1>6. NextLease(p) => \/ me'[p] = Off
                      \/ me[p].by = "sweep" /\ me'[p].at = "sweep" /\ Same(p)
  BY <1>1 DEF NextLease, Same, SameRun, Task
<1> QED  BY <1>2, <1>3, <1>4, <1>5, <1>6

-----------------------------------------------------------------------------
(* Working.                                                                *)

\* A process that is off owes nothing.
LEMMA OffOwesNothing ==
  ASSUME NEW p \in Proc, me'[p] = Off
  PROVE  /\ WorksOn(p)' /\ Serves(p)' /\ Holds(p)'
         /\ Fences(p)' /\ Records(p)' /\ Settles(p)'
<1>1. /\ me'[p].at = "off" /\ me'[p].todo = {} /\ me'[p].how = "short"
      /\ me'[p].ctl = "unbound"
  BY DEF Off
<1> QED
  BY <1>1
  DEF WorksOn, Serves, Holds, Fences, Records, Settles, At, Idle, Live, Bound, WithConfig

\* A process works on a run that has a lease.
LEMMA WorksOnKept ==
  ASSUME TypeOK, Working, NEW p \in Proc, Moves(p)
  PROVE  WorksOn(p)'
<1> USE DEF Idle, Bound
<1>1. /\ WorksOn(p) /\ me[p] \in Task /\ me \in [Proc -> Task]
      /\ lease \in [Holder -> Open \cup {"none", "closed"}]
      /\ me[p].todo \subseteq Run /\ Run \subseteq Holder
  BY TaskTypes DEF Working, TypeOK, Task, Holder
<1>2. ASSUME me'[p] = Off PROVE WorksOn(p)'
  BY <1>2, OffOwesNothing
<1>3. ASSUME EnterRun(p) PROVE WorksOn(p)'
  BY <1>1, <1>2, <1>3 DEF EnterRun, WorksOn, Go, At, Task, Off, leases, Incomplete, Open
<1>4. ASSUME NEW r \in Run, SettleOne(p, r) PROVE WorksOn(p)'
  BY <1>1, <1>2, <1>4 DEF SettleOne, WorksOn, Go, At, Task, Off, leases
<1>5. ASSUME SweepDone(p) PROVE WorksOn(p)'
  <2>1. me'[p] = Off \/ me'[p] = [me[p] EXCEPT !.at = "take"]
    BY <1>1, <1>5, Ends DEF SweepDone
  <2>2. me[p].at = "sweep" /\ UNCHANGED lease
    BY <1>5 DEF SweepDone, At, leases
  <2> QED
    BY <1>1, <1>2, <2>1, <2>2, TaskTypes DEF WorksOn, Task
<1>6. ASSUME ReopenMode(p) PROVE WorksOn(p)'
  <2> DEFINE renewed == [me[p] EXCEPT !.at = "retain", !.epoch = Fresh]
  <2>1. Exit(p) \/ (Spare /\ me' = [me EXCEPT ![p] = renewed])
    BY <1>6 DEF ReopenMode
  <2>2. me'[p] = Off \/ (Spare /\ me'[p] = renewed)
    BY <1>1, <2>1, Ends
  <2>3. me[p].at = "reopen" /\ UNCHANGED lease
    BY <1>6 DEF ReopenMode, At, leases
  <2> QED
    BY <1>1, <1>2, <2>2, <2>3, TaskTypes DEF WorksOn, Task
<1>7. ASSUME ReopenLease(p) PROVE WorksOn(p)'
  BY <1>1, <1>2, <1>7 DEF ReopenLease, WorksOn, Go, At, Task, Off, leases
<1>8. ASSUME Readmit(p) PROVE WorksOn(p)'
  BY <1>1, <1>2, <1>8 DEF Readmit, WorksOn, Go, At, Task, Off, leases
<1>9. ASSUME Resolve(p) PROVE WorksOn(p)'
  BY <1>1, <1>2, <1>9 DEF Resolve, WorksOn, Go, At, Task, Off, leases
<1>10. ASSUME ReleaseRecovered(p) PROVE WorksOn(p)'
  <2>1. me'[p] = Off \/ me'[p] = [me[p] EXCEPT !.at = "settled"]
    BY <1>1, <1>10, Ends DEF ReleaseRecovered
  <2>2. me[p].at = "forest" /\ UNCHANGED lease
    BY <1>10 DEF ReleaseRecovered, At, leases
  <2> QED
    BY <1>1, <1>2, <2>1, <2>2, TaskTypes DEF WorksOn, Task
<1>11. ASSUME AuthorizeRecovered(p) PROVE WorksOn(p)'
  <2>1. /\ me[p].at = "settled" /\ UNCHANGED lease
        /\ me'[p] = Off \/ me'[p] = [me[p] EXCEPT !.at = "dir", !.how = "final"]
    BY <1>1, <1>11, Ends DEF AuthorizeRecovered, At, leases
  <2> QED
    BY <1>1, <1>2, <2>1 DEF WorksOn, Task
<1>12. ASSUME SettleDir(p) PROVE WorksOn(p)'
  <2>1. /\ me[p].at \notin Idle \cup {"record"} /\ UNCHANGED lease
        /\ \/ me'[p] = Off
           \/ \E step \in {"cfg", "dirForget", "dirSettle", "cfgForget", "cfgSettle",
                           "prove", "close"} :
                me'[p] = [me[p] EXCEPT !.at = step]
           \/ me'[p] = [me[p] EXCEPT !.at = "dir", !.by = "run"]
    BY <1>12, Ends DEF SettleDir, At, leases
  <2>2. CASE me'[p] = Off
    BY <1>1, <2>2 DEF WorksOn, Off, Idle, Bound
  <2>3. ASSUME NEW step \in {"cfg", "dirForget", "dirSettle", "cfgForget", "cfgSettle",
                            "prove", "close"},
               me'[p] = [me[p] EXCEPT !.at = step]
        PROVE  WorksOn(p)'
    <3>1. me'[p].at = step /\ me'[p].on = me[p].on /\ me'[p].todo = me[p].todo
      BY <1>2, <2>3 DEF Task
    <3> QED  BY <1>1, <2>1, <2>3, <3>1 DEF WorksOn, Idle, Bound
  <2>4. CASE me'[p] = [me[p] EXCEPT !.at = "dir", !.by = "run"]
    <3>1. me'[p].at = "dir" /\ me'[p].on = me[p].on /\ me'[p].todo = me[p].todo
      BY <1>2, <2>4 DEF Task
    <3> QED  BY <1>1, <2>1, <3>1 DEF WorksOn, Idle, Bound
  <2> QED  BY <2>1, <2>2, <2>3, <2>4
<1>13. ASSUME ForgetDir(p) PROVE WorksOn(p)'
  BY <1>1, <1>2, <1>13 DEF ForgetDir, WorksOn, Go, At, Task, Off, leases
<1>14. ASSUME SettleConfig(p) PROVE WorksOn(p)'
  <2>1. /\ me[p].at \notin Idle \cup {"record"} /\ UNCHANGED lease
        /\ \/ me'[p] = Off
           \/ \E step \in {"cfg", "dirForget", "dirSettle", "cfgForget", "cfgSettle",
                           "prove", "close"} :
                me'[p] = [me[p] EXCEPT !.at = step]
           \/ me'[p] = [me[p] EXCEPT !.at = "dir", !.by = "run"]
    BY <1>14, Ends DEF SettleConfig, At, leases
  <2>2. CASE me'[p] = Off
    BY <1>1, <2>2 DEF WorksOn, Off, Idle, Bound
  <2>3. ASSUME NEW step \in {"cfg", "dirForget", "dirSettle", "cfgForget", "cfgSettle",
                            "prove", "close"},
               me'[p] = [me[p] EXCEPT !.at = step]
        PROVE  WorksOn(p)'
    <3>1. me'[p].at = step /\ me'[p].on = me[p].on /\ me'[p].todo = me[p].todo
      BY <1>2, <2>3 DEF Task
    <3> QED  BY <1>1, <2>1, <2>3, <3>1 DEF WorksOn, Idle, Bound
  <2>4. CASE me'[p] = [me[p] EXCEPT !.at = "dir", !.by = "run"]
    <3>1. me'[p].at = "dir" /\ me'[p].on = me[p].on /\ me'[p].todo = me[p].todo
      BY <1>2, <2>4 DEF Task
    <3> QED  BY <1>1, <2>1, <3>1 DEF WorksOn, Idle, Bound
  <2> QED  BY <2>1, <2>2, <2>3, <2>4
<1>15. ASSUME ForgetConfig(p) PROVE WorksOn(p)'
  <2>1. /\ me[p].at \notin Idle \cup {"record"} /\ UNCHANGED lease
        /\ \/ me'[p] = Off
           \/ \E step \in {"cfg", "dirForget", "dirSettle", "cfgForget", "cfgSettle",
                           "prove", "close"} :
                me'[p] = [me[p] EXCEPT !.at = step]
           \/ me'[p] = [me[p] EXCEPT !.at = "dir", !.by = "run"]
    BY <1>15, Ends DEF ForgetConfig, At, leases
  <2>2. CASE me'[p] = Off
    BY <1>1, <2>2 DEF WorksOn, Off, Idle, Bound
  <2>3. ASSUME NEW step \in {"cfg", "dirForget", "dirSettle", "cfgForget", "cfgSettle",
                            "prove", "close"},
               me'[p] = [me[p] EXCEPT !.at = step]
        PROVE  WorksOn(p)'
    <3>1. me'[p].at = step /\ me'[p].on = me[p].on /\ me'[p].todo = me[p].todo
      BY <1>2, <2>3 DEF Task
    <3> QED  BY <1>1, <2>1, <2>3, <3>1 DEF WorksOn, Idle, Bound
  <2>4. CASE me'[p] = [me[p] EXCEPT !.at = "dir", !.by = "run"]
    <3>1. me'[p].at = "dir" /\ me'[p].on = me[p].on /\ me'[p].todo = me[p].todo
      BY <1>2, <2>4 DEF Task
    <3> QED  BY <1>1, <2>1, <3>1 DEF WorksOn, Idle, Bound
  <2> QED  BY <2>1, <2>2, <2>3, <2>4
<1>16. ASSUME Prove(p) PROVE WorksOn(p)'
  BY <1>1, <1>2, <1>16 DEF Prove, WorksOn, Go, At, Task, Off, leases
<1>17. ASSUME CloseLease(p) PROVE WorksOn(p)'
  <2>1. /\ me[p].at = "close"
        /\ \/ me'[p] = Off
           \/ /\ lease' = [lease EXCEPT ![me[p].on] = "closed"]
              /\ me'[p] = [me[p] EXCEPT !.at = "release"]
    BY <1>1, <1>17, Ends DEF CloseLease, At
  <2> QED
    BY <1>1, <1>2, <2>1 DEF WorksOn, Task
<1>18. ASSUME ReleaseMode(p) PROVE WorksOn(p)'
  <2>1. me'[p] = Off \/ me'[p] = [me[p] EXCEPT !.at = "sweep"]
    BY <1>1, <1>18, Ends DEF ReleaseMode
  <2>2. me[p].at = "release" /\ UNCHANGED lease
    BY <1>18 DEF ReleaseMode, At, leases
  <2> QED
    BY <1>1, <1>2, <2>1, <2>2, TaskTypes DEF WorksOn, Task
<1>19. ASSUME NEW r \in Run, TakeMode(p, r) PROVE WorksOn(p)'
  BY <1>1, <1>2, <1>19, TaskTypes DEF TakeMode, WorksOn, Go, At, Task, Off, leases, Untaken
<1>20. ASSUME RecordLease(p) PROVE WorksOn(p)'
  BY <1>1, <1>2, <1>20 DEF RecordLease, WorksOn, Go, At, Task, Off, leases
<1>21. ASSUME PublishDirOrigin(p) PROVE WorksOn(p)'
  BY <1>1, <1>2, <1>21 DEF PublishDirOrigin, WorksOn, Go, At, Task, Off, leases
<1>22. ASSUME MakeDir(p) PROVE WorksOn(p)'
  BY <1>1, <1>2, <1>22 DEF MakeDir, WorksOn, Go, At, Task, Off, leases
<1>23. ASSUME BindDir(p) PROVE WorksOn(p)'
  BY <1>1, <1>2, <1>23 DEF BindDir, WorksOn, Go, At, Task, Off, leases
<1>24. ASSUME BeginBinding(p) PROVE WorksOn(p)'
  BY <1>1, <1>2, <1>24 DEF BeginBinding, WorksOn, Go, At, Task, Off, leases
<1>25. ASSUME BindLease(p) PROVE WorksOn(p)'
  BY <1>1, <1>2, <1>25 DEF BindLease, WorksOn, Go, At, Task, Off, leases
<1>26. ASSUME ArmBoundClose(p) PROVE WorksOn(p)'
  BY <1>1, <1>2, <1>26 DEF ArmBoundClose, WorksOn, Go, At, Task, Off, leases
<1>27. ASSUME PublishConfigOrigin(p) PROVE WorksOn(p)'
  BY <1>1, <1>2, <1>27 DEF PublishConfigOrigin, WorksOn, Go, At, Task, Off, leases
<1>28. ASSUME PublishConfig(p) PROVE WorksOn(p)'
  BY <1>1, <1>2, <1>28 DEF PublishConfig, WorksOn, Go, At, Task, Off, leases
<1>29. ASSUME BindConfig(p) PROVE WorksOn(p)'
  BY <1>1, <1>2, <1>29 DEF BindConfig, WorksOn, Go, At, Task, Off, leases
<1>30. ASSUME MoveMode(p) PROVE WorksOn(p)'
  BY <1>1, <1>2, <1>30, TaskTypes DEF MoveMode, WorksOn, Go, At, Task, Off, leases
<1>31. ASSUME MoveLease(p) PROVE WorksOn(p)'
  BY <1>1, <1>2, <1>31 DEF MoveLease, WorksOn, Go, At, Task, Off, leases
<1>32. ASSUME Reverse(p) PROVE WorksOn(p)'
  BY <1>1, <1>2, <1>32 DEF Reverse, WorksOn, Go, At, Task, Off, leases
<1>33. ASSUME Rearm(p) PROVE WorksOn(p)'
  BY <1>1, <1>2, <1>33 DEF Rearm, WorksOn, Go, At, Task, Off, leases
<1>34. ASSUME AuthorizeClose(p) PROVE WorksOn(p)'
  BY <1>1, <1>2, <1>34 DEF AuthorizeClose, WorksOn, Go, At, Task, Off, leases
<1>35. ASSUME MarkPending(p) PROVE WorksOn(p)'
  BY <1>1, <1>2, <1>35 DEF MarkPending, WorksOn, Go, At, Task, Off, leases
<1>36. ASSUME SettleClose(p) PROVE WorksOn(p)'
  BY <1>1, <1>2, <1>36 DEF SettleClose, WorksOn, Go, At, Task, Off, leases
<1>37. ASSUME EndBody(p) PROVE WorksOn(p)'
  BY <1>1, <1>2, <1>37
  DEF EndBody, WorksOn, Go, At, Task, Off, leases, BeforeConfig, WithConfig
<1>38. ASSUME TakeRefused(p) \/ DataRootRefused(p) \/ Crash(p) PROVE WorksOn(p)'
  BY <1>2, <1>38, Ends DEF TakeRefused, DataRootRefused, Crash
<1> QED
  BY <1>1, <1>2, <1>3, <1>4, <1>5, <1>6, <1>7, <1>8, <1>9, <1>10, <1>11, <1>12, <1>13,
     <1>14, <1>15, <1>16, <1>17, <1>18, <1>19, <1>20, <1>21, <1>22, <1>23, <1>24, <1>25,
     <1>26, <1>27, <1>28, <1>29, <1>30, <1>31, <1>32, <1>33, <1>34, <1>35, <1>36, <1>37,
     <1>38 DEF Moves, Sweep, Settle, Start, Body

-----------------------------------------------------------------------------
(* The mode and the leases.                                                *)

\* Whoever has an open lease still has the mode: a lease opens under the mode, and
\* the mode is given up after the lease.
LEMMA LeaseHoldsModeKept ==
  ASSUME TypeOK, Working, Holding, NEW p \in Proc, Moves(p)
  PROVE  OpenLeaseHoldsMode'
<1>1. /\ WorksOn(p) /\ Holds(p) /\ OpenLeaseHoldsMode
      /\ lease \in [Holder -> Open \cup {"none", "closed"}]
  BY DEF Working, Holding, TypeOK
<1>2. ASSUME UNCHANGED <<mode, lease>> PROVE OpenLeaseHoldsMode'
  BY <1>1, <1>2 DEF OpenLeaseHoldsMode
<1>3. ASSUME EnterRun(p) \/ SweepDone(p) \/ ReopenMode(p) \/ ReopenLease(p) \/ Readmit(p)
             \/ Resolve(p) \/ ReleaseRecovered(p) \/ AuthorizeRecovered(p) \/ SettleDir(p)
             \/ ForgetDir(p) \/ SettleConfig(p) \/ ForgetConfig(p) \/ Prove(p)
             \/ TakeRefused(p) \/ PublishDirOrigin(p) \/ MakeDir(p) \/ BindDir(p)
             \/ DataRootRefused(p) \/ BeginBinding(p) \/ ArmBoundClose(p)
             \/ PublishConfigOrigin(p) \/ PublishConfig(p) \/ BindConfig(p) \/ MoveMode(p)
             \/ MoveLease(p) \/ Reverse(p) \/ Rearm(p) \/ AuthorizeClose(p)
             \/ MarkPending(p) \/ SettleClose(p) \/ EndBody(p) \/ Crash(p)
     PROVE  UNCHANGED <<mode, lease>>
  BY <1>3
  DEF EnterRun, SweepDone, ReopenMode, ReopenLease, Readmit, Resolve, ReleaseRecovered,
      AuthorizeRecovered, SettleDir, ForgetDir, SettleConfig, ForgetConfig, Prove,
      TakeRefused, PublishDirOrigin, MakeDir, BindDir, DataRootRefused, BeginBinding,
      ArmBoundClose, PublishConfigOrigin, PublishConfig, BindConfig, MoveMode, MoveLease,
      Reverse, Rearm, AuthorizeClose, MarkPending, SettleClose, EndBody, Crash, hold, leases
<1>4. ASSUME NEW r \in Run, SettleOne(p, r) PROVE UNCHANGED <<mode, lease>>
  BY <1>4 DEF SettleOne, hold, leases
<1>5. ASSUME CloseLease(p) PROVE OpenLeaseHoldsMode'
  BY <1>1, <1>5 DEF CloseLease, OpenLeaseHoldsMode, Open, hold
<1>6. ASSUME ReleaseMode(p) PROVE OpenLeaseHoldsMode'
  <2>1. \A o \in Holder : lease[o] \in Open => o # me[p].on
    BY <1>1, <1>6 DEF ReleaseMode, Holds, At, Open
  <2> QED
    BY <1>1, <1>6, <2>1 DEF ReleaseMode, OpenLeaseHoldsMode, hold, leases
<1>7. ASSUME NEW r \in Run, TakeMode(p, r) PROVE OpenLeaseHoldsMode'
  <2>1. \A o \in Holder : lease[o] \notin Open
    BY <1>1, <1>7, NamesAssumption
    DEF TakeMode, Admitted, Eligible, OpenLeaseHoldsMode, Holder
  <2> QED
    BY <1>7, <2>1 DEF TakeMode, OpenLeaseHoldsMode, leases
<1>8. ASSUME RecordLease(p) PROVE OpenLeaseHoldsMode'
  BY <1>1, <1>8 DEF RecordLease, OpenLeaseHoldsMode, Holds, At, hold
<1>9. ASSUME BindLease(p) PROVE OpenLeaseHoldsMode'
  BY <1>1, <1>9 DEF BindLease, OpenLeaseHoldsMode, Open, hold
<1> QED
  BY <1>1, <1>2, <1>3, <1>4, <1>5, <1>6, <1>7, <1>8, <1>9
  DEF Moves, Sweep, Settle, Start, Body

\* Forward work starts with a bound lease, and a closing run has none.
LEMMA FencedKept ==
  ASSUME TypeOK, Working, Fencing, NEW p \in Proc, Moves(p)
  PROVE  \A r \in Run : Fenced(r)'
<1> DEFINE Result == \A r \in Run : Fenced(r)'
<1>1. /\ WorksOn(p) /\ Fences(p) /\ \A r \in Run : Fenced(r)
      /\ lease \in [Holder -> Open \cup {"none", "closed"}] /\ Run \subseteq Holder
      /\ held \in [Run -> {"none", "acquired", "released"}]
  BY DEF Working, Fencing, TypeOK, Holder
<1>2. ASSUME UNCHANGED <<lease, closing, held, busy, forward>> PROVE Result
  BY <1>1, <1>2 DEF Fenced, Quiet
<1>3. ASSUME EnterRun(p) \/ SweepDone(p) \/ ReopenMode(p) \/ ReopenLease(p) \/ Resolve(p)
             \/ SettleDir(p) \/ ForgetDir(p) \/ SettleConfig(p) \/ ForgetConfig(p)
             \/ Prove(p) \/ ReleaseMode(p) \/ TakeRefused(p) \/ PublishDirOrigin(p)
             \/ MakeDir(p) \/ BindDir(p) \/ DataRootRefused(p) \/ BeginBinding(p)
             \/ ArmBoundClose(p) \/ PublishConfigOrigin(p) \/ PublishConfig(p)
             \/ MoveMode(p) \/ MoveLease(p) \/ MarkPending(p) \/ SettleClose(p)
             \/ EndBody(p) \/ Crash(p)
     PROVE  UNCHANGED <<lease, closing, held, busy, forward>>
  BY <1>3
  DEF EnterRun, SweepDone, ReopenMode, ReopenLease, Resolve, SettleDir, ForgetDir,
      SettleConfig, ForgetConfig, Prove, ReleaseMode, TakeRefused, PublishDirOrigin,
      MakeDir, BindDir, DataRootRefused, BeginBinding, ArmBoundClose, PublishConfigOrigin,
      PublishConfig, MoveMode, MoveLease, MarkPending, SettleClose, EndBody, Crash, leases,
      resources
<1>4. ASSUME NEW r \in Run, SettleOne(p, r) \/ TakeMode(p, r)
     PROVE  UNCHANGED <<lease, closing, held, busy, forward>>
  BY <1>4 DEF SettleOne, TakeMode, leases, resources
<1>5. ASSUME Readmit(p) PROVE Result
  BY <1>1, <1>5
  DEF Readmit, leases, WorksOn, Fences, Fenced, Quiet, At, Idle, Live, Bound, Open
<1>6. ASSUME ReleaseRecovered(p) PROVE Result
  <2>1. /\ held' = held \/ held' = [held EXCEPT ![me[p].on] = "released"]
        /\ UNCHANGED <<lease, closing, busy, forward>>
    BY <1>6 DEF ReleaseRecovered, leases
  <2> QED  BY <1>1, <2>1 DEF Fenced, Quiet
<1>7. ASSUME AuthorizeRecovered(p) PROVE Result
  BY <1>1, <1>7
  DEF AuthorizeRecovered, leases, resources, WorksOn, Fences, Fenced, Quiet, At, Idle, Live,
      Bound, Open
<1>8. ASSUME CloseLease(p) PROVE Result
  BY <1>1, <1>8
  DEF CloseLease, resources, WorksOn, Fences, Fenced, Quiet, At, Idle, Live, Bound, Open
<1>9. ASSUME RecordLease(p) PROVE Result
  BY <1>1, <1>9
  DEF RecordLease, resources, WorksOn, Fences, Fenced, Quiet, At, Idle, Live, Bound, Open
<1>10. ASSUME BindLease(p) PROVE Result
  BY <1>1, <1>10
  DEF BindLease, resources, WorksOn, Fences, Fenced, Quiet, At, Idle, Live, Bound, Open
<1>11. ASSUME BindConfig(p) PROVE Result
  BY <1>1, <1>11
  DEF BindConfig, leases, WorksOn, Fences, Fenced, Quiet, At, Idle, Live, Bound, Open
<1>12. ASSUME Reverse(p) PROVE Result
  BY <1>1, <1>12
  DEF Reverse, leases, WorksOn, Fences, Fenced, Quiet, At, Idle, Live, Bound, Open
<1>13. ASSUME Rearm(p) PROVE Result
  BY <1>1, <1>13
  DEF Rearm, leases, WorksOn, Fences, Fenced, Quiet, At, Idle, Live, Bound, Open
<1>14. ASSUME AuthorizeClose(p) PROVE Result
  BY <1>1, <1>14
  DEF AuthorizeClose, leases, resources, WorksOn, Fences, Fenced, Quiet, At, Idle, Live,
      Bound, Open
<1> QED
  BY <1>1, <1>2, <1>3, <1>4, <1>5, <1>6, <1>7, <1>8, <1>9, <1>10, <1>11, <1>12, <1>13, <1>14
  DEF Moves, Sweep, Settle, Start, Body

\* An object of a run has a record.
LEMMA RecordedKept ==
  ASSUME TypeOK, Working, Recording, Settling, NEW p \in Proc, Moves(p)
  PROVE  \A r \in Run : Recorded(r)'
<1> DEFINE Result == \A r \in Run : Recorded(r)'
<1>1. /\ WorksOn(p) /\ Records(p) /\ Settles(p) /\ \A r \in Run : Recorded(r)
      /\ lease \in [Holder -> Open \cup {"none", "closed"}] /\ Run \subseteq Holder
      /\ dir \in [Run -> {"absent", "made", "foreign"}]
      /\ dirRec \in [Run -> {"none", "origin", "found", "managed"}]
      /\ cfgRec \in [Run -> {"none", "origin", "managed"}]
  BY DEF Working, Recording, Settling, TypeOK, Holder
<1>2. ASSUME UNCHANGED <<lease, dir, dirRec, file, cfgRec>> PROVE Result
  BY <1>1, <1>2 DEF Recorded
<1>3. ASSUME EnterRun(p) \/ SweepDone(p) \/ ReopenMode(p) \/ ReopenLease(p) \/ Readmit(p)
             \/ Resolve(p) \/ ReleaseRecovered(p) \/ AuthorizeRecovered(p) \/ Prove(p)
             \/ ReleaseMode(p) \/ TakeRefused(p) \/ DataRootRefused(p) \/ BeginBinding(p)
             \/ ArmBoundClose(p) \/ MoveMode(p) \/ MoveLease(p) \/ Reverse(p) \/ Rearm(p)
             \/ AuthorizeClose(p) \/ MarkPending(p) \/ SettleClose(p) \/ EndBody(p)
             \/ Crash(p)
     PROVE  UNCHANGED <<lease, dir, dirRec, file, cfgRec>>
  BY <1>3
  DEF EnterRun, SweepDone, ReopenMode, ReopenLease, Readmit, Resolve, ReleaseRecovered,
      AuthorizeRecovered, Prove, ReleaseMode, TakeRefused, DataRootRefused, BeginBinding,
      ArmBoundClose, MoveMode, MoveLease, Reverse, Rearm, AuthorizeClose, MarkPending,
      SettleClose, EndBody, Crash, leases, roots, config
<1>4. ASSUME NEW r \in Run, SettleOne(p, r) \/ TakeMode(p, r)
     PROVE  UNCHANGED <<lease, dir, dirRec, file, cfgRec>>
  BY <1>4 DEF SettleOne, TakeMode, leases, roots, config
<1>5. ASSUME SettleDir(p) PROVE Result
  BY <1>1, <1>5
  DEF SettleDir, leases, roots, config, WorksOn, Records, Settles, Recorded, At, Idle, Bound
<1>6. ASSUME ForgetDir(p) PROVE Result
  BY <1>1, <1>6
  DEF ForgetDir, leases, roots, config, WorksOn, Records, Settles, Recorded, At, Idle, Bound
<1>7. ASSUME SettleConfig(p) PROVE Result
  BY <1>1, <1>7, NamesAssumption
  DEF SettleConfig, leases, roots, config, WorksOn, Records, Settles, Recorded, At, Idle,
      Bound, NoFile
<1>8. ASSUME ForgetConfig(p) PROVE Result
  BY <1>1, <1>8
  DEF ForgetConfig, leases, roots, config, WorksOn, Records, Settles, Recorded, At, Idle,
      Bound
<1>9. ASSUME CloseLease(p) PROVE Result
  BY <1>1, <1>9
  DEF CloseLease, leases, roots, config, WorksOn, Records, Settles, Recorded, At, Idle,
      Bound
<1>10. ASSUME RecordLease(p) PROVE Result
  BY <1>1, <1>10
  DEF RecordLease, leases, roots, config, WorksOn, Records, Settles, Recorded, At, Idle,
      Bound
<1>11. ASSUME PublishDirOrigin(p) PROVE Result
  BY <1>1, <1>11
  DEF PublishDirOrigin, leases, roots, config, WorksOn, Records, Settles, Recorded, At,
      Idle, Bound
<1>12. ASSUME MakeDir(p) PROVE Result
  BY <1>1, <1>12
  DEF MakeDir, leases, roots, config, WorksOn, Records, Settles, Recorded, At, Idle, Bound
<1>13. ASSUME BindDir(p) PROVE Result
  BY <1>1, <1>13
  DEF BindDir, leases, roots, config, WorksOn, Records, Settles, Recorded, At, Idle, Bound
<1>14. ASSUME BindLease(p) PROVE Result
  BY <1>1, <1>14
  DEF BindLease, leases, roots, config, WorksOn, Records, Settles, Recorded, At, Idle, Bound
<1>15. ASSUME PublishConfigOrigin(p) PROVE Result
  BY <1>1, <1>15
  DEF PublishConfigOrigin, leases, roots, config, WorksOn, Records, Settles, Recorded, At,
      Idle, Bound
<1>16. ASSUME PublishConfig(p) PROVE Result
  BY <1>1, <1>16
  DEF PublishConfig, leases, roots, config, WorksOn, Records, Settles, Recorded, At, Idle,
      Bound
<1>17. ASSUME BindConfig(p) PROVE Result
  BY <1>1, <1>17
  DEF BindConfig, leases, roots, config, WorksOn, Records, Settles, Recorded, At, Idle,
      Bound
<1> QED
  BY <1>1, <1>2, <1>3, <1>4, <1>5, <1>6, <1>7, <1>8, <1>9, <1>10, <1>11, <1>12, <1>13,
     <1>14, <1>15, <1>16, <1>17 DEF Moves, Sweep, Settle, Start, Body

\* A sweep never gets a terminal-close control.
LEMMA ServesKept ==
  ASSUME TypeOK, Serving, NEW p \in Proc, Moves(p)
  PROVE  Serves(p)'
<1> USE DEF Live, Bound, WithConfig
<1>1. Serves(p) /\ me[p] \in Task /\ me \in [Proc -> Task]
  BY TaskTypes DEF Serving, TypeOK
<1>2. ASSUME me'[p] = Off PROVE Serves(p)'
  BY <1>2, OffOwesNothing
<1>3. ASSUME EnterRun(p) PROVE Serves(p)'
  BY <1>1, <1>2, <1>3, EndFields DEF EnterRun, Serves, Same, SameRun, At, Off
<1>4. ASSUME NEW r \in Run, SettleOne(p, r) PROVE Serves(p)'
  BY <1>1, <1>2, <1>4, EndFields DEF SettleOne, Serves, Same, SameRun, At
<1>5. ASSUME SweepDone(p) PROVE Serves(p)'
  BY <1>1, <1>2, <1>5, EndFields DEF SweepDone, Serves, Same, SameRun, At
<1>6. ASSUME ReopenMode(p) PROVE Serves(p)'
  <2>1. Exit(p) \/ me' = [me EXCEPT ![p] = [me[p] EXCEPT !.at = "retain", !.epoch = Fresh]]
    BY <1>6 DEF ReopenMode
  <2>2. me'[p] = Off \/ me'[p] = [me[p] EXCEPT !.at = "retain", !.epoch = Fresh]
    BY <1>1, <2>1, EndFields
  <2>3. CASE me'[p] = Off
    BY <1>2, <2>3
  <2>4. CASE me'[p] = [me[p] EXCEPT !.at = "retain", !.epoch = Fresh]
    <3>1. me'[p].at = "retain" /\ me'[p].by = me[p].by /\ me'[p].ctl = me[p].ctl
      BY <1>1, <2>4 DEF Task
    <3> QED  BY <1>1, <3>1 DEF Serves
  <2> QED  BY <2>2, <2>3, <2>4
<1>7. ASSUME ReopenLease(p) PROVE Serves(p)'
  BY <1>1, <1>2, <1>7, EndFields DEF ReopenLease, Serves, Same, SameRun, At
<1>8. ASSUME Readmit(p) PROVE Serves(p)'
  BY <1>1, <1>2, <1>8, EndFields DEF Readmit, Serves, Same, SameRun, At
<1>9. ASSUME Resolve(p) PROVE Serves(p)'
  BY <1>1, <1>2, <1>9, EndFields DEF Resolve, Serves, Same, SameRun, At
<1>10. ASSUME ReleaseRecovered(p) PROVE Serves(p)'
  BY <1>1, <1>2, <1>10, EndFields DEF ReleaseRecovered, Serves, Same, SameRun, At
<1>11. ASSUME AuthorizeRecovered(p) PROVE Serves(p)'
  <2>1. Exit(p) \/ me' = [me EXCEPT ![p] = [me[p] EXCEPT !.at = "dir", !.how = "final"]]
    BY <1>11 DEF AuthorizeRecovered
  <2>2. me'[p] = Off \/ me'[p] = [me[p] EXCEPT !.at = "dir", !.how = "final"]
    BY <1>1, <2>1, EndFields
  <2>3. CASE me'[p] = Off
    BY <1>2, <2>3
  <2>4. CASE me'[p] = [me[p] EXCEPT !.at = "dir", !.how = "final"]
    <3>1. me'[p].at = "dir" /\ me'[p].by = me[p].by /\ me'[p].ctl = me[p].ctl
      BY <1>1, <2>4 DEF Task
    <3> QED  BY <1>1, <3>1 DEF Serves
  <2> QED  BY <2>2, <2>3, <2>4
<1>12. ASSUME SettleDir(p) PROVE Serves(p)'
  BY <1>1, <1>2, <1>12, EndFields DEF SettleDir, Serves, Same, SameRun, At
<1>13. ASSUME ForgetDir(p) PROVE Serves(p)'
  BY <1>1, <1>2, <1>13, EndFields DEF ForgetDir, Serves, Same, SameRun, At
<1>14. ASSUME SettleConfig(p) PROVE Serves(p)'
  BY <1>1, <1>2, <1>14, EndFields DEF SettleConfig, Serves, Same, SameRun, At
<1>15. ASSUME ForgetConfig(p) PROVE Serves(p)'
  BY <1>1, <1>2, <1>15, EndFields DEF ForgetConfig, Serves, Same, SameRun, At
<1>16. ASSUME Prove(p) PROVE Serves(p)'
  BY <1>1, <1>2, <1>16, EndFields DEF Prove, Serves, Same, SameRun, At
<1>17. ASSUME CloseLease(p) PROVE Serves(p)'
  BY <1>1, <1>2, <1>17, EndFields DEF CloseLease, Serves, Same, SameRun, At
<1>18. ASSUME ReleaseMode(p) PROVE Serves(p)'
  <2>1. Exit(p) \/ NextLease(p)
    BY <1>18 DEF ReleaseMode
  <2>2. me'[p] = Off \/ (me[p].by = "sweep" /\ me'[p].at = "sweep" /\ Same(p))
    BY <2>1, EndFields
  <2> QED  BY <1>1, <1>2, <2>2 DEF Serves, Same, SameRun
<1>19. ASSUME NEW r \in Run, TakeMode(p, r) PROVE Serves(p)'
  BY <1>1, <1>2, <1>19, EndFields DEF TakeMode, Serves, Same, SameRun, At, Off
<1>20. ASSUME RecordLease(p) PROVE Serves(p)'
  BY <1>1, <1>2, <1>20, EndFields DEF RecordLease, Serves, Same, SameRun, At
<1>21. ASSUME PublishDirOrigin(p) PROVE Serves(p)'
  BY <1>1, <1>2, <1>21, EndFields DEF PublishDirOrigin, Serves, Same, SameRun, At
<1>22. ASSUME MakeDir(p) PROVE Serves(p)'
  BY <1>1, <1>2, <1>22, EndFields DEF MakeDir, Serves, Same, SameRun, At
<1>23. ASSUME BindDir(p) PROVE Serves(p)'
  BY <1>1, <1>2, <1>23, EndFields DEF BindDir, Serves, Same, SameRun, At
<1>24. ASSUME BeginBinding(p) PROVE Serves(p)'
  BY <1>1, <1>2, <1>24, EndFields DEF BeginBinding, Serves, Same, SameRun, At
<1>25. ASSUME BindLease(p) PROVE Serves(p)'
  BY <1>1, <1>2, <1>25, EndFields DEF BindLease, Serves, Same, SameRun, At
<1>26. ASSUME ArmBoundClose(p) PROVE Serves(p)'
  BY <1>1, <1>2, <1>26, EndFields DEF ArmBoundClose, Serves, Same, SameRun, At
<1>27. ASSUME PublishConfigOrigin(p) PROVE Serves(p)'
  BY <1>1, <1>2, <1>27, EndFields DEF PublishConfigOrigin, Serves, Same, SameRun, At
<1>28. ASSUME PublishConfig(p) PROVE Serves(p)'
  BY <1>1, <1>2, <1>28, EndFields DEF PublishConfig, Serves, Same, SameRun, At
<1>29. ASSUME BindConfig(p) PROVE Serves(p)'
  BY <1>1, <1>2, <1>29, EndFields DEF BindConfig, Serves, Same, SameRun, At
<1>30. ASSUME MoveMode(p) PROVE Serves(p)'
  BY <1>1, <1>2, <1>30, EndFields DEF MoveMode, Serves, Same, SameRun, At
<1>31. ASSUME MoveLease(p) PROVE Serves(p)'
  BY <1>1, <1>2, <1>31, EndFields DEF MoveLease, Serves, Same, SameRun, At
<1>32. ASSUME Reverse(p) PROVE Serves(p)'
  BY <1>1, <1>2, <1>32, EndFields DEF Reverse, Serves, Same, SameRun, At
<1>33. ASSUME Rearm(p) PROVE Serves(p)'
  BY <1>1, <1>2, <1>33, EndFields DEF Rearm, Serves, Same, SameRun, At
<1>34. ASSUME AuthorizeClose(p) PROVE Serves(p)'
  BY <1>1, <1>2, <1>34, EndFields DEF AuthorizeClose, Serves, Same, SameRun, At
<1>35. ASSUME MarkPending(p) PROVE Serves(p)'
  BY <1>1, <1>2, <1>35, EndFields DEF MarkPending, Serves, Same, SameRun, At
<1>36. ASSUME SettleClose(p) PROVE Serves(p)'
  BY <1>1, <1>2, <1>36, EndFields DEF SettleClose, Serves, Same, SameRun, At
<1>37. ASSUME EndBody(p) PROVE Serves(p)'
  BY <1>1, <1>2, <1>37, EndFields DEF EndBody, Serves, Same, SameRun, At, BeforeConfig
<1>38. ASSUME TakeRefused(p) \/ DataRootRefused(p) \/ Crash(p) PROVE Serves(p)'
  BY <1>2, <1>38, EndFields DEF TakeRefused, DataRootRefused, Crash
<1> QED
  BY <1>1, <1>2, <1>3, <1>4, <1>5, <1>6, <1>7, <1>8, <1>9, <1>10, <1>11, <1>12, <1>13,
     <1>14, <1>15, <1>16, <1>17, <1>18, <1>19, <1>20, <1>21, <1>22, <1>23, <1>24, <1>25,
     <1>26, <1>27, <1>28, <1>29, <1>30, <1>31, <1>32, <1>33, <1>34, <1>35, <1>36, <1>37,
     <1>38 DEF Moves, Sweep, Settle, Start, Body

-----------------------------------------------------------------------------
(* The process at work.                                                    *)

\* Whatever the process at work goes on to, it has done what that step relies on.
LEMMA OwesKept ==
  ASSUME TypeOK, Working, Serving, Holding, Fencing, Recording, Settling,
         NEW p \in Proc, Moves(p)
  PROVE  Holds(p)' /\ Fences(p)' /\ Records(p)' /\ Settles(p)'
<1> DEFINE Result == Holds(p)' /\ Fences(p)' /\ Records(p)' /\ Settles(p)'
<1> USE DEF Idle, Live, Bound, Reopening, Settlement
<1>1. /\ me[p] \in Task /\ me \in [Proc -> Task]
      /\ me[p].by \in {"sweep", "run", "body"}
      /\ lease \in [Holder -> Open \cup {"none", "closed"}] /\ Run \subseteq Holder
      /\ held \in [Run -> {"none", "acquired", "released"}]
      /\ dir \in [Run -> {"absent", "made", "foreign"}]
      /\ dirRec \in [Run -> {"none", "origin", "found", "managed"}]
      /\ cfgRec \in [Run -> {"none", "origin", "managed"}]
  BY TaskTypes DEF TypeOK, Task, Holder
<1>2. /\ WorksOn(p) /\ Serves(p) /\ Holds(p) /\ Fences(p) /\ Records(p) /\ Settles(p)
      /\ \A r \in Run : Fenced(r) /\ Recorded(r)
  BY DEF Working, Serving, Holding, Fencing, Recording, Settling
<1>3. ASSUME me'[p].at \in Idle PROVE Result
  BY <1>3 DEF Holds, Fences, Records, Settles, At
<1>4. ASSUME me'[p] = Off PROVE Result
  BY <1>4, OffOwesNothing
<1>5. ASSUME EnterRun(p) PROVE Result
  <2>1. me'[p].at = "sweep"
    BY <1>1, <1>5 DEF EnterRun, Off
  <2> QED  BY <1>3, <2>1
<1>6. ASSUME SweepDone(p) PROVE Result
  <2>1. Exit(p) \/ Go(p, "take")
    BY <1>6 DEF SweepDone
  <2>2. me'[p] = Off \/ me'[p].at = "take"
    BY <2>1, EndFields
  <2> QED  BY <1>3, <1>4, <2>2
<1>7. ASSUME ReleaseMode(p) PROVE Result
  <2>1. Exit(p) \/ NextLease(p)
    BY <1>7 DEF ReleaseMode
  <2>2. me'[p] = Off \/ me'[p].at = "sweep"
    BY <2>1, EndFields
  <2> QED  BY <1>3, <1>4, <2>2
<1>8. ASSUME NEW r \in Run, SettleOne(p, r) PROVE Result
  <2>1. Holds(p)' /\ Records(p)'
    BY <1>1, <1>2, <1>4, <1>8, EndFields
    DEF SettleOne, Same, SameRun, WorksOn, Serves, Holds, Records, At, leases, roots, config
  <2>2. Fences(p)'
    BY <1>1, <1>2, <1>4, <1>8, EndFields
    DEF SettleOne, Same, SameRun, WorksOn, Serves, Fences, Fenced, Quiet, At, leases,
        resources
  <2>3. Settles(p)'
    BY <1>1, <1>2, <1>4, <1>8, EndFields
    DEF SettleOne, Same, SameRun, WorksOn, Serves, Settles, Recorded, At, leases, roots,
        config
  <2> QED  BY <2>1, <2>2, <2>3
<1>9. ASSUME ReopenMode(p) PROVE Result
  <2>1. Exit(p) \/ (me' = [me EXCEPT ![p] = [me[p] EXCEPT !.at = "retain", !.epoch = Fresh]])
    BY <1>9 DEF ReopenMode
  <2>2. CASE Exit(p)
    BY <1>4, <2>2, EndFields
  <2>3. CASE me' = [me EXCEPT ![p] = [me[p] EXCEPT !.at = "retain", !.epoch = Fresh]]
    <3>1. me'[p].at = "retain" /\ Same(p)
      BY <1>1, <2>3 DEF Task, Same, SameRun
    <3>2. /\ me[p].at = "reopen"
          /\ UNCHANGED <<lease, closing, held, forward, dir, dirRec, file, cfgRec>>
      BY <1>9 DEF ReopenMode, At, leases, resources, roots, config
    <3> QED
      BY <1>2, <2>3, <3>1, <3>2
      DEF SameRun, Same, WorksOn, Holds, Records, Fences, Settles, At
  <2> QED  BY <2>1, <2>2, <2>3
<1>10. ASSUME ReopenLease(p) PROVE Result
  <2>1. Holds(p)' /\ Records(p)'
    BY <1>1, <1>2, <1>4, <1>10, EndFields
    DEF ReopenLease, Same, SameRun, WorksOn, Serves, Holds, Records, At, leases, roots,
        config
  <2>2. Fences(p)'
    BY <1>1, <1>2, <1>4, <1>10, EndFields
    DEF ReopenLease, Same, SameRun, WorksOn, Serves, Fences, Fenced, Quiet, At, leases,
        resources
  <2>3. Settles(p)'
    BY <1>1, <1>2, <1>4, <1>10, EndFields
    DEF ReopenLease, Same, SameRun, WorksOn, Serves, Settles, Recorded, At, leases, roots,
        config
  <2> QED  BY <2>1, <2>2, <2>3
<1>11. ASSUME Readmit(p) PROVE Result
  <2>1. Holds(p)' /\ Records(p)'
    BY <1>1, <1>2, <1>4, <1>11, EndFields
    DEF Readmit, Same, SameRun, WorksOn, Serves, Holds, Records, At, leases, roots, config
  <2>2. Fences(p)'
    BY <1>1, <1>2, <1>4, <1>11, EndFields
    DEF Readmit, Same, SameRun, WorksOn, Serves, Fences, Fenced, Quiet, At, leases,
        resources
  <2>3. Settles(p)'
    BY <1>1, <1>2, <1>4, <1>11, EndFields
    DEF Readmit, Same, SameRun, WorksOn, Serves, Settles, Recorded, At, leases, roots,
        config
  <2> QED  BY <2>1, <2>2, <2>3
<1>12. ASSUME Resolve(p) PROVE Result
  <2>1. Holds(p)' /\ Records(p)'
    BY <1>1, <1>2, <1>4, <1>12, EndFields
    DEF Resolve, Same, SameRun, WorksOn, Serves, Holds, Records, At, leases, roots, config
  <2>2. Fences(p)'
    BY <1>1, <1>2, <1>4, <1>12, EndFields
    DEF Resolve, Same, SameRun, WorksOn, Serves, Fences, Fenced, Quiet, At, leases,
        resources
  <2>3. Settles(p)'
    BY <1>1, <1>2, <1>4, <1>12, EndFields
    DEF Resolve, Same, SameRun, WorksOn, Serves, Settles, Recorded, At, leases, roots,
        config
  <2> QED  BY <2>1, <2>2, <2>3
<1>13. ASSUME ReleaseRecovered(p) PROVE Result
  <2>1. Holds(p)' /\ Records(p)'
    BY <1>1, <1>2, <1>4, <1>13, EndFields
    DEF ReleaseRecovered, Same, SameRun, WorksOn, Serves, Holds, Records, At, leases, roots,
        config
  <2>2. Fences(p)'
    BY <1>1, <1>2, <1>4, <1>13, EndFields
    DEF ReleaseRecovered, Same, SameRun, WorksOn, Serves, Fences, Fenced, Quiet, At, leases,
        resources
  <2>3. Settles(p)'
    BY <1>1, <1>2, <1>4, <1>13, EndFields
    DEF ReleaseRecovered, Same, SameRun, WorksOn, Serves, Settles, Recorded, At, leases,
        roots, config
  <2> QED  BY <2>1, <2>2, <2>3
<1>14. ASSUME AuthorizeRecovered(p) PROVE Result
  <2>1. Exit(p) \/ (closing' = closing \cup {me[p].on} /\ 
                    me' = [me EXCEPT ![p] = [me[p] EXCEPT !.at = "dir", !.how = "final"]])
    BY <1>14 DEF AuthorizeRecovered
  <2>2. CASE Exit(p)
    BY <1>4, <2>2, EndFields
  <2>3. CASE closing' = closing \cup {me[p].on} /\ 
             me' = [me EXCEPT ![p] = [me[p] EXCEPT !.at = "dir", !.how = "final"]]
    <3>1. me'[p].at = "dir" /\ me'[p].how = "final" /\ me'[p].on = me[p].on
      BY <1>1, <2>3 DEF Task, Same, SameRun
    <3>2. me[p].at = "settled" /\ UNCHANGED <<lease, held, forward, dir, dirRec, file, cfgRec>>
      BY <1>14 DEF AuthorizeRecovered, At, leases, resources, roots, config
    <3> QED
      BY <1>2, <2>3, <3>1, <3>2
      DEF SameRun, Same, WorksOn, Holds, Records, Fences, Settles, At
  <2> QED  BY <2>1, <2>2, <2>3
<1>15. ASSUME SettleDir(p) PROVE Result
  <2>1. Holds(p)' /\ Records(p)'
    BY <1>1, <1>2, <1>4, <1>15, EndFields
    DEF SettleDir, Same, SameRun, WorksOn, Serves, Holds, Records, At, Recorded, leases,
        roots, config
  <2>2. Fences(p)'
    BY <1>1, <1>2, <1>4, <1>15, EndFields
    DEF SettleDir, Same, SameRun, WorksOn, Serves, Fences, Fenced, Quiet, At, leases,
        resources
  <2>3. Settles(p)'
    BY <1>1, <1>2, <1>4, <1>15, EndFields
    DEF SettleDir, Same, SameRun, WorksOn, Serves, Settles, Recorded, At, leases, roots,
        config
  <2> QED  BY <2>1, <2>2, <2>3
<1>16. ASSUME ForgetDir(p) PROVE Result
  <2>1. Holds(p)' /\ Records(p)'
    BY <1>1, <1>2, <1>4, <1>16, EndFields
    DEF ForgetDir, Same, SameRun, WorksOn, Serves, Holds, Records, At, leases, roots, config
  <2>2. Fences(p)'
    BY <1>1, <1>2, <1>4, <1>16, EndFields
    DEF ForgetDir, Same, SameRun, WorksOn, Serves, Fences, Fenced, Quiet, At, leases,
        resources
  <2>3. Settles(p)'
    BY <1>1, <1>2, <1>4, <1>16, EndFields
    DEF ForgetDir, Same, SameRun, WorksOn, Serves, Settles, Recorded, At, leases, roots,
        config
  <2> QED  BY <2>1, <2>2, <2>3
<1>17. ASSUME SettleConfig(p) PROVE Result
  <2>1. Holds(p)' /\ Records(p)'
    BY <1>1, <1>2, <1>4, <1>17, EndFields
    DEF SettleConfig, Same, SameRun, WorksOn, Serves, Holds, Records, At, leases, roots,
        config
  <2>2. Fences(p)'
    BY <1>1, <1>2, <1>4, <1>17, EndFields
    DEF SettleConfig, Same, SameRun, WorksOn, Serves, Fences, Fenced, Quiet, At, leases,
        resources
  <2>3. Settles(p)'
    BY <1>1, <1>2, <1>4, <1>17, EndFields, NamesAssumption
    DEF SettleConfig, Same, SameRun, WorksOn, Serves, Settles, Recorded, At, NoFile,
        Installed, leases, roots, config
  <2> QED  BY <2>1, <2>2, <2>3
<1>18. ASSUME ForgetConfig(p) PROVE Result
  <2>1. Holds(p)' /\ Records(p)'
    BY <1>1, <1>2, <1>4, <1>18, EndFields
    DEF ForgetConfig, Same, SameRun, WorksOn, Serves, Holds, Records, At, leases, roots,
        config
  <2>2. Fences(p)'
    BY <1>1, <1>2, <1>4, <1>18, EndFields
    DEF ForgetConfig, Same, SameRun, WorksOn, Serves, Fences, Fenced, Quiet, At, leases,
        resources
  <2>3. Settles(p)'
    BY <1>1, <1>2, <1>4, <1>18, EndFields
    DEF ForgetConfig, Same, SameRun, WorksOn, Serves, Settles, Recorded, At, leases, roots,
        config
  <2> QED  BY <2>1, <2>2, <2>3
<1>19. ASSUME Prove(p) PROVE Result
  <2>1. Holds(p)' /\ Records(p)'
    BY <1>1, <1>2, <1>4, <1>19, EndFields
    DEF Prove, Same, SameRun, WorksOn, Serves, Holds, Records, At, leases, roots, config
  <2>2. Fences(p)'
    BY <1>1, <1>2, <1>4, <1>19, EndFields
    DEF Prove, Same, SameRun, WorksOn, Serves, Fences, Fenced, Quiet, At, leases, resources
  <2>3. Settles(p)'
    BY <1>1, <1>2, <1>4, <1>19, EndFields
    DEF Prove, Same, SameRun, WorksOn, Serves, Settles, Recorded, At, leases, roots, config
  <2> QED  BY <2>1, <2>2, <2>3
<1>20. ASSUME CloseLease(p) PROVE Result
  <2>1. Holds(p)' /\ Records(p)'
    BY <1>1, <1>2, <1>4, <1>20, EndFields
    DEF CloseLease, Same, SameRun, WorksOn, Serves, Holds, Records, At, leases, roots,
        config
  <2>2. Fences(p)'
    BY <1>1, <1>2, <1>4, <1>20, EndFields
    DEF CloseLease, Same, SameRun, WorksOn, Serves, Fences, Fenced, Quiet, At, leases,
        resources
  <2>3. Settles(p)'
    BY <1>1, <1>2, <1>4, <1>20, EndFields
    DEF CloseLease, Same, SameRun, WorksOn, Serves, Settles, Recorded, At, leases, roots,
        config
  <2> QED  BY <2>1, <2>2, <2>3
<1>21. ASSUME NEW r \in Run, TakeMode(p, r) PROVE Result
  <2>1. Holds(p)' /\ Records(p)'
    BY <1>1, <1>2, <1>4, <1>21, EndFields
    DEF TakeMode, Same, SameRun, WorksOn, Serves, Holds, Records, At, Untaken, Off, Serves,
        leases, roots, config
  <2>2. Fences(p)'
    BY <1>1, <1>2, <1>4, <1>21, EndFields
    DEF TakeMode, Same, SameRun, WorksOn, Serves, Fences, Fenced, Quiet, At, Untaken, Off,
        Serves, leases, resources
  <2>3. Settles(p)'
    BY <1>1, <1>2, <1>4, <1>21, EndFields
    DEF TakeMode, Same, SameRun, WorksOn, Serves, Settles, Recorded, At, Untaken, Off,
        Serves, leases, roots, config
  <2> QED  BY <2>1, <2>2, <2>3
<1>22. ASSUME RecordLease(p) PROVE Result
  <2>1. Holds(p)' /\ Records(p)'
    BY <1>1, <1>2, <1>4, <1>22, EndFields
    DEF RecordLease, Same, SameRun, WorksOn, Serves, Holds, Records, At, Recorded, leases,
        roots, config
  <2>2. Fences(p)'
    BY <1>1, <1>2, <1>4, <1>22, EndFields
    DEF RecordLease, Same, SameRun, WorksOn, Serves, Fences, Fenced, Quiet, At, leases,
        resources
  <2>3. Settles(p)'
    BY <1>1, <1>2, <1>4, <1>22, EndFields
    DEF RecordLease, Same, SameRun, WorksOn, Serves, Settles, Recorded, At, leases, roots,
        config
  <2> QED  BY <2>1, <2>2, <2>3
<1>23. ASSUME PublishDirOrigin(p) PROVE Result
  <2>1. Holds(p)' /\ Records(p)'
    BY <1>1, <1>2, <1>4, <1>23, EndFields
    DEF PublishDirOrigin, Same, SameRun, WorksOn, Serves, Holds, Records, At, leases, roots,
        config
  <2>2. Fences(p)'
    BY <1>1, <1>2, <1>4, <1>23, EndFields
    DEF PublishDirOrigin, Same, SameRun, WorksOn, Serves, Fences, Fenced, Quiet, At, leases,
        resources
  <2>3. Settles(p)'
    BY <1>1, <1>2, <1>4, <1>23, EndFields
    DEF PublishDirOrigin, Same, SameRun, WorksOn, Serves, Settles, Recorded, At, leases,
        roots, config
  <2> QED  BY <2>1, <2>2, <2>3
<1>24. ASSUME MakeDir(p) PROVE Result
  <2>1. Holds(p)' /\ Records(p)'
    BY <1>1, <1>2, <1>4, <1>24, EndFields
    DEF MakeDir, Same, SameRun, WorksOn, Serves, Holds, Records, At, leases, roots, config
  <2>2. Fences(p)'
    BY <1>1, <1>2, <1>4, <1>24, EndFields
    DEF MakeDir, Same, SameRun, WorksOn, Serves, Fences, Fenced, Quiet, At, leases,
        resources
  <2>3. Settles(p)'
    BY <1>1, <1>2, <1>4, <1>24, EndFields
    DEF MakeDir, Same, SameRun, WorksOn, Serves, Settles, Recorded, At, leases, roots,
        config
  <2> QED  BY <2>1, <2>2, <2>3
<1>25. ASSUME BindDir(p) PROVE Result
  <2>1. Holds(p)' /\ Records(p)'
    BY <1>1, <1>2, <1>4, <1>25, EndFields
    DEF BindDir, Same, SameRun, WorksOn, Serves, Holds, Records, At, leases, roots, config
  <2>2. Fences(p)'
    BY <1>1, <1>2, <1>4, <1>25, EndFields
    DEF BindDir, Same, SameRun, WorksOn, Serves, Fences, Fenced, Quiet, At, leases,
        resources
  <2>3. Settles(p)'
    BY <1>1, <1>2, <1>4, <1>25, EndFields
    DEF BindDir, Same, SameRun, WorksOn, Serves, Settles, Recorded, At, leases, roots,
        config
  <2> QED  BY <2>1, <2>2, <2>3
<1>26. ASSUME BeginBinding(p) PROVE Result
  <2>1. Holds(p)' /\ Records(p)'
    BY <1>1, <1>2, <1>4, <1>26, EndFields
    DEF BeginBinding, Same, SameRun, WorksOn, Serves, Holds, Records, At, leases, roots,
        config
  <2>2. Fences(p)'
    BY <1>1, <1>2, <1>4, <1>26, EndFields
    DEF BeginBinding, Same, SameRun, WorksOn, Serves, Fences, Fenced, Quiet, At, leases,
        resources
  <2>3. Settles(p)'
    BY <1>1, <1>2, <1>4, <1>26, EndFields
    DEF BeginBinding, Same, SameRun, WorksOn, Serves, Settles, Recorded, At, leases, roots,
        config
  <2> QED  BY <2>1, <2>2, <2>3
<1>27. ASSUME BindLease(p) PROVE Result
  <2>1. Holds(p)' /\ Records(p)'
    BY <1>1, <1>2, <1>4, <1>27, EndFields
    DEF BindLease, Same, SameRun, WorksOn, Serves, Holds, Records, At, leases, roots, config
  <2>2. Fences(p)'
    BY <1>1, <1>2, <1>4, <1>27, EndFields
    DEF BindLease, Same, SameRun, WorksOn, Serves, Fences, Fenced, Quiet, At, leases,
        resources
  <2>3. Settles(p)'
    BY <1>1, <1>2, <1>4, <1>27, EndFields
    DEF BindLease, Same, SameRun, WorksOn, Serves, Settles, Recorded, At, leases, roots,
        config
  <2> QED  BY <2>1, <2>2, <2>3
<1>28. ASSUME ArmBoundClose(p) PROVE Result
  <2>1. Holds(p)' /\ Records(p)'
    BY <1>1, <1>2, <1>4, <1>28, EndFields
    DEF ArmBoundClose, Same, SameRun, WorksOn, Serves, Holds, Records, At, leases, roots,
        config
  <2>2. Fences(p)'
    BY <1>1, <1>2, <1>4, <1>28, EndFields
    DEF ArmBoundClose, Same, SameRun, WorksOn, Serves, Fences, Fenced, Quiet, At, leases,
        resources
  <2>3. Settles(p)'
    BY <1>1, <1>2, <1>4, <1>28, EndFields
    DEF ArmBoundClose, Same, SameRun, WorksOn, Serves, Settles, Recorded, At, leases, roots,
        config
  <2> QED  BY <2>1, <2>2, <2>3
<1>29. ASSUME PublishConfigOrigin(p) PROVE Result
  <2>1. Holds(p)' /\ Records(p)'
    BY <1>1, <1>2, <1>4, <1>29, EndFields
    DEF PublishConfigOrigin, Same, SameRun, WorksOn, Serves, Holds, Records, At, leases,
        roots, config
  <2>2. Fences(p)'
    BY <1>1, <1>2, <1>4, <1>29, EndFields
    DEF PublishConfigOrigin, Same, SameRun, WorksOn, Serves, Fences, Fenced, Quiet, At,
        leases, resources
  <2>3. Settles(p)'
    BY <1>1, <1>2, <1>4, <1>29, EndFields
    DEF PublishConfigOrigin, Same, SameRun, WorksOn, Serves, Settles, Recorded, At, leases,
        roots, config
  <2> QED  BY <2>1, <2>2, <2>3
<1>30. ASSUME PublishConfig(p) PROVE Result
  <2>1. Holds(p)' /\ Records(p)'
    BY <1>1, <1>2, <1>4, <1>30, EndFields
    DEF PublishConfig, Same, SameRun, WorksOn, Serves, Holds, Records, At, leases, roots,
        config
  <2>2. Fences(p)'
    BY <1>1, <1>2, <1>4, <1>30, EndFields
    DEF PublishConfig, Same, SameRun, WorksOn, Serves, Fences, Fenced, Quiet, At, leases,
        resources
  <2>3. Settles(p)'
    BY <1>1, <1>2, <1>4, <1>30, EndFields
    DEF PublishConfig, Same, SameRun, WorksOn, Serves, Settles, Recorded, At, leases, roots,
        config
  <2> QED  BY <2>1, <2>2, <2>3
<1>31. ASSUME BindConfig(p) PROVE Result
  <2>1. Holds(p)' /\ Records(p)'
    BY <1>1, <1>2, <1>4, <1>31, EndFields
    DEF BindConfig, Same, SameRun, WorksOn, Serves, Holds, Records, At, leases, roots,
        config
  <2>2. Fences(p)'
    BY <1>1, <1>2, <1>4, <1>31, EndFields
    DEF BindConfig, Same, SameRun, WorksOn, Serves, Fences, Fenced, Quiet, At, leases,
        resources
  <2>3. Settles(p)'
    BY <1>1, <1>2, <1>4, <1>31, EndFields
    DEF BindConfig, Same, SameRun, WorksOn, Serves, Settles, Recorded, At, leases, roots,
        config
  <2> QED  BY <2>1, <2>2, <2>3
<1>32. ASSUME MoveMode(p) PROVE Result
  <2>1. Holds(p)' /\ Records(p)'
    BY <1>1, <1>2, <1>4, <1>32, EndFields
    DEF MoveMode, Same, SameRun, WorksOn, Serves, Holds, Records, At, leases, roots, config
  <2>2. Fences(p)'
    BY <1>1, <1>2, <1>4, <1>32, EndFields
    DEF MoveMode, Same, SameRun, WorksOn, Serves, Fences, Fenced, Quiet, At, leases,
        resources
  <2>3. Settles(p)'
    BY <1>1, <1>2, <1>4, <1>32, EndFields
    DEF MoveMode, Same, SameRun, WorksOn, Serves, Settles, Recorded, At, leases, roots,
        config
  <2> QED  BY <2>1, <2>2, <2>3
<1>33. ASSUME MoveLease(p) PROVE Result
  <2>1. Holds(p)' /\ Records(p)'
    BY <1>1, <1>2, <1>4, <1>33, EndFields
    DEF MoveLease, Same, SameRun, WorksOn, Serves, Holds, Records, At, leases, roots, config
  <2>2. Fences(p)'
    BY <1>1, <1>2, <1>4, <1>33, EndFields
    DEF MoveLease, Same, SameRun, WorksOn, Serves, Fences, Fenced, Quiet, At, leases,
        resources
  <2>3. Settles(p)'
    BY <1>1, <1>2, <1>4, <1>33, EndFields
    DEF MoveLease, Same, SameRun, WorksOn, Serves, Settles, Recorded, At, leases, roots,
        config
  <2> QED  BY <2>1, <2>2, <2>3
<1>34. ASSUME Reverse(p) PROVE Result
  <2>1. Holds(p)' /\ Records(p)'
    BY <1>1, <1>2, <1>4, <1>34, EndFields
    DEF Reverse, Same, SameRun, WorksOn, Serves, Holds, Records, At, leases, roots, config
  <2>2. Fences(p)'
    BY <1>1, <1>2, <1>4, <1>34, EndFields
    DEF Reverse, Same, SameRun, WorksOn, Serves, Fences, Fenced, Quiet, At, leases,
        resources
  <2>3. Settles(p)'
    BY <1>1, <1>2, <1>4, <1>34, EndFields
    DEF Reverse, Same, SameRun, WorksOn, Serves, Settles, Recorded, At, leases, roots,
        config
  <2> QED  BY <2>1, <2>2, <2>3
<1>35. ASSUME Rearm(p) PROVE Result
  <2>1. Holds(p)' /\ Records(p)'
    BY <1>1, <1>2, <1>4, <1>35, EndFields
    DEF Rearm, Same, SameRun, WorksOn, Serves, Holds, Records, At, leases, roots, config
  <2>2. Fences(p)'
    BY <1>1, <1>2, <1>4, <1>35, EndFields
    DEF Rearm, Same, SameRun, WorksOn, Serves, Fences, Fenced, Quiet, At, leases, resources
  <2>3. Settles(p)'
    BY <1>1, <1>2, <1>4, <1>35, EndFields
    DEF Rearm, Same, SameRun, WorksOn, Serves, Settles, Recorded, At, leases, roots, config
  <2> QED  BY <2>1, <2>2, <2>3
<1>36. ASSUME AuthorizeClose(p) PROVE Result
  <2>1. Holds(p)' /\ Records(p)'
    BY <1>1, <1>2, <1>4, <1>36, EndFields
    DEF AuthorizeClose, Same, SameRun, WorksOn, Serves, Holds, Records, At, leases, roots,
        config
  <2>2. Fences(p)'
    BY <1>1, <1>2, <1>4, <1>36, EndFields
    DEF AuthorizeClose, Same, SameRun, WorksOn, Serves, Fences, Fenced, Quiet, At, leases,
        resources
  <2>3. Settles(p)'
    BY <1>1, <1>2, <1>4, <1>36, EndFields
    DEF AuthorizeClose, Same, SameRun, WorksOn, Serves, Settles, Recorded, At, leases,
        roots, config
  <2> QED  BY <2>1, <2>2, <2>3
<1>37. ASSUME MarkPending(p) PROVE Result
  <2>1. Holds(p)' /\ Records(p)'
    BY <1>1, <1>2, <1>4, <1>37, EndFields
    DEF MarkPending, Same, SameRun, WorksOn, Serves, Holds, Records, At, leases, roots,
        config
  <2>2. Fences(p)'
    BY <1>1, <1>2, <1>4, <1>37, EndFields
    DEF MarkPending, Same, SameRun, WorksOn, Serves, Fences, Fenced, Quiet, At, leases,
        resources
  <2>3. Settles(p)'
    BY <1>1, <1>2, <1>4, <1>37, EndFields
    DEF MarkPending, Same, SameRun, WorksOn, Serves, Settles, Recorded, At, leases, roots,
        config
  <2> QED  BY <2>1, <2>2, <2>3
<1>38. ASSUME SettleClose(p) PROVE Result
  <2>1. Holds(p)' /\ Records(p)'
    BY <1>1, <1>2, <1>4, <1>38, EndFields
    DEF SettleClose, Same, SameRun, WorksOn, Serves, Holds, Records, At, leases, roots,
        config
  <2>2. Fences(p)'
    BY <1>1, <1>2, <1>4, <1>38, EndFields
    DEF SettleClose, Same, SameRun, WorksOn, Serves, Fences, Fenced, Quiet, At, leases,
        resources
  <2>3. Settles(p)'
    BY <1>1, <1>2, <1>4, <1>38, EndFields
    DEF SettleClose, Same, SameRun, WorksOn, Serves, Settles, Recorded, At, leases, roots,
        config
  <2> QED  BY <2>1, <2>2, <2>3
<1>39. ASSUME EndBody(p) PROVE Result
  <2>1. Holds(p)' /\ Records(p)'
    BY <1>1, <1>2, <1>4, <1>39, EndFields
    DEF EndBody, Same, SameRun, WorksOn, Serves, Holds, Records, At, BeforeConfig,
        WithConfig, leases, roots, config
  <2>2. Fences(p)'
    BY <1>1, <1>2, <1>4, <1>39, EndFields
    DEF EndBody, Same, SameRun, WorksOn, Serves, Fences, Fenced, Quiet, At, BeforeConfig,
        WithConfig, leases, resources
  <2>3. Settles(p)'
    BY <1>1, <1>2, <1>4, <1>39, EndFields
    DEF EndBody, Same, SameRun, WorksOn, Serves, Settles, Recorded, At, BeforeConfig,
        WithConfig, leases, roots, config
  <2> QED  BY <2>1, <2>2, <2>3
<1>40. ASSUME TakeRefused(p) \/ DataRootRefused(p) \/ Crash(p) PROVE Result
  BY <1>4, <1>40, EndFields DEF TakeRefused, DataRootRefused, Crash
<1> QED
  BY <1>1, <1>2, <1>3, <1>4, <1>5, <1>6, <1>7, <1>8, <1>9, <1>10, <1>11, <1>12, <1>13,
     <1>14, <1>15, <1>16, <1>17, <1>18, <1>19, <1>20, <1>21, <1>22, <1>23, <1>24, <1>25,
     <1>26, <1>27, <1>28, <1>29, <1>30, <1>31, <1>32, <1>33, <1>34, <1>35, <1>36, <1>37,
     <1>38, <1>39, <1>40 DEF Moves, Sweep, Settle, Start, Body

-----------------------------------------------------------------------------
(* Forward work, Production and the operator.                              *)

\* Forward work that outlives its body disturbs no settlement: what is settled
\* has no permit.
LEMMA ForwardWorkKeeps ==
  ASSUME HarnessInvariant, NEW r \in Run, Acquire(r) \/ EndSession(r)
  PROVE  /\ Alone' /\ Working' /\ Serving' /\ Holding'
         /\ Fencing' /\ Recording' /\ Settling'
<1>1. /\ UNCHANGED <<mode, lease, closing, forward, dir, dirRec, file, cfgRec, me>>
      /\ held' \in {held, [held EXCEPT ![r] = "acquired"]}
      /\ busy' \subseteq busy \cup {r} /\ r \in forward
      /\ held \in [Run -> {"none", "acquired", "released"}]
  BY DEF Acquire, EndSession, hold, leases, roots, config, HarnessInvariant, TypeOK
<1>2. Alone' /\ Working' /\ Serving' /\ Holding' /\ Recording' /\ Settling'
  BY <1>1
  DEF HarnessInvariant, Alone, Working, WorksOn, Serving, Serves, Holding, OpenLeaseHoldsMode,
      Holds, Recording, Recorded, Records, Settling, Settles, At
<1>3. \A x \in Run : Fenced(x)'
  BY <1>1 DEF HarnessInvariant, Fencing, Fenced, Quiet
<1>4. \A p \in Proc : Fences(p)'
  <2> TAKE p \in Proc
  <2>1. Fences(p) /\ WorksOn(p)
    BY DEF HarnessInvariant, Fencing, Working
  <2>2. \A x \in Run : x \notin forward => held'[x] = held[x]
    BY <1>1
  <2> QED
    BY <1>1, <2>1, <2>2 DEF Fences, Quiet, WorksOn, Idle, Live, Bound
<1> QED  BY <1>2, <1>3, <1>4 DEF Fencing

\* A Production invocation takes the mode when no run has it, and gives up its own.
LEMMA ProductionKeeps ==
  ASSUME HarnessInvariant, ProductionTakes \/ ProductionCloses
  PROVE  /\ Alone' /\ Working' /\ Serving' /\ Holding'
         /\ Fencing' /\ Recording' /\ Settling'
<1>1. /\ UNCHANGED <<closing, held, busy, forward, dir, dirRec, file, cfgRec, me>>
      /\ ~Entered
  BY DEF ProductionTakes, ProductionCloses, resources, roots, config
<1>2. \A x \in Run : lease'[x] = lease[x]
  BY NamesAssumption DEF ProductionTakes, ProductionCloses, HarnessInvariant, TypeOK, Holder
<1>3. Run \subseteq Holder /\ Production \in Holder /\ Nobody \notin Holder
      /\ lease \in [Holder -> Open \cup {"none", "closed"}]
  BY NamesAssumption DEF Holder, HarnessInvariant, TypeOK
<1>4. OpenLeaseHoldsMode'
  <2>1. OpenLeaseHoldsMode
    BY DEF HarnessInvariant, Holding
  <2>2. CASE ProductionTakes
    BY <1>3, <2>1, <2>2 DEF ProductionTakes, OpenLeaseHoldsMode, hold
  <2>3. CASE ProductionCloses
    BY <1>3, <2>1, <2>3 DEF ProductionCloses, OpenLeaseHoldsMode, Open, hold
  <2> QED  BY <2>2, <2>3
<1>5. \A p \in Proc : WorksOn(p)'
  BY <1>1, <1>2, TaskTypes
  DEF HarnessInvariant, Working, WorksOn, Task, Idle, Bound
<1>6. \A p \in Proc : Holds(p)'
  <2> TAKE p \in Proc
  <2>1. ~At(p, "record") /\ ~At(p, "release")
    BY <1>1 DEF Entered, MidEntry, At
  <2> QED  BY <1>1, <2>1 DEF Holds, At
<1>7. Alone' /\ Serving' /\ \A p \in Proc : Fences(p)' /\ Records(p)'
  BY <1>1
  DEF HarnessInvariant, Alone, Serving, Serves, Fencing, Fences, Quiet, Recording, Records, At
<1>8. \A p \in Proc : Settles(p)'
  <2> TAKE p \in Proc
  <2>1. Settles(p) /\ WorksOn(p)
    BY DEF HarnessInvariant, Settling, Working
  <2> QED  BY <1>1, <1>2, <2>1 DEF Settles, WorksOn, Idle, Settlement
<1>9. \A x \in Run : Fenced(x)' /\ Recorded(x)'
  BY <1>1, <1>2 DEF HarnessInvariant, Fencing, Fenced, Quiet, Recording, Recorded
<1> QED
  BY <1>4, <1>5, <1>6, <1>7, <1>8, <1>9 DEF Working, Holding, Fencing, Recording, Settling

\* The operator writes no file and makes no directory that is a run's.
LEMMA OperatorKeeps ==
  ASSUME HarnessInvariant, OperatorActs
  PROVE  /\ Alone' /\ Working' /\ Serving' /\ Holding'
         /\ Fencing' /\ Recording' /\ Settling'
<1>1. UNCHANGED <<mode, lease, closing, held, busy, forward, dirRec, cfgRec, me>>
  BY DEF OperatorActs, hold, leases, resources
<1>2. \A x \in Run : (dir'[x] = dir[x] \/ dir'[x] = "absent")
  BY DEF OperatorActs, HarnessInvariant, TypeOK
<1>3. \A x \in Run : file'.by = x => file.by = x
  BY NamesAssumption DEF OperatorActs, HarnessInvariant, TypeOK, NoFile
<1>4. Alone' /\ Working' /\ Serving' /\ Holding' /\ Fencing'
  BY <1>1
  DEF HarnessInvariant, Alone, Working, WorksOn, Serving, Serves, Holding, OpenLeaseHoldsMode,
      Holds, Fencing, Fenced, Fences, Quiet, At
<1>5. \A x \in Run : Recorded(x)'
  BY <1>1, <1>2, <1>3 DEF HarnessInvariant, Recording, Recorded
<1>6. \A p \in Proc : Records(p)' /\ Settles(p)'
  <2> TAKE p \in Proc
  <2>1. Records(p) /\ Settles(p) /\ WorksOn(p)
    BY DEF HarnessInvariant, Recording, Settling, Working
  <2> QED
    BY <1>1, <1>2, <1>3, <2>1 DEF Records, Settles, WorksOn, Idle, Settlement
<1> QED  BY <1>4, <1>5, <1>6 DEF Recording, Settling

-----------------------------------------------------------------------------
(* The inductive invariant.                                                *)

\* The initial state: no process is at work, and nothing is recorded.
LEMMA InitHarness == Init => HarnessInvariant
<1> SUFFICES ASSUME Init PROVE HarnessInvariant
  OBVIOUS
<1>1. TypeOK
  BY InitTypes
<1>2. \A p \in Proc : me[p] = Off
  BY DEF Init
<1>3. /\ Off.at = "off" /\ Off.todo = {} /\ Off.how = "short" /\ Off.ctl = "unbound"
  BY DEF Off
<1>4. /\ \A p \in Proc : /\ WorksOn(p) /\ Serves(p) /\ Holds(p)
                         /\ Fences(p) /\ Records(p) /\ Settles(p)
      /\ Alone
  BY <1>2, <1>3
  DEF WorksOn, Serves, Holds, Fences, Records, Settles, Alone, At, Idle, Live, Bound, WithConfig
<1>5. OpenLeaseHoldsMode
  BY DEF Init, OpenLeaseHoldsMode, Open
<1>6. \A r \in Run : Fenced(r) /\ Recorded(r)
  BY NamesAssumption DEF Init, Fenced, Recorded, NoFile
<1> QED
  BY <1>1, <1>4, <1>5, <1>6
  DEF HarnessInvariant, Working, Serving, Holding, Fencing, Recording, Settling

\* A step of a process keeps the invariant: its own part by what it has done, the
\* others' because they are off.
LEMMA ProcessKeeps ==
  ASSUME HarnessInvariant, TypeOK', NEW p \in Proc, Moves(p)
  PROVE  HarnessInvariant'
<1>1. /\ TypeOK /\ Alone /\ Working /\ Serving /\ Holding /\ Fencing /\ Recording /\ Settling
  BY DEF HarnessInvariant
<1>2. Alone' /\ (~At(p, "off") \/ Lockable => \A q \in Proc \ {p} : me'[q] = Off)
  BY <1>1, AloneKept
<1>3. /\ WorksOn(p)' /\ Serves(p)' /\ Holds(p)' /\ Fences(p)' /\ Records(p)' /\ Settles(p)'
      /\ OpenLeaseHoldsMode' /\ \A r \in Run : Fenced(r)' /\ Recorded(r)'
  BY <1>1, WorksOnKept, ServesKept, OwesKept, LeaseHoldsModeKept, FencedKept, RecordedKept
<1>4. CASE ~At(p, "off") \/ Lockable
  <2>1. \A q \in Proc \ {p} : /\ WorksOn(q)' /\ Serves(q)' /\ Holds(q)'
                              /\ Fences(q)' /\ Records(q)' /\ Settles(q)'
    BY <1>2, <1>4, OffOwesNothing
  <2> QED
    BY <1>2, <1>3, <2>1
    DEF HarnessInvariant, Working, Serving, Holding, Fencing, Recording, Settling
<1>5. CASE At(p, "off") /\ ~Lockable
  <2>1. UNCHANGED <<mode, lease, closing, held, busy, forward, dir, dirRec, file, cfgRec, me>>
    <3>1. Crash(p)
      BY <1>1, <1>5, OneMoves
    <3> QED
      BY <1>1, <1>5, <3>1
      DEF Crash, Exit, Alone, TypeOK, hold, leases, resources, roots, config
  <2>2. \A q \in Proc : /\ WorksOn(q)' /\ Serves(q)' /\ Holds(q)'
                        /\ Fences(q)' /\ Records(q)' /\ Settles(q)'
    BY <1>1, <2>1
    DEF Working, WorksOn, Serving, Serves, Holding, Holds, Fencing, Fences, Quiet,
        Recording, Records, Settling, Settles, At
  <2> QED
    BY <1>2, <1>3, <2>2
    DEF HarnessInvariant, Working, Serving, Holding, Fencing, Recording, Settling
<1> QED  BY <1>4, <1>5

\* Every step keeps the invariant.
LEMMA HarnessKept == HarnessInvariant /\ [Next]_vars => HarnessInvariant'
<1> SUFFICES ASSUME HarnessInvariant, [Next]_vars PROVE HarnessInvariant'
  OBVIOUS
<1>1. CASE UNCHANGED vars
  BY <1>1
  DEF HarnessInvariant, vars, TypeOK, Alone, Working, WorksOn, Serving, Serves, Holding,
      OpenLeaseHoldsMode, Holds, Fencing, Fenced, Fences, Quiet, Recording, Recorded, Records,
      Settling, Settles, At
<1>2. CASE Next
  <2>1. TypeOK'
    BY <1>2, TypesKept DEF HarnessInvariant
  <2>2. ASSUME NEW p \in Proc, Moves(p) PROVE HarnessInvariant'
    BY <2>1, <2>2, ProcessKeeps
  <2>3. ASSUME NEW r \in Run, Acquire(r) \/ EndSession(r) PROVE HarnessInvariant'
    BY <2>1, <2>3, ForwardWorkKeeps DEF HarnessInvariant
  <2>4. ASSUME ProductionTakes \/ ProductionCloses PROVE HarnessInvariant'
    BY <2>1, <2>4, ProductionKeeps DEF HarnessInvariant
  <2>5. ASSUME OperatorActs PROVE HarnessInvariant'
    BY <2>1, <2>5, OperatorKeeps DEF HarnessInvariant
  <2> QED  BY <1>2, <2>2, <2>3, <2>4, <2>5 DEF Next, Moves
<1> QED  BY <1>1, <1>2

\* The inductive invariant holds in every reachable state.
THEOREM HarnessInvariantHolds == Spec => []HarnessInvariant
BY InitHarness, HarnessKept, PTL DEF Spec

-----------------------------------------------------------------------------
(* The theorems.                                                           *)

\* The records hold only what the code writes, whoever dies where.
THEOREM TypesHold == Spec => []TypeOK
<1>1. HarnessInvariant => TypeOK
  BY DEF HarnessInvariant
<1> QED  BY <1>1, HarnessInvariantHolds, PTL

\* A run or a Production invocation with an open lease holds the project's mode.
THEOREM OpenLeasesHoldTheMode == Spec => []OpenLeaseHoldsMode
<1>1. HarnessInvariant => OpenLeaseHoldsMode
  BY DEF HarnessInvariant, Holding
<1> QED  BY <1>1, HarnessInvariantHolds, PTL

\* No process settles a run that another is at work on.
THEOREM NoLiveRunSwept == Spec => []NoLiveRunIsSwept
<1>1. HarnessInvariant => NoLiveRunIsSwept
  BY DEF HarnessInvariant, Alone, NoLiveRunIsSwept, At, Off
<1> QED  BY <1>1, HarnessInvariantHolds, PTL

\* A run with a Closing disposition acquires nothing more, so a restart that finds
\* one only finishes the close.
THEOREM ClosingStaysSettled == Spec => []ClosingIsSettled
<1>1. HarnessInvariant => ClosingIsSettled
  BY DEF HarnessInvariant, TypeOK, Fencing, Fenced, Quiet, ClosingIsSettled
<1> QED  BY <1>1, HarnessInvariantHolds, PTL

\* A lease closes only over a run that holds nothing.
LEMMA CloseIsSettled ==
  ASSUME HarnessInvariant, NEW p \in Proc, CloseLease(p), NEW r \in Run,
         lease[r] # "closed", lease'[r] = "closed"
  PROVE  /\ held[r] # "acquired" /\ r \notin busy
         /\ dirRec[r] = "none" /\ cfgRec[r] # "managed"
         /\ dir[r] # "made" /\ file.by # r
<1>1. /\ WorksOn(p) /\ Fences(p) /\ Settles(p) /\ Fenced(r) /\ Recorded(r)
      /\ me[p] \in Task /\ At(p, "close")
      /\ lease \in [Holder -> Open \cup {"none", "closed"}] /\ Run \subseteq Holder
  BY TaskTypes
  DEF HarnessInvariant, Working, Fencing, Settling, Recording, CloseLease, TypeOK, Holder
<1>2. me[p].on = r /\ Closable(p)
  BY <1>1 DEF CloseLease
<1>3. dirRec[r] = "none" /\ cfgRec[r] # "managed" /\ dir[r] # "made" /\ file.by # r
  BY <1>1, <1>2 DEF Settles, Recorded, At
<1>4. lease[r] # "none" /\ me[p].how \in {"unbound", "short", "final"}
  BY <1>1, <1>2 DEF WorksOn, At, Idle, Task
<1>5. CASE me[p].how = "final"
  BY <1>1, <1>2, <1>3, <1>5 DEF Fences, Fenced, Quiet, At, Idle
<1>6. CASE me[p].how # "final"
  <2>1. held[r] = "none" /\ (lease[r] = "bound" => me[p].how = "short" /\ r \notin busy)
    BY <1>1, <1>2, <1>4, <1>6 DEF Closable, Settles, Settlement, At
  <2>2. lease[r] # "bound" => lease[r] = "unbound"
    BY <1>1, <1>4 DEF Open, CloseLease
  <2> QED  BY <1>1, <1>3, <2>1, <2>2 DEF Fenced
<1> QED  BY <1>3, <1>5, <1>6

\* The sweep loses sight of a run, when its lease closes, with nothing left of it:
\* no resource, no session, neither of its two objects.
THEOREM ClosesAreSettled == Spec => ClosesSettled
<1> DEFINE Closes(r) == lease[r] # "closed" /\ lease'[r] = "closed"
           Nothing(r) == /\ held[r] # "acquired" /\ r \notin busy
                         /\ dirRec[r] = "none" /\ cfgRec[r] # "managed"
                         /\ dir[r] # "made" /\ file.by # r
<1>1. ASSUME HarnessInvariant, [Next]_vars PROVE \A r \in Run : Closes(r) => Nothing(r)
  <2> SUFFICES ASSUME NEW r \in Run, Closes(r) PROVE Nothing(r)
    OBVIOUS
  <2>1. /\ lease \in [Holder -> Open \cup {"none", "closed"}]
        /\ Run \subseteq Holder /\ Production \notin Run
    BY <1>1, NamesAssumption DEF HarnessInvariant, TypeOK, Holder
  <2>2. ASSUME UNCHANGED lease PROVE FALSE
    BY <2>2
  <2>3. ASSUME NEW p \in Proc, CloseLease(p) PROVE Nothing(r)
    BY <1>1, <2>3, CloseIsSettled
  <2>4. ASSUME NEW p \in Proc, RecordLease(p) \/ BindLease(p) PROVE FALSE
    BY <2>1, <2>4 DEF RecordLease, BindLease
  <2>5. ASSUME NEW p \in Proc,
               EnterRun(p) \/ SweepDone(p) \/ ReopenMode(p) \/ ReopenLease(p) \/ Readmit(p)
               \/ Resolve(p) \/ ReleaseRecovered(p) \/ AuthorizeRecovered(p) \/ SettleDir(p)
               \/ ForgetDir(p) \/ SettleConfig(p) \/ ForgetConfig(p) \/ Prove(p)
               \/ ReleaseMode(p) \/ TakeRefused(p) \/ PublishDirOrigin(p) \/ MakeDir(p)
               \/ BindDir(p) \/ DataRootRefused(p) \/ BeginBinding(p) \/ ArmBoundClose(p)
               \/ PublishConfigOrigin(p) \/ PublishConfig(p) \/ BindConfig(p) \/ MoveMode(p)
               \/ MoveLease(p) \/ Reverse(p) \/ Rearm(p) \/ AuthorizeClose(p)
               \/ MarkPending(p) \/ SettleClose(p) \/ EndBody(p) \/ Crash(p)
        PROVE  FALSE
    BY <2>2, <2>5
    DEF EnterRun, SweepDone, ReopenMode, ReopenLease, Readmit, Resolve, ReleaseRecovered,
        AuthorizeRecovered, SettleDir, ForgetDir, SettleConfig, ForgetConfig, Prove,
        ReleaseMode, TakeRefused, PublishDirOrigin, MakeDir, BindDir, DataRootRefused,
        BeginBinding, ArmBoundClose, PublishConfigOrigin, PublishConfig, BindConfig,
        MoveMode, MoveLease, Reverse, Rearm, AuthorizeClose, MarkPending, SettleClose,
        EndBody, Crash,
        leases
  <2>6. ASSUME NEW p \in Proc, NEW x \in Run, SettleOne(p, x) \/ TakeMode(p, x) PROVE FALSE
    BY <2>2, <2>6 DEF SettleOne, TakeMode, leases
  <2>7. ASSUME NEW x \in Run, Acquire(x) \/ EndSession(x) PROVE FALSE
    BY <2>2, <2>7 DEF Acquire, EndSession, leases
  <2>8. ASSUME ProductionTakes \/ ProductionCloses \/ OperatorActs PROVE FALSE
    BY <2>1, <2>2, <2>8 DEF ProductionTakes, ProductionCloses, OperatorActs, leases
  <2>9. ASSUME UNCHANGED vars PROVE FALSE
    BY <2>2, <2>9 DEF vars
  <2> QED
    BY <1>1, <2>3, <2>4, <2>5, <2>6, <2>7, <2>8, <2>9 DEF Next, Sweep, Settle, Start, Body
<1>2. HarnessInvariant /\ [Next]_vars =>
        [\A r \in Run : Closes(r) => Nothing(r)]_vars
  BY <1>1
<1> QED  BY <1>2, HarnessInvariantHolds, PTL DEF Spec, ClosesSettled

\* No release and no recovery removes what the operator wrote or what was there
\* before the run.
THEOREM StrangersAreSafe == Spec => StrangersSurvive
<1> DEFINE Kept == touches' = touches =>
                     /\ file.bytes = Operator => file' = file
                     /\ \A r \in Run : dir[r] = "foreign" => dir'[r] = "foreign"
<1>1. ASSUME HarnessInvariant, [Next]_vars PROVE Kept
  <2>1. /\ dir \in [Run -> {"absent", "made", "foreign"}] /\ touches \in Nat
        /\ \A r \in Run : Recorded(r)
        /\ \A p \in Proc : WorksOn(p) /\ Records(p)
    BY <1>1, SetsAssumption DEF HarnessInvariant, TypeOK, Recording, Working
  <2>2. ASSUME UNCHANGED <<dir, file>> PROVE Kept
    BY <2>2
  <2>3. ASSUME NEW p \in Proc, SettleDir(p) PROVE Kept
    BY <2>1, <2>3 DEF SettleDir, WorksOn, Recorded, At, Idle, config
  <2>4. ASSUME NEW p \in Proc, MakeDir(p) PROVE Kept
    BY <2>1, <2>4 DEF MakeDir, WorksOn, Records, Recorded, At, Idle, config
  <2>5. ASSUME NEW p \in Proc, SettleConfig(p) \/ PublishConfig(p) PROVE Kept
    <3>1. Operator # Nobody /\ me[p].on # Operator
      BY <2>1, <2>5, NamesAssumption
      DEF SettleConfig, PublishConfig, WorksOn, At, Idle
    <3> QED
      BY <2>5, <3>1 DEF SettleConfig, PublishConfig, Installed, NoFile, roots
  <2>6. ASSUME NEW p \in Proc,
               EnterRun(p) \/ SweepDone(p) \/ ReopenMode(p) \/ ReopenLease(p) \/ Readmit(p)
               \/ Resolve(p) \/ ReleaseRecovered(p) \/ AuthorizeRecovered(p) \/ ForgetDir(p)
               \/ ForgetConfig(p) \/ Prove(p) \/ CloseLease(p) \/ ReleaseMode(p)
               \/ TakeRefused(p) \/ RecordLease(p) \/ PublishDirOrigin(p) \/ BindDir(p)
               \/ DataRootRefused(p) \/ BeginBinding(p) \/ BindLease(p) \/ ArmBoundClose(p)
               \/ PublishConfigOrigin(p) \/ BindConfig(p) \/ MoveMode(p) \/ MoveLease(p)
               \/ Reverse(p) \/ Rearm(p) \/ AuthorizeClose(p) \/ MarkPending(p)
               \/ SettleClose(p) \/ EndBody(p) \/ Crash(p)
        PROVE  Kept
    BY <2>2, <2>6
    DEF EnterRun, SweepDone, ReopenMode, ReopenLease, Readmit, Resolve, ReleaseRecovered,
        AuthorizeRecovered, ForgetDir, ForgetConfig, Prove, CloseLease, ReleaseMode,
        TakeRefused, RecordLease, PublishDirOrigin, BindDir, DataRootRefused, BeginBinding,
        BindLease, ArmBoundClose, PublishConfigOrigin, BindConfig, MoveMode, MoveLease,
        Reverse, Rearm, AuthorizeClose, MarkPending, SettleClose, EndBody, Crash,
        roots, config
  <2>7. ASSUME NEW p \in Proc, NEW x \in Run, SettleOne(p, x) \/ TakeMode(p, x) PROVE Kept
    BY <2>2, <2>7 DEF SettleOne, TakeMode, roots, config
  <2>8. ASSUME NEW x \in Run, Acquire(x) \/ EndSession(x) PROVE Kept
    BY <2>2, <2>8 DEF Acquire, EndSession, roots, config
  <2>9. ASSUME ProductionTakes \/ ProductionCloses PROVE Kept
    BY <2>2, <2>9 DEF ProductionTakes, ProductionCloses, roots, config
  <2>10. ASSUME OperatorActs PROVE Kept
    BY <2>1, <2>10 DEF OperatorActs
  <2>11. ASSUME UNCHANGED vars PROVE Kept
    BY <2>2, <2>11 DEF vars
  <2> QED
    BY <1>1, <2>3, <2>4, <2>5, <2>6, <2>7, <2>8, <2>9, <2>10, <2>11
    DEF Next, Sweep, Settle, Start, Body
<1>2. HarnessInvariant /\ [Next]_vars => [Kept]_vars
  BY <1>1
<1> QED  BY <1>2, HarnessInvariantHolds, PTL DEF Spec, StrangersSurvive
=============================================================================
