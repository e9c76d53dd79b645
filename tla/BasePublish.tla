---------------------------- MODULE BasePublish ----------------------------
(* The maintainer's commands. base build and build-and-push run one lane per  *)
(* flavor, side by side or in turn: build, smoke the image locally, push the  *)
(* rolling tag, pull it, resolve its digest and smoke that. Docker's daemons  *)
(* are shared by invocations and the registry by machines, and none of it is *)
(* locked. An image is named by the invocation that built it.                *)
EXTENDS PublishPlan

CONSTANTS
  Proc,      \* invocations
  Old,       \* stands for who built the images that were there before
  Machine,   \* docker daemons
  Settings,  \* [host, engine, linux, cpus, total, checkout, catalog]
  Homes,     \* where each invocation runs
  Commands,  \* what each is given
  Available, \* what /proc/meminfo may say is available, in KiB
  MaxFault   \* commands that fail or are interrupted

ASSUME BasePublishAssumption ==
  /\ Old \notin Proc /\ MaxFault \in Nat
  /\ Homes \subseteq [Proc -> Machine] /\ Available \subseteq Nat
  /\ \A i \in Proc : \A c \in Commands[i] :
       /\ c.flavor \in Flavor \cup {"both"} /\ c.sequential \in BOOLEAN
       /\ c.kind \in {"build", "publish", "check-code", "test-all"}
  /\ \A s \in Settings : s.cpus \in Nat /\ s.total \in Nat /\ s.linux \in BOOLEAN

ASSUME SourcesAssumption ==
  \A s \in Settings : \A root \in DOMAIN s.checkout.sources :
    s.checkout.sources[root] \in Seq([size : Nat, readable : BOOLEAN])

VARIABLES
  setting, home, command,
  stage,    \* how far an invocation is
  outcome,  \* how it ended
  measured, \* the host it measured
  budget,   \* the caps of each of its builds
  lane,     \* the docker command each flavor is at
  ref,      \* the image a lane took by its ID or digest
  tags,     \* the image each daemon's rolling tag names
  known,    \* the images a daemon has a repository digest of
  pushes,   \* what the registry's tag was set to, and by whom
  unsound,  \* images a consumer cannot be built from
  shared,   \* ghost: another one ran on the same daemon and flavor meanwhile
  faults

given == <<setting, home, command>>
docker == <<tags, known, pushes, unsound>>
own == <<measured, budget>>
vars == <<given, stage, outcome, own, lane, ref, docker, shared, faults>>

Builder == Proc \cup {Old}
Ended == {"done", "failed", "raised"}
Running(i, f) == lane[i][f] \notin Ended \cup {"idle"}
Publishes(i) == command[i].kind = "publish"
Runner(i) == command[i].kind \in {"check-code", "test-all"}
Tag(i, f) == tags[home[i]][f]
Broken(x, f) == <<x, f>> \in unsound

Init ==
  /\ setting \in Settings /\ home \in Homes
  /\ command \in [Proc -> UNION {Commands[i] : i \in Proc}]
  /\ \A i \in Proc : command[i] \in Commands[i]
  /\ stage = [i \in Proc |-> "enter"] /\ outcome = [i \in Proc |-> "none"]
  /\ measured = [i \in Proc |-> [cpus |-> 0, total |-> 0, available |-> 0]]
  /\ budget = [i \in Proc |-> Unbounded]
  /\ lane = [i \in Proc |-> [f \in Flavor |-> "idle"]]
  /\ ref = [i \in Proc |-> [f \in Flavor |-> Old]]
  /\ tags = [m \in Machine |-> [f \in Flavor |-> Old]]
  /\ known = [m \in Machine |-> {Old} \X Flavor]
  /\ pushes = [f \in Flavor |-> <<[image |-> Old, by |-> Old]>>]
  /\ unsound = {} /\ shared = [i \in Proc |-> FALSE] /\ faults = 0

---------------------------------------------------------------------------
(* Up to the first docker build                                              *)

Go(i, next) == stage' = [stage EXCEPT ![i] = next] /\ UNCHANGED outcome
End(i, how) ==
  stage' = [stage EXCEPT ![i] = "over"] /\ outcome' = [outcome EXCEPT ![i] = how]

\* The commands are hidden from, and refuse, whoever has no authority.
Enter(i) ==
  /\ stage[i] = "enter"
  /\ IF ~Authority(setting.checkout) THEN End(i, "refused")
     ELSE IF Runner(i) THEN Go(i, "runner")
     ELSE IF Native(command[i], setting.host, setting.engine) THEN Go(i, "gates")
     ELSE End(i, "refused")
  /\ UNCHANGED <<given, own, lane, ref, docker, shared, faults>>

\* check-code and test-all exit with the code of the step that failed.
RunTools(i) ==
  /\ stage[i] = "runner"
  /\ LET steps == IF command[i].kind = "check-code" THEN CodeCheck
                  ELSE TestRun(command[i].forwarded)
     IN End(i, IF steps \cap setting.checkout.dirty = {} THEN "ok" ELSE "failed")
  /\ UNCHANGED <<given, own, lane, ref, docker, shared, faults>>

\* Every gate is run before the first build, over the one checkout the
\* interpreter belongs to.
CleanSettings == {s \in Settings : Clean(s.checkout)}
PassGates(i) ==
  /\ stage[i] = "gates"
  /\ IF command[i].canonical /\ setting \in CleanSettings THEN Go(i, "measure")
     ELSE End(i, "refused")
  /\ UNCHANGED <<given, own, lane, ref, docker, shared, faults>>

\* What other work on the machine has left of its memory is measured once.
Measure(i) ==
  /\ stage[i] = "measure"
  /\ \E a \in Available :
       LET h == Measured(setting, a)
       IN IF ~setting.linux THEN Go(i, "resolve") /\ UNCHANGED own
          ELSE /\ measured' = [measured EXCEPT ![i] = h]
               /\ IF Sufficient(h)
                  THEN /\ budget' = [budget EXCEPT ![i] = Budget(h, Concurrency(command[i]))]
                       /\ Go(i, "resolve")
                  ELSE End(i, "refused") /\ UNCHANGED budget
  /\ UNCHANGED <<given, lane, ref, docker, shared, faults>>

Rival(i, j) ==
  i # j /\ home[i] = home[j] /\ TargetSet(command[i]) \cap TargetSet(command[j]) # {}

\* Every flavor is resolved before the first is built.
Resolve(i) ==
  /\ stage[i] = "resolve"
  /\ IF \A f \in TargetSet(command[i]) : Resolved(f, setting.catalog, setting.host)
     THEN /\ Go(i, "run")
          /\ LET met == {j \in Proc : Rival(i, j) /\ stage[j] = "run"}
             IN shared' = [j \in Proc |-> shared[j] \/ j \in met \/ (j = i /\ met # {})]
     ELSE End(i, "refused") /\ UNCHANGED shared
  /\ UNCHANGED <<given, own, lane, ref, docker, faults>>

\* A probe, a gate's tool or an upstream server fails.
FailEarly(i) ==
  /\ stage[i] \in {"enter", "gates", "resolve"} /\ faults < MaxFault /\ faults' = faults + 1
  /\ End(i, "refused")
  /\ UNCHANGED <<given, own, lane, ref, docker, shared>>

---------------------------------------------------------------------------
(* The lanes                                                                 *)

To(i, f, next) == lane' = [lane EXCEPT ![i][f] = next]
At(i, f, step) == stage[i] = "run" /\ lane[i][f] = step

\* docker did it, and said so or not: a client can be killed, and the mirror of
\* its output can break, once the daemon or the registry is done.
Answered(i, f, next) ==
  \/ To(i, f, next) /\ UNCHANGED faults
  \/ /\ faults < MaxFault /\ faults' = faults + 1
     /\ To(i, f, "failed") \/ To(i, f, "raised")
Fails(i, f) ==
  /\ stage[i] = "run" /\ Running(i, f) /\ faults < MaxFault /\ faults' = faults + 1
  /\ To(i, f, "failed") \/ To(i, f, "raised")
  /\ UNCHANGED <<given, stage, outcome, own, ref, docker, shared>>

MayBegin(i, f) ==
  /\ f \in TargetSet(command[i])
  /\ \/ Concurrent(command[i])
     \/ f = "cuda" /\ "cpu" \in TargetSet(command[i]) => lane[i]["cpu"] = "done"

Begin(i, f) ==
  /\ At(i, f, "idle") /\ MayBegin(i, f) /\ To(i, f, "build")
  /\ UNCHANGED <<given, stage, outcome, own, ref, docker, shared, faults>>

\* A cold build moves the daemon's tag to its image.
Build(i, f) ==
  /\ At(i, f, "build")
  /\ tags' = [tags EXCEPT ![home[i]][f] = i]
  /\ unsound' = unsound \/ unsound' = unsound \cup {<<i, f>>}
  /\ Answered(i, f, IF Publishes(i) THEN "inspect" ELSE "done")
  /\ UNCHANGED <<given, stage, outcome, own, ref, known, pushes, shared>>

Inspect(i, f) ==
  /\ At(i, f, "inspect") /\ ref' = [ref EXCEPT ![i][f] = Tag(i, f)]
  /\ Answered(i, f, "smoke")
  /\ UNCHANGED <<given, stage, outcome, own, docker, shared>>

\* Mutant: the tag is given, which the builder resolves from the registry.
SmokeByTag(i, f) ==
  /\ At(i, f, "smoke")
  /\ IF Broken(Last(pushes[f]).image, f)
     THEN To(i, f, "failed") /\ UNCHANGED faults
     ELSE Answered(i, f, "push")
  /\ UNCHANGED <<given, stage, outcome, own, ref, docker, shared>>

\* The consumer is built from exactly the image that was inspected.
Smoke(i, f) ==
  /\ At(i, f, "smoke")
  /\ IF Broken(ref[i][f], f) THEN To(i, f, "failed") /\ UNCHANGED faults
                             ELSE Answered(i, f, "push")
  /\ UNCHANGED <<given, stage, outcome, own, ref, docker, shared>>

\* What is pushed is what the tag names now.
Push(i, f) ==
  /\ At(i, f, "push")
  /\ pushes' = [pushes EXCEPT ![f] = Append(pushes[f], [image |-> Tag(i, f), by |-> i])]
  /\ known' = [known EXCEPT ![home[i]] = known[home[i]] \cup {<<Tag(i, f), f>>}]
  /\ Answered(i, f, "pull")
  /\ UNCHANGED <<given, stage, outcome, own, ref, tags, unsound, shared>>

Pull(i, f) ==
  /\ At(i, f, "pull")
  /\ LET x == Last(pushes[f]).image
     IN /\ tags' = [tags EXCEPT ![home[i]][f] = x]
        /\ known' = [known EXCEPT ![home[i]] = known[home[i]] \cup {<<x, f>>}]
  /\ Answered(i, f, "digest")
  /\ UNCHANGED <<given, stage, outcome, own, ref, pushes, unsound, shared>>

\* An image that never met the registry has no digest of the repository.
Digest(i, f) ==
  /\ At(i, f, "digest")
  /\ IF <<Tag(i, f), f>> \in known[home[i]]
     THEN ref' = [ref EXCEPT ![i][f] = Tag(i, f)] /\ Answered(i, f, "check")
     ELSE To(i, f, "failed") /\ UNCHANGED <<ref, faults>>
  /\ UNCHANGED <<given, stage, outcome, own, docker, shared>>

\* Mutant: what was smoked before the push is not smoked again.
CheckSkipped(i, f) ==
  /\ At(i, f, "check") /\ Answered(i, f, "done")
  /\ UNCHANGED <<given, stage, outcome, own, ref, docker, shared>>

\* Mutant: the publication is pulled again until it passes.
CheckRetried(i, f) ==
  /\ At(i, f, "check")
  /\ IF Broken(ref[i][f], f) THEN To(i, f, "pull") /\ UNCHANGED faults
                             ELSE Answered(i, f, "done")
  /\ UNCHANGED <<given, stage, outcome, own, ref, docker, shared>>

\* The consumer is built from the digest, pulled anew.
Check(i, f) ==
  /\ At(i, f, "check")
  /\ IF Broken(ref[i][f], f) THEN To(i, f, "failed") /\ UNCHANGED faults
                             ELSE Answered(i, f, "done")
  /\ UNCHANGED <<given, stage, outcome, own, ref, docker, shared>>

---------------------------------------------------------------------------
(* The end of a command                                                      *)

Some(i, step) == \E f \in TargetSet(command[i]) : lane[i][f] = step
Verdict(i) ==
  IF Some(i, "raised") THEN "raised" ELSE IF Some(i, "failed") THEN "failed" ELSE "ok"

\* Mutant: gather raises the first exception at once.
CollectFirst(i) ==
  /\ stage[i] = "run"
  /\ \/ \A f \in TargetSet(command[i]) : lane[i][f] \in Ended
     \/ Some(i, "failed") \/ Some(i, "raised")
  /\ End(i, Verdict(i))
  /\ UNCHANGED <<given, own, lane, ref, docker, shared, faults>>

\* gather waits for every lane and reports each friendly failure, unless one
\* of the others is to be raised; in turn, the first failure is the last.
Collect(i) ==
  /\ stage[i] = "run"
  /\ \/ \A f \in TargetSet(command[i]) : lane[i][f] \in Ended
     \/ ~Concurrent(command[i]) /\ (Some(i, "failed") \/ Some(i, "raised"))
  /\ End(i, Verdict(i))
  /\ UNCHANGED <<given, own, lane, ref, docker, shared, faults>>

\* The user interrupts: every lane is cancelled and its docker client killed.
Interrupt(i) ==
  /\ stage[i] # "over" /\ faults < MaxFault /\ faults' = faults + 1
  /\ End(i, "interrupted")
  /\ lane' = [lane EXCEPT ![i] =
                [f \in Flavor |-> IF Running(i, f) THEN "failed" ELSE lane[i][f]]]
  /\ UNCHANGED <<given, own, ref, docker, shared>>

---------------------------------------------------------------------------
Lane(i, f) ==
  Begin(i, f) \/ Build(i, f) \/ Inspect(i, f) \/ Smoke(i, f) \/ Push(i, f) \/ Pull(i, f)
    \/ Digest(i, f) \/ Check(i, f)
Work(i) ==
  Enter(i) \/ RunTools(i) \/ PassGates(i) \/ Measure(i) \/ Resolve(i) \/ Collect(i)
    \/ \E f \in Flavor : Lane(i, f)
Trouble(i) == FailEarly(i) \/ Interrupt(i) \/ \E f \in Flavor : Fails(i, f)

\* Nothing is left to do once every command is over.
Rest == (\A i \in Proc : stage[i] = "over") /\ UNCHANGED vars

Next == (\E i \in Proc : Work(i) \/ Trouble(i)) \/ Rest

Spec == Init /\ [][Next]_vars

\* A command goes on by itself, and docker and the tools answer.
Fairness == \A i \in Proc : WF_vars(Work(i))
FairSpec == Spec /\ Fairness

---------------------------------------------------------------------------
Step == {"idle", "build", "inspect", "smoke", "push", "pull", "digest", "check"} \cup Ended
TypeOK ==
  /\ setting \in Settings /\ home \in [Proc -> Machine]
  /\ \A i \in Proc : command[i] \in Commands[i]
  /\ stage \in [Proc -> {"enter", "runner", "gates", "measure", "resolve", "run", "over"}]
  /\ outcome \in [Proc -> {"none", "ok", "refused", "failed", "raised", "interrupted"}]
  /\ lane \in [Proc -> [Flavor -> Step]] /\ ref \in [Proc -> [Flavor -> Builder]]
  /\ tags \in [Machine -> [Flavor -> Builder]]
  /\ known \in [Machine -> SUBSET (Builder \X Flavor)]
  /\ pushes \in [Flavor -> Seq([image : Builder, by : Builder])]
  /\ unsound \subseteq Proc \X Flavor
  /\ shared \in [Proc -> BOOLEAN] /\ faults \in 0 .. MaxFault

\* The builds a command runs at one time, each with all the processors and the
\* memory its caps allow, leave a processor and the headroom of what
\* was measured, and the jobs of each fit in its memory at their peak.
Building(i) == {f \in Flavor : At(i, f, "build")}
CapsFitTheHost ==
  \A i \in Proc : setting.linux /\ Building(i) # {} =>
    LET n == Cardinality(Building(i))
    IN /\ n * budget[i].cpus < measured[i].cpus
       /\ n * budget[i].memory * MiB + Headroom(measured[i].available) <= measured[i].available
       /\ budget[i].jobs * PerJob <= budget[i].memory * MiB

\* Where a docker build runs, every source the formatter can read was given to
\* it once, in order, by commands that Windows can start.
EverySourceIsFormatted ==
  (\E i \in Proc, f \in Flavor : lane[i][f] # "idle") =>
    \A root \in DOMAIN setting.checkout.sources :
      LET chunks == Chunks(setting.checkout, root)
      IN /\ FlattenSeq(chunks) = Sources(setting.checkout, root)
         /\ \A k \in DOMAIN chunks : chunks[k] # <<>> /\ Rendered(chunks[k]) <= ArgvBudget

\* The images the registry's tag was given since an invocation's own push.
Since(i, f) ==
  {pushes[f][k].image : k \in {k \in DOMAIN pushes[f] :
     \E first \in 1 .. k : pushes[f][first].by = i}}

\* What is reported as published is sound, and is what the registry's tag named
\* at some time after the invocation pushed, whoever else built, pushed or
\* pulled the tag in between.
ReportsArePublished ==
  \A i \in Proc, f \in Flavor : Publishes(i) /\ lane[i][f] = "done" =>
    ~Broken(ref[i][f], f) /\ ref[i][f] \in Since(i, f)

\* An invocation that has its daemon's tag to itself publishes the image it
\* built, and only if that passed, although others publish from other machines.
PublishedWasSmoked ==
  \A f \in Flavor : \A k \in DOMAIN pushes[f] :
    LET p == pushes[f][k]
    IN p.by \in Proc /\ ~shared[p.by] => p.image = p.by /\ ~Broken(p.image, f)

\* A command ends with no lane at work; side by side each flavor came to
\* an end of its own, in turn none began after a failure, and success means all.
FailuresStayApart ==
  \A i \in Proc : stage[i] = "over" =>
    /\ \A f \in Flavor : ~Running(i, f)
    /\ outcome[i] \in {"ok", "failed", "raised"} /\ ~Runner(i) =>
         /\ outcome[i] = "ok" <=> \A f \in TargetSet(command[i]) : lane[i][f] = "done"
         /\ Concurrent(command[i]) => \A f \in Flavor : lane[i][f] # "idle"
         /\ ~Concurrent(command[i]) /\ lane[i]["cpu"] \in {"failed", "raised"}
              => lane[i]["cuda"] = "idle"

\* Every command ends, whatever fails.
CommandsEnd == \A i \in Proc : <>(stage[i] = "over")
===========================================================================
