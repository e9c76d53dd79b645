------------------------- MODULE BasePublishProofs -------------------------
(* Theorems about BasePublish, for every value of its constants: any number   *)
(* of invocations and machines, any host, checkout and upstream.             *)
EXTENDS BasePublish, SequenceFacts, FiniteSetTheorems, TLAPS

---------------------------------------------------------------------------
(* The caps (resources.py)                                                   *)

\* What n builds with these caps leave of a host.
Fit(b, h, n) ==
  /\ n * b.cpus < h.cpus
  /\ n * b.memory * MiB + Headroom(h.available) <= h.available
  /\ b.jobs * PerJob <= b.memory * MiB

\* On a host that is not refused the caps of one build, or of each of two, fit.
LEMMA BudgetFits ==
  ASSUME NEW h \in [cpus : Nat, total : Nat, available : Nat], Sufficient(h), NEW n \in {1, 2}
  PROVE  Budget(h, n) \in [cpus : Nat, memory : Nat, jobs : Nat] /\ Fit(Budget(h, n), h, n)
<1> DEFINE a == h.available
           room == Headroom(a)
           share == ShareOf(h, n)
           cpus == Larger(1, Larger(1, h.cpus - 1) \div n)
           memory == share \div MiB
           jobs == Larger(1, Smaller(cpus, share \div PerJob))
<1>1. /\ MiB = 1024 /\ GiB = 1048576 /\ MinAvailable = 8388608 /\ MinHeadroom = 2097152
      /\ PerJob = 2621440 /\ MinCpus = 8
  BY SMT DEF MiB, GiB, MinAvailable, MinHeadroom, PerJob, MinCpus
<1>2. a \in Nat /\ a >= 8388608 /\ h.cpus \in Nat /\ h.cpus >= 8
  BY SMT, <1>1 DEF Sufficient
<1>3. room \in Nat /\ room >= 2097152 /\ room <= a \div 4 /\ a - room >= 6291456
  BY SMT, <1>1, <1>2 DEF Headroom, Larger
<1>4. share \in Nat /\ share >= 2621440 /\ n * share <= a - room
  <2>1. CASE n = 1
    BY SMT, <1>1, <1>2, <1>3, <2>1 DEF ShareOf, Larger
  <2>2. CASE n = 2
    BY SMT, <1>1, <1>2, <1>3, <2>2 DEF ShareOf, Larger
  <2>3. QED
    BY SMT, <2>1, <2>2
<1>5. cpus \in Nat /\ cpus >= 1 /\ n * cpus < h.cpus
  <2>1. CASE n = 1
    BY SMT, <1>2, <2>1 DEF Larger
  <2>2. CASE n = 2
    BY SMT, <1>2, <2>2 DEF Larger
  <2>3. QED
    BY SMT, <2>1, <2>2
<1>6. memory \in Nat /\ memory * MiB <= share /\ share < (memory + 1) * MiB /\ memory >= 2560
  BY SMT, <1>1, <1>4
<1>7. n * memory * MiB + room <= a
  <2>1. CASE n = 1
    BY SMT, <1>1, <1>2, <1>3, <1>4, <1>6, <2>1
  <2>2. CASE n = 2
    BY SMT, <1>1, <1>2, <1>3, <1>4, <1>6, <2>2
  <2>3. QED
    BY SMT, <2>1, <2>2
<1>8. jobs \in Nat /\ jobs * PerJob <= memory * MiB
  <2> DEFINE fit == share \div PerJob
  <2>1. fit \in Nat /\ fit * 2621440 <= share /\ fit >= 1
    BY SMT, <1>1, <1>4
  <2>2. fit * 2560 <= memory
    <3>1. ASSUME NEW x \in Nat, NEW y \in Nat, NEW z \in Nat,
                 x * 2621440 <= z, z < (y + 1) * 1024
          PROVE  x * 2560 <= y
      BY SMT, <3>1
    <3>2. memory \in Nat /\ share < (memory + 1) * 1024
      BY SMT, <1>1, <1>6
    <3> HIDE DEF fit, memory, share
    <3>3. QED
      BY SMT, <1>4, <2>1, <3>1, <3>2
  <2>3. jobs \in Nat /\ jobs <= fit
    BY SMT, <1>5, <2>1 DEF Larger, Smaller
  <2>4. QED
    BY SMT, <1>1, <1>6, <2>1, <2>2, <2>3
<1>9. Budget(h, n) = [cpus |-> cpus, memory |-> memory, jobs |-> jobs]
  BY SMT DEF Budget
<1>10. QED
  BY SMT, <1>5, <1>6, <1>7, <1>8, <1>9 DEF Fit

---------------------------------------------------------------------------
(* Types                                                                     *)

Wide ==
  /\ TypeOK
  /\ measured \in [Proc -> [cpus : Nat, total : Nat, available : Nat]]
  /\ budget \in [Proc -> [cpus : Nat, memory : Nat, jobs : Nat]]
  /\ \A f \in Flavor : pushes[f] # <<>>

\* The lane of i and f goes to one of S, and no other lane moves.
Moves(i, f, S) ==
  /\ lane'[i][f] \in S
  /\ \A j \in Proc, g \in Flavor : j # i \/ g # f => lane'[j][g] = lane[j][g]

\* What happens to the lanes and to docker when nothing happens to them.
Quiet == UNCHANGED <<given, lane, ref, docker>>

LEMMA ToMoves ==
  ASSUME TypeOK, NEW i \in Proc, NEW f \in Flavor, NEW s \in Step, To(i, f, s)
  PROVE  lane' \in [Proc -> [Flavor -> Step]] /\ Moves(i, f, {s})
BY DEF TypeOK, To, Moves

LEMMA AnsweredMoves ==
  ASSUME TypeOK, NEW i \in Proc, NEW f \in Flavor, NEW s \in Step, Answered(i, f, s)
  PROVE  /\ lane' \in [Proc -> [Flavor -> Step]] /\ faults' \in 0 .. MaxFault
         /\ Moves(i, f, {s, "failed", "raised"})
<1>1. "failed" \in Step /\ "raised" \in Step
  BY DEF Step, Ended
<1>2. faults' \in 0 .. MaxFault
  BY BasePublishAssumption DEF Answered, TypeOK
<1>3. CASE To(i, f, s)
  BY <1>2, <1>3, ToMoves DEF Moves
<1>4. CASE To(i, f, "failed")
  BY <1>1, <1>2, <1>4, ToMoves DEF Moves
<1>5. CASE To(i, f, "raised")
  BY <1>1, <1>2, <1>5, ToMoves DEF Moves
<1>6. QED
  BY <1>3, <1>4, <1>5 DEF Answered

LEMMA EndTypes ==
  ASSUME TypeOK, NEW i \in Proc,
         \/ \E s \in {"runner", "gates", "measure", "resolve", "run"} : Go(i, s)
         \/ \E how \in {"ok", "refused", "failed", "raised", "interrupted"} : End(i, how)
  PROVE  /\ stage' \in [Proc -> {"enter", "runner", "gates", "measure", "resolve", "run", "over"}]
         /\ outcome' \in [Proc -> {"none", "ok", "refused", "failed", "raised", "interrupted"}]
BY DEF TypeOK, Go, End

LEMMA OneMoreFault ==
  ASSUME TypeOK, faults < MaxFault, faults' = faults + 1
  PROVE  faults' \in 0 .. MaxFault
BY BasePublishAssumption DEF TypeOK

\* Every step is quiet, moves one lane, or interrupts a command.
LEMMA Kinds ==
  ASSUME [Next]_vars
  PROVE  \/ Quiet
         \/ \E i \in Proc : Interrupt(i) \/ \E f \in Flavor : Fails(i, f) \/ Lane(i, f)
<1>1. ASSUME NEW i \in Proc, Enter(i) \/ RunTools(i) \/ PassGates(i) \/ FailEarly(i)
      PROVE  Quiet
  BY <1>1 DEF Enter, RunTools, PassGates, FailEarly, Quiet
<1>2. ASSUME NEW i \in Proc, Measure(i) \/ Resolve(i) \/ Collect(i) PROVE Quiet
  BY <1>2 DEF Measure, Resolve, Collect, Quiet
<1>3. CASE UNCHANGED vars \/ Rest
  BY <1>3 DEF Rest, vars, Quiet
<1>4. QED
  BY <1>1, <1>2, <1>3 DEF Next, Work, Trouble

LEMMA LastImage ==
  ASSUME Wide, NEW f \in Flavor
  PROVE  /\ Len(pushes[f]) \in DOMAIN pushes[f]
         /\ Last(pushes[f]) = pushes[f][Len(pushes[f])]
         /\ Last(pushes[f]).image \in Builder
<1>1. pushes[f] \in Seq([image : Builder, by : Builder]) /\ pushes[f] # <<>>
  BY DEF Wide, TypeOK
<1>2. Len(pushes[f]) \in DOMAIN pushes[f] /\ Last(pushes[f]) = pushes[f][Len(pushes[f])]
  BY <1>1 DEF Last
<1>3. pushes[f][Len(pushes[f])] \in [image : Builder, by : Builder]
  <2>1. ASSUME NEW S, NEW q \in Seq(S), q # <<>> PROVE q[Len(q)] \in S
    BY <2>1
  <2>2. QED
    BY <1>1, <2>1
<1>4. pushes[f][Len(pushes[f])].image \in Builder
  BY <1>3
<1>5. QED
  BY <1>2, <1>4

LEMMA InitTypes == Init => Wide
<1> SUFFICES ASSUME Init PROVE Wide
  OBVIOUS
<1>1. "idle" \in Step /\ Old \in Builder /\ "cpu" \in Flavor /\ "cuda" \in Flavor
  BY DEF Step, Builder, Flavor
<1>2. pushes \in [Flavor -> Seq([image : Builder, by : Builder])]
  BY <1>1 DEF Init
<1>3. known \in [Machine -> SUBSET (Builder \X Flavor)]
  BY <1>1 DEF Init
<1>4. home \in [Proc -> Machine] /\ faults \in 0 .. MaxFault
  BY BasePublishAssumption DEF Init
<1>5. /\ measured \in [Proc -> [cpus : Nat, total : Nat, available : Nat]]
      /\ budget \in [Proc -> [cpus : Nat, memory : Nat, jobs : Nat]]
  BY DEF Init, Unbounded
<1>6. QED
  BY <1>1, <1>2, <1>3, <1>4, <1>5 DEF Init, Wide, TypeOK

LEMMA StepTypes == Wide /\ [Next]_vars => Wide'
<1> SUFFICES ASSUME Wide, [Next]_vars PROVE Wide'
  OBVIOUS
<1> USE BasePublishAssumption DEF Wide
<1>1. ASSUME NEW i \in Proc, Enter(i) PROVE Wide'
  BY <1>1 DEF TypeOK, Enter, Go, End, given, own, docker
<1>2. ASSUME NEW i \in Proc, RunTools(i) PROVE Wide'
  BY <1>2 DEF TypeOK, RunTools, End, given, own, docker
<1>3. ASSUME NEW i \in Proc, PassGates(i) PROVE Wide'
  BY <1>3 DEF TypeOK, PassGates, Go, End, given, own, docker
<1>4. ASSUME NEW i \in Proc, Measure(i) PROVE Wide'
  <2>1. PICK a \in Available :
          LET h == Measured(setting, a)
          IN IF ~setting.linux THEN Go(i, "resolve") /\ UNCHANGED own
             ELSE /\ measured' = [measured EXCEPT ![i] = h]
                  /\ IF Sufficient(h)
                     THEN /\ budget' = [budget EXCEPT ![i] = Budget(h, Concurrency(command[i]))]
                          /\ Go(i, "resolve")
                     ELSE End(i, "refused") /\ UNCHANGED budget
    BY <1>4 DEF Measure
  <2>2. Measured(setting, a) \in [cpus : Nat, total : Nat, available : Nat]
    BY DEF Measured, TypeOK
  <2>3. Concurrency(command[i]) \in {1, 2}
    BY DEF Concurrency
  <2>4. Sufficient(Measured(setting, a)) =>
          Budget(Measured(setting, a), Concurrency(command[i]))
            \in [cpus : Nat, memory : Nat, jobs : Nat]
    BY <2>2, <2>3, BudgetFits
  <2>5. /\ measured' \in [Proc -> [cpus : Nat, total : Nat, available : Nat]]
        /\ budget' \in [Proc -> [cpus : Nat, memory : Nat, jobs : Nat]]
    <3>1. /\ measured' \in {measured, [measured EXCEPT ![i] = Measured(setting, a)]}
          /\ \/ budget' = budget
             \/ /\ Sufficient(Measured(setting, a))
                /\ budget' = [budget EXCEPT ![i] = Budget(Measured(setting, a), Concurrency(command[i]))]
      BY <2>1 DEF own
    <3>2. /\ measured \in [Proc -> [cpus : Nat, total : Nat, available : Nat]]
          /\ budget \in [Proc -> [cpus : Nat, memory : Nat, jobs : Nat]]
      BY DEF TypeOK
    <3> DEFINE H == [cpus : Nat, total : Nat, available : Nat]
               B == [cpus : Nat, memory : Nat, jobs : Nat]
               h == Measured(setting, a)
               b == Budget(h, Concurrency(command[i]))
    <3>3. h \in H /\ (Sufficient(h) => b \in B)
      BY <2>2, <2>4
    <3> HIDE DEF H, B, h, b
    <3>4. measured \in [Proc -> H] /\ budget \in [Proc -> B]
      BY <3>2 DEF H, B
    <3>5. measured' \in {measured, [measured EXCEPT ![i] = h]}
      BY <3>1 DEF h
    <3>6. budget' = budget \/ (Sufficient(h) /\ budget' = [budget EXCEPT ![i] = b])
      BY <3>1 DEF h, b
    <3>7. measured' \in [Proc -> H] /\ budget' \in [Proc -> B]
      BY <3>3, <3>4, <3>5, <3>6
    <3> QED  BY <3>7 DEF H, B
  <2>6. /\ stage' \in [Proc -> {"enter", "runner", "gates", "measure", "resolve", "run", "over"}]
        /\ outcome' \in [Proc -> {"none", "ok", "refused", "failed", "raised", "interrupted"}]
    BY <2>1 DEF Go, End, TypeOK
  <2>7. QED
    BY <1>4, <2>5, <2>6 DEF Measure, TypeOK, given, docker
<1>5. ASSUME NEW i \in Proc, Resolve(i) PROVE Wide'
  <2>1. /\ stage' \in [Proc -> {"enter", "runner", "gates", "measure", "resolve", "run", "over"}]
        /\ outcome' \in [Proc -> {"none", "ok", "refused", "failed", "raised", "interrupted"}]
    BY <1>5, EndTypes DEF Resolve
  <2>2. shared' \in [Proc -> BOOLEAN]
    <3>1. CASE UNCHANGED shared
      BY <3>1 DEF TypeOK
    <3>2. CASE shared' = [j \in Proc |->
                 shared[j] \/ j \in {k \in Proc : Rival(i, k) /\ stage[k] = "run"}
                   \/ (j = i /\ {k \in Proc : Rival(i, k) /\ stage[k] = "run"} # {})]
      BY <3>2, Zenon DEF TypeOK
    <3>3. QED
      BY <1>5, <3>1, <3>2 DEF Resolve
  <2>3. QED
    BY <1>5, <2>1, <2>2 DEF TypeOK, Resolve, given, own, docker
<1>6. ASSUME NEW i \in Proc, FailEarly(i) PROVE Wide'
  <2>1. /\ stage' \in [Proc -> {"enter", "runner", "gates", "measure", "resolve", "run", "over"}]
        /\ outcome' \in [Proc -> {"none", "ok", "refused", "failed", "raised", "interrupted"}]
    BY <1>6, EndTypes DEF FailEarly
  <2>2. faults' \in 0 .. MaxFault
    BY <1>6, OneMoreFault DEF FailEarly
  <2>3. QED
    BY <1>6, <2>1, <2>2 DEF TypeOK, FailEarly, given, own, docker
<1>7. ASSUME NEW i \in Proc, Collect(i) PROVE Wide'
  BY <1>7 DEF TypeOK, Collect, End, Verdict, given, own, docker
<1>8. ASSUME NEW i \in Proc, Interrupt(i) PROVE Wide'
  <2>1. lane' \in [Proc -> [Flavor -> Step]]
    BY <1>8 DEF TypeOK, Interrupt, Step, Ended
  <2>2. /\ stage' \in [Proc -> {"enter", "runner", "gates", "measure", "resolve", "run", "over"}]
        /\ outcome' \in [Proc -> {"none", "ok", "refused", "failed", "raised", "interrupted"}]
    BY <1>8, EndTypes DEF Interrupt
  <2>3. faults' \in 0 .. MaxFault
    BY <1>8, OneMoreFault DEF Interrupt
  <2>4. QED
    BY <1>8, <2>1, <2>2, <2>3 DEF TypeOK, Interrupt, given, own, docker
<1>9. ASSUME NEW i \in Proc, NEW f \in Flavor, Fails(i, f) PROVE Wide'
  <2>1. lane' \in [Proc -> [Flavor -> Step]]
    BY <1>9, ToMoves DEF Fails, Step, Ended
  <2>2. faults' \in 0 .. MaxFault
    BY <1>9, OneMoreFault DEF Fails
  <2>3. QED
    BY <1>9, <2>1, <2>2 DEF TypeOK, Fails, given, own, docker
<1>10. ASSUME NEW i \in Proc, NEW f \in Flavor, Begin(i, f) PROVE Wide'
  <2>1. lane' \in [Proc -> [Flavor -> Step]]
    BY <1>10, ToMoves DEF Begin, Step
  <2>2. QED
    BY <1>10, <2>1 DEF TypeOK, Begin, given, own, docker
<1>11. ASSUME NEW i \in Proc, NEW f \in Flavor, Build(i, f) PROVE Wide'
  <2>1. lane' \in [Proc -> [Flavor -> Step]] /\ faults' \in 0 .. MaxFault
    BY <1>11, AnsweredMoves DEF Build, Step, Ended
  <2>2. tags' \in [Machine -> [Flavor -> Builder]] /\ unsound' \subseteq Proc \X Flavor
    BY <1>11 DEF Build, TypeOK, Builder
  <2>3. QED
    BY <1>11, <2>1, <2>2 DEF TypeOK, Build, given, own
<1>12. ASSUME NEW i \in Proc, NEW f \in Flavor, Inspect(i, f) PROVE Wide'
  <2>1. lane' \in [Proc -> [Flavor -> Step]] /\ faults' \in 0 .. MaxFault
    BY <1>12, AnsweredMoves DEF Inspect, Step
  <2>2. Tag(i, f) \in Builder
    BY DEF TypeOK, Tag
  <2>3. ref' \in [Proc -> [Flavor -> Builder]]
    BY <1>12, <2>2 DEF TypeOK, Inspect
  <2>4. QED
    BY <1>12, <2>1, <2>3 DEF TypeOK, Inspect, given, own, docker
<1>13. ASSUME NEW i \in Proc, NEW f \in Flavor, Smoke(i, f) PROVE Wide'
  <2>1. lane' \in [Proc -> [Flavor -> Step]] /\ faults' \in 0 .. MaxFault
    BY <1>13, AnsweredMoves, ToMoves DEF Smoke, Step, Ended, TypeOK
  <2>2. QED
    BY <1>13, <2>1 DEF TypeOK, Smoke, given, own, docker
<1>14. ASSUME NEW i \in Proc, NEW f \in Flavor, Push(i, f) PROVE Wide'
  <2>1. lane' \in [Proc -> [Flavor -> Step]] /\ faults' \in 0 .. MaxFault
    BY <1>14, AnsweredMoves DEF Push, Step
  <2>2. Tag(i, f) \in Builder /\ i \in Builder
    BY DEF TypeOK, Tag, Builder
  <2>3. [image |-> Tag(i, f), by |-> i] \in [image : Builder, by : Builder]
    BY <2>2
  <2>4. pushes' \in [Flavor -> Seq([image : Builder, by : Builder])]
    <3>1. pushes[f] \in Seq([image : Builder, by : Builder])
      BY DEF TypeOK
    <3>2. Append(pushes[f], [image |-> Tag(i, f), by |-> i])
            \in Seq([image : Builder, by : Builder])
      BY <2>3, <3>1
    <3>3. pushes' = [pushes EXCEPT ![f] = Append(pushes[f], [image |-> Tag(i, f), by |-> i])]
      BY <1>14 DEF Push
    <3>4. QED
      BY <3>2, <3>3 DEF TypeOK
  <2>6. \A g \in Flavor : pushes'[g] # <<>>
    <3>1. Append(pushes[f], [image |-> Tag(i, f), by |-> i]) # <<>>
      <4> DEFINE S == [image : Builder, by : Builder]
                 e == [image |-> Tag(i, f), by |-> i]
      <4>1. pushes[f] \in Seq(S) /\ e \in S
        BY <2>3 DEF TypeOK
      <4> HIDE DEF S, e
      <4>2. Len(Append(pushes[f], e)) = Len(pushes[f]) + 1 /\ Len(pushes[f]) \in Nat
        BY <4>1
      <4>3. Len(Append(pushes[f], e)) # 0 /\ Len(<<>>) = 0
        BY <4>2
      <4> DEFINE q == Append(pushes[f], e)
      <4> HIDE DEF q
      <4>4. q # <<>>
        <5>1. Len(q) # 0
          BY <4>3 DEF q
        <5>2. QED
          BY <4>3, <5>1, Zenon
      <4>5. QED
        BY <4>4 DEF q, e
    <3>4. pushes' = [pushes EXCEPT ![f] = Append(pushes[f], [image |-> Tag(i, f), by |-> i])]
      BY <1>14 DEF Push
    <3>5. QED
      BY <3>1, <3>4 DEF TypeOK
  <2>5. known' \in [Machine -> SUBSET (Builder \X Flavor)]
    BY <1>14, <2>2 DEF Push, TypeOK
  <2>7. /\ UNCHANGED <<given, own, ref, stage, outcome, tags, unsound, shared>>
    BY <1>14 DEF Push
  <2>8. QED
    BY <2>1, <2>4, <2>5, <2>6, <2>7 DEF TypeOK, given, own
<1>15. ASSUME NEW i \in Proc, NEW f \in Flavor, Pull(i, f) PROVE Wide'
  <2>1. lane' \in [Proc -> [Flavor -> Step]] /\ faults' \in 0 .. MaxFault
    BY <1>15, AnsweredMoves DEF Pull, Step
  <2>2. Last(pushes[f]).image \in Builder
    BY LastImage
  <2>3. tags' \in [Machine -> [Flavor -> Builder]]
    BY <1>15, <2>2 DEF Pull, TypeOK
  <2>4. known' \in [Machine -> SUBSET (Builder \X Flavor)]
    BY <1>15, <2>2 DEF Pull, TypeOK
  <2>5. QED
    BY <1>15, <2>1, <2>3, <2>4 DEF TypeOK, Pull, given, own
<1>16. ASSUME NEW i \in Proc, NEW f \in Flavor, Digest(i, f) PROVE Wide'
  <2>1. lane' \in [Proc -> [Flavor -> Step]] /\ faults' \in 0 .. MaxFault
    BY <1>16, AnsweredMoves, ToMoves DEF Digest, Step, Ended, TypeOK
  <2>2. Tag(i, f) \in Builder
    BY DEF TypeOK, Tag
  <2>3. ref' \in [Proc -> [Flavor -> Builder]]
    <3>1. CASE ref' = [ref EXCEPT ![i][f] = Tag(i, f)]
      BY <2>2, <3>1 DEF TypeOK
    <3>2. CASE UNCHANGED ref
      BY <3>2 DEF TypeOK
    <3>3. QED
      BY <1>16, <3>1, <3>2 DEF Digest
  <2>4. QED
    BY <1>16, <2>1, <2>3 DEF TypeOK, Digest, given, own, docker
<1>17. ASSUME NEW i \in Proc, NEW f \in Flavor, Check(i, f) PROVE Wide'
  <2>1. lane' \in [Proc -> [Flavor -> Step]] /\ faults' \in 0 .. MaxFault
    BY <1>17, AnsweredMoves, ToMoves DEF Check, Step, Ended, TypeOK
  <2>2. QED
    BY <1>17, <2>1 DEF TypeOK, Check, given, own, docker
<1>18. CASE UNCHANGED vars \/ Rest
  BY <1>18 DEF TypeOK, Rest, vars, given, own, docker
<1>19. QED
  BY <1>1, <1>2, <1>3, <1>4, <1>5, <1>6, <1>7, <1>8, <1>9, <1>10, <1>11, <1>12, <1>13,
     <1>14, <1>15, <1>16, <1>17, <1>18 DEF Next, Work, Trouble, Lane

\* Whatever happens, the state is of its type: theorem of every behaviour.
THEOREM TypesHold == Spec => []TypeOK
<1>1. Wide => TypeOK
  BY DEF Wide
<1>2. QED
  BY <1>1, InitTypes, StepTypes, PTL DEF Spec

LEMMA WideHolds == Spec => []Wide
BY InitTypes, StepTypes, PTL DEF Spec

---------------------------------------------------------------------------
(* The order of a command                                                    *)

Early == {"enter", "runner", "gates", "measure", "resolve"}

\* No lane moves before a command is at run, and then only the ones asked for;
\* in turn, the second begins when the first is done.
Order ==
  /\ \A i \in Proc, f \in Flavor : stage[i] \in Early => lane[i][f] = "idle"
  /\ \A i \in Proc : stage[i] = "runner" => Runner(i)
  /\ \A i \in Proc, f \in Flavor : lane[i][f] # "idle" => f \in TargetSet(command[i])
  /\ \A i \in Proc :
       ~Concurrent(command[i]) /\ lane[i]["cuda"] # "idle" /\ "cpu" \in TargetSet(command[i])
         => lane[i]["cpu"] = "done"

\* A step of a lane is one of a command at run, whose lane it leaves begun.
LEMMA OneLane ==
  ASSUME Wide, NEW i \in Proc, NEW f \in Flavor, Fails(i, f) \/ Lane(i, f)
  PROVE  /\ stage[i] = "run" /\ lane[i][f] \notin Ended /\ lane'[i][f] # "idle"
         /\ lane[i][f] = "idle" => MayBegin(i, f)
         /\ \A j \in Proc, g \in Flavor : j # i \/ g # f => lane'[j][g] = lane[j][g]
         /\ setting' = setting /\ home' = home /\ command' = command
         /\ stage' = stage /\ outcome' = outcome
         /\ measured' = measured /\ budget' = budget /\ shared' = shared
<1> USE DEF Wide
<1> DEFINE Same == /\ setting' = setting /\ home' = home /\ command' = command
                   /\ stage' = stage /\ outcome' = outcome
                   /\ measured' = measured /\ budget' = budget /\ shared' = shared
<1>1. CASE Fails(i, f)
  <2>1. Moves(i, f, {"failed", "raised"})
    BY <1>1, ToMoves DEF Fails, Step, Ended, Moves
  <2>2. Same /\ stage[i] = "run" /\ Running(i, f)
    BY <1>1 DEF Fails, given, own
  <2>3. QED
    BY <2>1, <2>2 DEF Moves, Running
<1>2. CASE Begin(i, f)
  <2>1. Moves(i, f, {"build"})
    BY <1>2, ToMoves DEF Begin, Step
  <2>2. Same /\ stage[i] = "run" /\ lane[i][f] = "idle" /\ MayBegin(i, f)
    BY <1>2 DEF Begin, At, given, own
  <2>3. QED
    BY <2>1, <2>2 DEF Moves, Ended
<1>3. CASE Build(i, f)
  <2>1. Moves(i, f, {"inspect", "done", "failed", "raised"})
    BY <1>3, AnsweredMoves DEF Build, Step, Ended, Moves
  <2>2. Same /\ stage[i] = "run" /\ lane[i][f] = "build"
    BY <1>3 DEF Build, At, given, own
  <2>3. QED
    BY <2>1, <2>2 DEF Moves, Ended
<1>4. CASE Inspect(i, f)
  <2>1. Moves(i, f, {"smoke", "failed", "raised"})
    BY <1>4, AnsweredMoves DEF Inspect, Step, Moves
  <2>2. Same /\ stage[i] = "run" /\ lane[i][f] = "inspect"
    BY <1>4 DEF Inspect, At, given, own
  <2>3. QED
    BY <2>1, <2>2 DEF Moves, Ended
<1>5. CASE Smoke(i, f)
  <2>1. Moves(i, f, {"push", "failed", "raised"})
    BY <1>5, AnsweredMoves, ToMoves DEF Smoke, Step, Ended, Moves
  <2>2. Same /\ stage[i] = "run" /\ lane[i][f] = "smoke"
    BY <1>5 DEF Smoke, At, given, own
  <2>3. QED
    BY <2>1, <2>2 DEF Moves, Ended
<1>6. CASE Push(i, f)
  <2>1. Moves(i, f, {"pull", "failed", "raised"})
    BY <1>6, AnsweredMoves DEF Push, Step, Moves
  <2>2. Same /\ stage[i] = "run" /\ lane[i][f] = "push"
    BY <1>6 DEF Push, At, given, own
  <2>3. QED
    BY <2>1, <2>2 DEF Moves, Ended
<1>7. CASE Pull(i, f)
  <2>1. Moves(i, f, {"digest", "failed", "raised"})
    BY <1>7, AnsweredMoves DEF Pull, Step, Moves
  <2>2. Same /\ stage[i] = "run" /\ lane[i][f] = "pull"
    BY <1>7 DEF Pull, At, given, own
  <2>3. QED
    BY <2>1, <2>2 DEF Moves, Ended
<1>8. CASE Digest(i, f)
  <2>1. Moves(i, f, {"check", "failed", "raised"})
    BY <1>8, AnsweredMoves, ToMoves DEF Digest, Step, Ended, Moves
  <2>2. Same /\ stage[i] = "run" /\ lane[i][f] = "digest"
    BY <1>8 DEF Digest, At, given, own
  <2>3. QED
    BY <2>1, <2>2 DEF Moves, Ended
<1>9. CASE Check(i, f)
  <2>1. Moves(i, f, {"done", "failed", "raised"})
    BY <1>9, AnsweredMoves, ToMoves DEF Check, Step, Ended, Moves
  <2>2. Same /\ stage[i] = "run" /\ lane[i][f] = "check"
    BY <1>9 DEF Check, At, given, own
  <2>3. QED
    BY <2>1, <2>2 DEF Moves, Ended
<1>10. QED
  BY <1>1, <1>2, <1>3, <1>4, <1>5, <1>6, <1>7, <1>8, <1>9 DEF Lane

\* An interruption moves no lane that is idle or at its end.
LEMMA Interrupted ==
  ASSUME Wide, NEW i \in Proc, Interrupt(i)
  PROVE  /\ \A f \in Flavor :
              lane'[i][f] = IF Running(i, f) THEN "failed" ELSE lane[i][f]
         /\ \A j \in Proc \ {i}, f \in Flavor : lane'[j][f] = lane[j][f]
         /\ stage[i] # "over" /\ stage'[i] = "over" /\ outcome'[i] = "interrupted"
         /\ \A j \in Proc \ {i} : stage'[j] = stage[j] /\ outcome'[j] = outcome[j]
         /\ command' = command /\ setting' = setting /\ home' = home
         /\ ref' = ref /\ tags' = tags /\ known' = known /\ pushes' = pushes
         /\ unsound' = unsound /\ shared' = shared
         /\ measured' = measured /\ budget' = budget
BY DEF Wide, TypeOK, Interrupt, End, given, own, docker

\* What a step of the command itself, that moves no lane, does to its stage.
Stepped(i) ==
  /\ \/ stage[i] \in Early /\ stage'[i] \in {"over", "gates", "measure", "resolve", "run"}
     \/ stage[i] = "enter" /\ stage'[i] = "runner" /\ Runner(i)
     \/ stage[i] = "run" /\ stage'[i] = "over"
  /\ \A j \in Proc \ {i} : stage'[j] = stage[j] /\ outcome'[j] = outcome[j]

LEMMA StageSteps ==
  ASSUME Wide, [Next]_vars, Quiet
  PROVE  \/ \E i \in Proc : Stepped(i)
         \/ stage' = stage /\ outcome' = outcome
         \/ \E i \in Proc, f \in Flavor : Fails(i, f) \/ Lane(i, f)
         \/ \E i \in Proc : Interrupt(i)
<1>1. ASSUME NEW i \in Proc, Enter(i) PROVE Stepped(i)
  BY <1>1 DEF Enter, Go, End, Stepped, Early, Wide, TypeOK
<1>2. ASSUME NEW i \in Proc, RunTools(i) PROVE Stepped(i)
  BY <1>2 DEF RunTools, End, Stepped, Early, Wide, TypeOK
<1>3. ASSUME NEW i \in Proc, PassGates(i) PROVE Stepped(i)
  BY <1>3 DEF PassGates, Go, End, Stepped, Early, Wide, TypeOK
<1>4. ASSUME NEW i \in Proc, Measure(i) PROVE Stepped(i)
  BY <1>4 DEF Measure, Go, End, Stepped, Early, Wide, TypeOK
<1>5. ASSUME NEW i \in Proc, Resolve(i) PROVE Stepped(i)
  BY <1>5 DEF Resolve, Go, End, Stepped, Early, Wide, TypeOK
<1>6. ASSUME NEW i \in Proc, FailEarly(i) PROVE Stepped(i)
  BY <1>6 DEF FailEarly, End, Stepped, Early, Wide, TypeOK
<1>7. ASSUME NEW i \in Proc, Collect(i) PROVE Stepped(i)
  BY <1>7 DEF Collect, End, Stepped, Early, Wide, TypeOK
<1>8. UNCHANGED vars \/ Rest => stage' = stage /\ outcome' = outcome
  BY DEF Rest, vars
<1>9. ASSUME NEW i \in Proc, Work(i) \/ Trouble(i)
      PROVE  \/ Stepped(i) \/ Interrupt(i)
             \/ \E f \in Flavor : Fails(i, f) \/ Lane(i, f)
  BY <1>1, <1>2, <1>3, <1>4, <1>5, <1>6, <1>7, <1>9 DEF Work, Trouble
<1>10. QED
  BY <1>8, <1>9 DEF Next

LEMMA StepOrder == Wide /\ Order /\ [Next]_vars => Order'
<1> SUFFICES ASSUME Wide, Order, [Next]_vars PROVE Order'
  OBVIOUS
<1>1. ASSUME NEW i \in Proc, NEW f \in Flavor, Fails(i, f) \/ Lane(i, f) PROVE Order'
  <2>1. /\ stage[i] = "run" /\ lane[i][f] \notin Ended /\ lane'[i][f] # "idle"
        /\ lane[i][f] = "idle" => MayBegin(i, f)
        /\ \A j \in Proc, g \in Flavor : j # i \/ g # f => lane'[j][g] = lane[j][g]
        /\ command' = command /\ stage' = stage
    BY <1>1, OneLane
  <2>2. \A j \in Proc, g \in Flavor : stage'[j] \in Early => lane'[j][g] = "idle"
    BY <2>1 DEF Order, Early
  <2>3. \A j \in Proc : stage'[j] = "runner" => Runner(j)'
    BY <2>1 DEF Order, Runner
  <2>4. \A j \in Proc, g \in Flavor : lane'[j][g] # "idle" => g \in TargetSet(command[j])
    BY <2>1 DEF Order, MayBegin
  <2>5. \A j \in Proc :
          ~Concurrent(command[j]) /\ lane'[j]["cuda"] # "idle" /\ "cpu" \in TargetSet(command[j])
            => lane'[j]["cpu"] = "done"
    <3> SUFFICES ASSUME NEW j \in Proc, ~Concurrent(command[j]), lane'[j]["cuda"] # "idle",
                        "cpu" \in TargetSet(command[j])
                 PROVE  lane'[j]["cpu"] = "done"
      OBVIOUS
    <3>1. "cpu" \in Flavor /\ "cuda" \in Flavor /\ "cpu" # "cuda"
      BY DEF Flavor
    <3>2. lane[j]["cpu"] = "done"
      BY <2>1, <3>1 DEF Order, MayBegin
    <3>3. QED
      BY <2>1, <3>1, <3>2 DEF Ended
  <2>6. QED
    BY <2>1, <2>2, <2>3, <2>4, <2>5 DEF Order
<1>2. ASSUME NEW i \in Proc, Interrupt(i) PROVE Order'
  <2>1. \A j \in Proc, g \in Flavor :
          /\ lane'[j][g] \in {lane[j][g], "failed"}
          /\ lane[j][g] \in Ended \cup {"idle"} => lane'[j][g] = lane[j][g]
    BY <1>2, Interrupted DEF Running
  <2>2. /\ command' = command
        /\ \A j \in Proc : stage'[j] \in {stage[j], "over"}
    BY <1>2, Interrupted
  <2>3. \A j \in Proc, g \in Flavor : lane'[j][g] # "idle" => lane[j][g] # "idle"
    BY <2>1
  <2>4. "cpu" \in Flavor /\ "cuda" \in Flavor
    BY DEF Flavor
  <2>5. \A j \in Proc, g \in Flavor : lane[j][g] = "done" => lane'[j][g] = "done"
    BY <2>1 DEF Ended
  <2>6. QED
    BY <2>1, <2>2, <2>3, <2>4, <2>5 DEF Order, Early, Runner
<1>3. CASE Quiet
  <2>1. lane' = lane /\ command' = command
    BY <1>3 DEF Quiet, given
  <2>2. ASSUME NEW i \in Proc, Stepped(i) PROVE Order'
    <3>1. \A j \in Proc : stage'[j] \in Early => stage[j] \in Early
      BY <2>2 DEF Stepped, Early
    <3>2. \A j \in Proc : stage'[j] = "runner" => Runner(j)
      BY <2>2 DEF Stepped, Order
    <3>3. QED
      BY <2>1, <3>1, <3>2 DEF Order, Runner
  <2>3. CASE stage' = stage
    BY <2>1, <2>3 DEF Order, Runner
  <2>4. QED
    BY <1>1, <1>2, <1>3, <2>2, <2>3, StageSteps
<1>4. QED
  BY <1>1, <1>2, <1>3, Kinds

LEMMA OrderHolds == Spec => [](Wide /\ Order)
<1>1. Init => Order
  BY DEF Init, Order, Flavor
<1>2. QED
  BY <1>1, InitTypes, StepTypes, StepOrder, PTL DEF Spec

---------------------------------------------------------------------------
(* The caps hold for the builds that run                                     *)

\* From its measurement on, a command on Linux has caps that fit the host.
Sized ==
  \A i \in Proc : setting.linux /\ stage[i] \in {"resolve", "run"}
    => Fit(budget[i], measured[i], Concurrency(command[i]))

LEMMA StepSized == Wide /\ Sized /\ [Next]_vars => Sized'
<1> SUFFICES ASSUME Wide, Sized, [Next]_vars PROVE Sized'
  OBVIOUS
<1>1. ASSUME NEW i \in Proc, Measure(i) PROVE Sized'
  <2>1. PICK a \in Available :
          LET h == Measured(setting, a)
          IN IF ~setting.linux THEN Go(i, "resolve") /\ UNCHANGED own
             ELSE /\ measured' = [measured EXCEPT ![i] = h]
                  /\ IF Sufficient(h)
                     THEN /\ budget' = [budget EXCEPT ![i] = Budget(h, Concurrency(command[i]))]
                          /\ Go(i, "resolve")
                     ELSE End(i, "refused") /\ UNCHANGED budget
    BY <1>1 DEF Measure
  <2> DEFINE h == Measured(setting, a)
             n == Concurrency(command[i])
  <2>2. setting' = setting /\ command' = command
    BY <1>1 DEF Measure, given
  <2>3. h \in [cpus : Nat, total : Nat, available : Nat] /\ n \in {1, 2}
    BY BasePublishAssumption DEF Measured, Wide, TypeOK, Concurrency
  <2>4. Sufficient(h) => Fit(Budget(h, n), h, n)
    BY <2>3, BudgetFits
  <2> HIDE DEF h, n
  <2>5. ASSUME NEW j \in Proc, setting.linux, stage'[j] \in {"resolve", "run"}
        PROVE  Fit(budget'[j], measured'[j], Concurrency(command[j]))
    <3>1. CASE j # i
      <4>1. budget'[j] = budget[j] /\ measured'[j] = measured[j] /\ stage'[j] = stage[j]
        BY <2>1, <2>5, <3>1 DEF Wide, TypeOK, Go, End, own
      <4>2. QED
        BY <2>5, <4>1 DEF Sized
    <3>2. CASE j = i /\ Sufficient(h)
      <4>1. budget'[i] = Budget(h, n) /\ measured'[i] = h
        BY <2>1, <2>5, <3>2 DEF Wide, h, n
      <4>2. QED
        BY <2>4, <3>2, <4>1 DEF n
    <3>3. CASE j = i /\ ~Sufficient(h)
      <4>1. stage'[i] = "over"
        BY <2>1, <2>5, <3>3 DEF Wide, TypeOK, End, h
      <4>2. QED
        BY <2>5, <3>3, <4>1
    <3>4. QED
      BY <3>1, <3>2, <3>3
  <2>6. QED
    BY <2>2, <2>5 DEF Sized
\* Elsewhere the caps stay as they are, and no command comes to "resolve".
<1>2. ASSUME budget' = budget, measured' = measured, setting' = setting, command' = command,
             \A j \in Proc : stage'[j] \in {"resolve", "run"} => stage[j] \in {"resolve", "run"}
      PROVE  Sized'
  BY <1>2 DEF Sized
<1>3. ASSUME NEW i \in Proc,
             Enter(i) \/ RunTools(i) \/ PassGates(i) \/ FailEarly(i) \/ Resolve(i) \/ Collect(i)
      PROVE  Sized'
  <2>1. budget' = budget /\ measured' = measured /\ setting' = setting /\ command' = command
    BY <1>3 DEF Enter, RunTools, PassGates, FailEarly, Resolve, Collect, own, given
  <2>2. \A j \in Proc : stage'[j] \in {"resolve", "run"} => stage[j] \in {"resolve", "run"}
    <3>1. CASE Enter(i)
      BY <3>1 DEF Enter, Go, End, Wide, TypeOK
    <3>2. CASE RunTools(i) \/ FailEarly(i) \/ Collect(i)
      BY <3>2 DEF RunTools, FailEarly, Collect, End, Wide, TypeOK
    <3>3. CASE PassGates(i)
      BY <3>3 DEF PassGates, Go, End, Wide, TypeOK
    <3>4. CASE Resolve(i)
      BY <3>4 DEF Resolve, Go, End, Wide, TypeOK
    <3>5. QED
      BY <1>3, <3>1, <3>2, <3>3, <3>4
  <2>3. QED
    BY <1>2, <2>1, <2>2
<1>4. ASSUME NEW i \in Proc, NEW f \in Flavor, Fails(i, f) \/ Lane(i, f) PROVE Sized'
  BY <1>2, <1>4, OneLane
<1>5. ASSUME NEW i \in Proc, Interrupt(i) PROVE Sized'
  <2>1. \A j \in Proc : stage'[j] \in {stage[j], "over"}
    BY <1>5, Interrupted
  <2>2. QED
    BY <1>2, <1>5, <2>1, Interrupted
<1>6. CASE UNCHANGED vars \/ Rest
  BY <1>2, <1>6 DEF Rest, vars, own, given
<1>7. QED
  BY <1>1, <1>3, <1>4, <1>5, <1>6 DEF Next, Work, Trouble

\* In turn, one flavor is built at a time.
LEMMA OneAtATime ==
  ASSUME Wide, Order, NEW i \in Proc, Building(i) # {}
  PROVE  /\ Cardinality(Building(i)) \in {1, 2}
         /\ Cardinality(Building(i)) <= Concurrency(command[i])
<1>1. Building(i) \subseteq {"cpu", "cuda"} /\ "cpu" # "cuda"
  BY DEF Building, Flavor
<1>2. CASE Building(i) = {"cpu", "cuda"}
  <2>1. lane[i]["cpu"] = "build" /\ lane[i]["cuda"] = "build"
    BY <1>2 DEF Building, At
  <2>2. "cpu" \in TargetSet(command[i])
    BY <2>1 DEF Order, Flavor
  <2>3. Concurrent(command[i])
    BY <2>1, <2>2 DEF Order
  <2>4. Cardinality({"cpu", "cuda"}) = 2
    <3>1. IsFiniteSet({"cpu"}) /\ Cardinality({"cpu"}) = 1 /\ "cuda" \notin {"cpu"}
      BY FS_Singleton
    <3>2. Cardinality({"cpu"} \cup {"cuda"}) = 2
      BY <3>1, FS_AddElement
    <3>3. {"cpu"} \cup {"cuda"} = {"cpu", "cuda"}
      OBVIOUS
    <3>4. QED
      BY <3>2, <3>3
  <2>5. QED
    BY <1>2, <2>3, <2>4 DEF Concurrency
<1>3. CASE Building(i) # {"cpu", "cuda"}
  <2>1. PICK f \in {"cpu", "cuda"} : Building(i) = {f}
    BY <1>1, <1>3
  <2>2. Cardinality({f}) = 1
    BY FS_Singleton
  <2>3. QED
    BY <2>1, <2>2 DEF Concurrency
<1>4. QED
  BY <1>2, <1>3

\* Fewer builds than the caps were made for fit as well.
LEMMA FewerFit ==
  ASSUME NEW b \in [cpus : Nat, memory : Nat, jobs : Nat],
         NEW h \in [cpus : Nat, total : Nat, available : Nat],
         NEW n \in {1, 2}, NEW m \in {1, 2}, m <= n, Fit(b, h, n)
  PROVE  Fit(b, h, m)
<1>1. MiB = 1024 /\ Headroom(h.available) \in Nat
  BY SMT DEF MiB, GiB, Headroom, MinHeadroom, Larger
<1>2. CASE m = n
  BY <1>2
<1>3. CASE m = 1 /\ n = 2
  <2> DEFINE room == Headroom(h.available)
  <2> HIDE DEF room
  <2>1. 1 * b.cpus < h.cpus
    BY SMT, <1>3 DEF Fit
  <2>2. 1 * b.memory * 1024 + room <= h.available
    BY SMT, <1>1, <1>3 DEF Fit, room
  <2>3. QED
    BY SMT, <1>1, <1>3, <2>1, <2>2 DEF Fit, room
<1>4. QED
  BY SMT, <1>2, <1>3

\* The builds that run together leave the host its processor and its headroom,
\* on every host, however much of it was available (resources.py).
THEOREM CapsFit == Spec => []CapsFitTheHost
<1>1. Init => Sized
  BY DEF Init, Sized
<1>2. Wide /\ Order /\ Sized => CapsFitTheHost
  <2> SUFFICES ASSUME Wide, Order, Sized, NEW i \in Proc, setting.linux, Building(i) # {}
               PROVE  Fit(budget[i], measured[i], Cardinality(Building(i)))
    BY DEF CapsFitTheHost, Fit
  <2>1. stage[i] = "run"
    BY DEF Building, At
  <2>2. Fit(budget[i], measured[i], Concurrency(command[i]))
    BY <2>1 DEF Sized
  <2>3. /\ budget[i] \in [cpus : Nat, memory : Nat, jobs : Nat]
        /\ measured[i] \in [cpus : Nat, total : Nat, available : Nat]
        /\ Concurrency(command[i]) \in {1, 2}
    BY DEF Wide, Concurrency
  <2>4. QED
    BY <2>2, <2>3, OneAtATime, FewerFit
<1>3. QED
  BY <1>1, <1>2, InitTypes, StepTypes, StepSized, OrderHolds, PTL DEF Spec

---------------------------------------------------------------------------
(* The end of a command                                                      *)

\* What FailuresStayApart says of one command.
Apart(i) ==
  stage[i] = "over" =>
    /\ \A f \in Flavor : ~Running(i, f)
    /\ outcome[i] \in {"ok", "failed", "raised"} /\ ~Runner(i) =>
         /\ outcome[i] = "ok" <=> \A f \in TargetSet(command[i]) : lane[i][f] = "done"
         /\ Concurrent(command[i]) => \A f \in Flavor : lane[i][f] # "idle"
         /\ ~Concurrent(command[i]) /\ lane[i]["cpu"] \in {"failed", "raised"}
              => lane[i]["cuda"] = "idle"

\* A command that is over stays as it ended.
LEMMA OverStays ==
  ASSUME Wide, NEW i \in Proc, Apart(i), command' = command, stage[i] = "over",
         outcome'[i] = outcome[i], \A f \in Flavor : lane'[i][f] = lane[i][f]
  PROVE  Apart(i)'
<1>1. TargetSet(command[i]) \subseteq Flavor /\ "cpu" \in Flavor /\ "cuda" \in Flavor
  BY BasePublishAssumption DEF TargetSet, Wide, TypeOK, Flavor
<1>2. command'[i] = command[i] /\ Runner(i)' = Runner(i)
  BY DEF Runner
<1>3. \A f \in Flavor : ~Running(i, f)'
  BY DEF Apart, Running
<1>4. QED
  BY <1>1, <1>2, <1>3 DEF Apart

LEMMA StepApart ==
  ASSUME Wide, Order, [Next]_vars, NEW j \in Proc, Apart(j)
  PROVE  Apart(j)'
<1>1. TargetSet(command[j]) \subseteq Flavor
  <2>1. command[j].flavor \in Flavor \cup {"both"}
    BY BasePublishAssumption DEF Wide, TypeOK
  <2> QED  BY <2>1 DEF TargetSet
<1>2. ASSUME Collect(j) PROVE Apart(j)'
  <2>1. /\ lane' = lane /\ command' = command /\ outcome'[j] = Verdict(j)
    BY <1>2 DEF Collect, given, End, Wide, TypeOK
  <2>2. \/ \A f \in TargetSet(command[j]) : lane[j][f] \in Ended
        \/ ~Concurrent(command[j]) /\ (Some(j, "failed") \/ Some(j, "raised"))
    BY <1>2 DEF Collect
  <2>3. \A f \in Flavor : lane[j][f] # "idle" => f \in TargetSet(command[j])
    BY DEF Order
  <2>4. ~Concurrent(command[j]) /\ lane[j]["cuda"] # "idle" /\ "cpu" \in TargetSet(command[j])
          => lane[j]["cpu"] = "done"
    BY DEF Order
  <2>5. \A f \in Flavor : lane[j][f] \in Ended \cup {"idle"}
    <3>1. CASE \A f \in TargetSet(command[j]) : lane[j][f] \in Ended
      BY <2>3, <3>1
    <3>2. CASE ~Concurrent(command[j]) /\ (Some(j, "failed") \/ Some(j, "raised"))
      <4>1. PICK f \in TargetSet(command[j]) : lane[j][f] \in {"failed", "raised"}
        BY <3>2 DEF Some
      <4>2. CASE f = "cpu"
        BY <2>4, <3>2, <4>1, <4>2 DEF Flavor, Ended
      <4>3. CASE f = "cuda"
        BY <2>3, <2>4, <3>2, <4>1, <4>3 DEF Flavor, Ended
      <4>4. QED
        BY <1>1, <4>2, <4>3 DEF Flavor
    <3>3. QED
      BY <2>2, <3>1, <3>2
  <2>6. Verdict(j) = "ok" <=> \A f \in TargetSet(command[j]) : lane[j][f] = "done"
    <3>1. CASE Some(j, "raised") \/ Some(j, "failed")
      BY <3>1 DEF Some, Verdict
    <3>2. CASE ~Some(j, "raised") /\ ~Some(j, "failed")
      BY <2>2, <3>2 DEF Some, Verdict, Ended
    <3>3. QED
      BY <3>1, <3>2
  <2>7. Concurrent(command[j]) => \A f \in Flavor : lane[j][f] # "idle"
    BY <2>2 DEF Concurrent, TargetSet, Ended
  <2>8. ~Concurrent(command[j]) /\ lane[j]["cpu"] \in {"failed", "raised"}
          => lane[j]["cuda"] = "idle"
    BY <2>3, <2>4 DEF Flavor
  <2>9. QED
    BY <2>1, <2>5, <2>6, <2>7, <2>8 DEF Apart, Running, Flavor
<1>3. ASSUME Enter(j) \/ RunTools(j) \/ PassGates(j) \/ FailEarly(j) \/ Measure(j) \/ Resolve(j)
      PROVE  Apart(j)'
  <2>1. lane' = lane /\ command' = command /\ stage[j] \in Early
    BY <1>3 DEF Enter, RunTools, PassGates, FailEarly, Measure, Resolve, given, Early
  <2>2. \A f \in Flavor : lane[j][f] = "idle"
    BY <2>1 DEF Order
  <2>3. stage'[j] = "over" => outcome'[j] = "refused" \/ Runner(j)
    <3>1. CASE RunTools(j)
      BY <3>1 DEF RunTools, Order
    <3>2. CASE Enter(j)
      BY <3>2 DEF Enter, Go, End, Wide, TypeOK
    <3>3. CASE PassGates(j) \/ FailEarly(j)
      BY <3>3 DEF PassGates, FailEarly, Go, End, Wide, TypeOK
    <3>4. CASE Measure(j)
      BY <3>4 DEF Measure, Go, End, Wide, TypeOK
    <3>5. CASE Resolve(j)
      BY <3>5 DEF Resolve, Go, End, Wide, TypeOK
    <3>6. QED
      BY <1>3, <3>1, <3>2, <3>3, <3>4, <3>5
  <2>4. QED
    BY <2>1, <2>2, <2>3 DEF Apart, Running, Runner
<1>4. ASSUME NEW i \in Proc, i # j,
             \/ Enter(i) \/ RunTools(i) \/ PassGates(i) \/ FailEarly(i)
             \/ Measure(i) \/ Resolve(i) \/ Collect(i)
      PROVE  Apart(j)'
  <2>1. lane' = lane /\ command' = command
    BY <1>4 DEF Enter, RunTools, PassGates, FailEarly, Measure, Resolve, Collect, given
  <2>2. stage'[j] = stage[j] /\ outcome'[j] = outcome[j]
    <3>1. CASE Enter(i) \/ PassGates(i)
      BY <1>4, <3>1 DEF Enter, PassGates, Go, End, Wide, TypeOK
    <3>2. CASE RunTools(i) \/ FailEarly(i) \/ Collect(i)
      BY <1>4, <3>2 DEF RunTools, FailEarly, Collect, End, Wide, TypeOK
    <3>3. CASE Measure(i)
      BY <1>4, <3>3 DEF Measure, Go, End, Wide, TypeOK
    <3>4. CASE Resolve(i)
      BY <1>4, <3>4 DEF Resolve, Go, End, Wide, TypeOK
    <3>5. QED
      BY <1>4, <3>1, <3>2, <3>3, <3>4
  <2>3. CASE stage[j] = "over"
    BY <2>1, <2>2, <2>3, OverStays
  <2>4. CASE stage[j] # "over"
    BY <2>2, <2>4 DEF Apart
  <2>5. QED
    BY <2>3, <2>4
<1>5. ASSUME NEW i \in Proc, NEW f \in Flavor, Fails(i, f) \/ Lane(i, f) PROVE Apart(j)'
  <2>1. /\ stage[i] = "run" /\ command' = command /\ stage' = stage /\ outcome' = outcome
        /\ \A g \in Flavor : j # i => lane'[j][g] = lane[j][g]
    BY <1>5, OneLane
  <2>2. CASE stage[j] = "over"
    <3>1. j # i
      BY <2>1, <2>2
    <3>2. QED
      BY <2>1, <2>2, <3>1, OverStays
  <2>3. CASE stage[j] # "over"
    BY <2>1, <2>3 DEF Apart
  <2>4. QED
    BY <2>2, <2>3
<1>6. ASSUME NEW i \in Proc, Interrupt(i) PROVE Apart(j)'
  <2>1. CASE i = j
    <3>1. outcome'[j] = "interrupted" /\ \A f \in Flavor : lane'[j][f] \in Ended \cup {"idle"}
      BY <1>6, <2>1, Interrupted DEF Running, Ended
    <3>2. QED
      BY <3>1 DEF Apart, Running
  <2>2. CASE i # j
    <3>1. /\ stage'[j] = stage[j] /\ outcome'[j] = outcome[j] /\ command' = command
          /\ \A f \in Flavor : lane'[j][f] = lane[j][f]
      BY <1>6, <2>2, Interrupted
    <3>2. CASE stage[j] = "over"
      BY <3>1, <3>2, OverStays
    <3>3. CASE stage[j] # "over"
      BY <3>1, <3>3 DEF Apart
    <3>4. QED
      BY <3>2, <3>3
  <2>3. QED
    BY <2>1, <2>2
<1>7. CASE UNCHANGED vars \/ Rest
  <2>1. lane' = lane /\ command' = command /\ stage' = stage /\ outcome' = outcome
    BY <1>7 DEF Rest, vars, given
  <2>2. CASE stage[j] = "over"
    BY <2>1, <2>2, OverStays
  <2>3. CASE stage[j] # "over"
    BY <2>1, <2>3 DEF Apart
  <2>4. QED
    BY <2>2, <2>3
<1>8. ASSUME NEW i \in Proc, Work(i) \/ Trouble(i) PROVE Apart(j)'
  BY <1>2, <1>3, <1>4, <1>5, <1>6, <1>8 DEF Work, Trouble
<1>9. QED
  BY <1>7, <1>8 DEF Next

\* No command ends before its lanes do; a failure of one flavor neither stops
\* the other beside it nor passes for success, and in turn none follows it.
THEOREM FailuresApart == Spec => []FailuresStayApart
<1> DEFINE All == \A i \in Proc : Apart(i)
<1>1. Init => All
  BY DEF Init, Apart
<1>2. Wide /\ Order /\ All /\ [Next]_vars => All'
  BY StepApart
<1>3. All => FailuresStayApart
  BY DEF Apart, FailuresStayApart
<1> HIDE DEF All
<1>4. QED
  BY <1>1, <1>2, <1>3, OrderHolds, PTL DEF Spec

---------------------------------------------------------------------------
(* What a step of a lane does                                                *)

\* The lane that moves: where it came from, and what it did on the way.
OwnLane(i, f) ==
  /\ lane'[i][f] \notin {"idle", lane[i][f]}
  /\ lane'[i][f] = "build" => lane[i][f] = "idle"
  /\ lane'[i][f] = "inspect" => lane[i][f] = "build" /\ tags'[home[i]][f] = i
  /\ lane'[i][f] = "smoke" =>
       lane[i][f] = "inspect" /\ ref'[i][f] = Tag(i, f) /\ tags' = tags
  /\ lane'[i][f] = "push" =>
       /\ lane[i][f] = "smoke" /\ ~Broken(ref[i][f], f)
       /\ ref' = ref /\ tags' = tags /\ unsound' = unsound
  /\ lane'[i][f] = "pull" =>
       lane[i][f] = "push" /\ pushes'[f] = Append(pushes[f], [image |-> Tag(i, f), by |-> i])
  /\ lane'[i][f] = "digest" =>
       lane[i][f] = "pull" /\ tags'[home[i]][f] = Last(pushes[f]).image /\ pushes' = pushes
  /\ lane'[i][f] = "check" =>
       /\ lane[i][f] = "digest" /\ <<Tag(i, f), f>> \in known[home[i]]
       /\ ref'[i][f] = Tag(i, f) /\ pushes' = pushes
  /\ lane'[i][f] = "done" /\ Publishes(i) =>
       /\ lane[i][f] = "check" /\ ~Broken(ref[i][f], f)
       /\ ref' = ref /\ pushes' = pushes /\ unsound' = unsound

\* What it leaves to everyone else.
Effects(j, g) ==
  /\ \A i \in Proc, f \in Flavor :
       ref'[i][f] = ref[i][f] \/ (i = j /\ f = g /\ ref'[i][f] = Tag(j, g))
  /\ \A m \in Machine, f \in Flavor :
       \/ tags'[m][f] = tags[m][f]
       \/ m = home[j] /\ f = g /\ tags'[m][f] = j /\ lane[j][g] = "build"
       \/ /\ m = home[j] /\ f = g /\ tags'[m][f] = Last(pushes[g]).image
          /\ lane[j][g] = "pull" /\ pushes' = pushes
  /\ \A x, f : <<x, f>> \in unsound' =>
       <<x, f>> \in unsound \/ (x = j /\ f = g /\ lane[j][g] = "build")
  /\ \A f \in Flavor :
       \/ pushes'[f] = pushes[f]
       \/ /\ f = g /\ lane[j][g] = "push" /\ tags' = tags
          /\ pushes'[f] = Append(pushes[f], [image |-> Tag(j, g), by |-> j])
  /\ \A m \in Machine : \A x : x \in known'[m] =>
       \/ x \in known[m]
       \/ /\ m = home[j] /\ x = <<Tag(j, g), g>> /\ lane[j][g] = "push"
          /\ pushes'[g] = Append(pushes[g], [image |-> Tag(j, g), by |-> j])
       \/ m = home[j] /\ x = <<Last(pushes[g]).image, g>> /\ lane[j][g] = "pull"

LEMMA LaneEffects ==
  ASSUME Wide, NEW i \in Proc, NEW f \in Flavor, Fails(i, f) \/ Lane(i, f)
  PROVE  OwnLane(i, f) /\ Effects(i, f)
<1> DEFINE Tags == tags \in [Machine -> [Flavor -> Builder]] /\ home[i] \in Machine
           Refs == ref \in [Proc -> [Flavor -> Builder]]
           Knows == known \in [Machine -> SUBSET (Builder \X Flavor)]
           Pushed == DOMAIN pushes = Flavor
<1>1. TypeOK /\ Tags /\ Refs /\ Knows /\ Pushed
  BY DEF Wide, TypeOK
<1>2. CASE Fails(i, f)
  <2>1. Moves(i, f, {"failed", "raised"}) /\ Running(i, f)
    BY <1>1, <1>2, ToMoves DEF Fails, Step, Ended, Moves
  <2>2. ref' = ref /\ tags' = tags /\ known' = known /\ pushes' = pushes /\ unsound' = unsound
    BY <1>2 DEF Fails, docker
  <2>3. QED
    BY <2>1, <2>2 DEF Moves, OwnLane, Effects, Running, Ended
<1>3. CASE Begin(i, f)
  <2>1. Moves(i, f, {"build"}) /\ lane[i][f] = "idle"
    BY <1>1, <1>3, ToMoves DEF Begin, Step, At
  <2>2. ref' = ref /\ tags' = tags /\ known' = known /\ pushes' = pushes /\ unsound' = unsound
    BY <1>3 DEF Begin, docker
  <2>3. QED
    BY <2>1, <2>2 DEF Moves, OwnLane, Effects
<1>4. CASE Build(i, f)
  <2>1. Moves(i, f, {IF Publishes(i) THEN "inspect" ELSE "done", "failed", "raised"})
        /\ lane[i][f] = "build"
    BY <1>1, <1>4, AnsweredMoves DEF Build, Step, Ended, At
  <2>2. /\ ref' = ref /\ known' = known /\ pushes' = pushes
        /\ tags' = [tags EXCEPT ![home[i]][f] = i]
        /\ unsound' = unsound \/ unsound' = unsound \cup {<<i, f>>}
    BY <1>4 DEF Build
  <2>3. tags'[home[i]][f] = i
    BY <1>1, <2>2
  <2>4. OwnLane(i, f)
    BY <2>1, <2>3 DEF Moves, OwnLane
  <2>5. Effects(i, f)
    BY <1>1, <2>1, <2>2 DEF Effects
  <2>6. QED
    BY <2>4, <2>5
<1>5. CASE Inspect(i, f)
  <2>1. Moves(i, f, {"smoke", "failed", "raised"}) /\ lane[i][f] = "inspect"
    BY <1>1, <1>5, AnsweredMoves DEF Inspect, Step, At
  <2>2. /\ tags' = tags /\ known' = known /\ pushes' = pushes /\ unsound' = unsound
        /\ ref' = [ref EXCEPT ![i][f] = Tag(i, f)]
    BY <1>5 DEF Inspect, docker
  <2>3. QED
    BY <1>1, <2>1, <2>2 DEF Moves, OwnLane, Effects
<1>6. CASE Smoke(i, f)
  <2>1. Moves(i, f, {"push", "failed", "raised"}) /\ lane[i][f] = "smoke"
    BY <1>1, <1>6, AnsweredMoves, ToMoves DEF Smoke, Step, Ended, Moves, At
  <2>2. ref' = ref /\ tags' = tags /\ known' = known /\ pushes' = pushes /\ unsound' = unsound
    BY <1>6 DEF Smoke, docker
  <2>3. lane'[i][f] = "push" => ~Broken(ref[i][f], f)
    <3>1. Broken(ref[i][f], f) => Moves(i, f, {"failed"})
      BY <1>1, <1>6, ToMoves DEF Smoke, Step, Ended
    <3>2. QED
      BY <3>1 DEF Moves
  <2>4. QED
    BY <2>1, <2>2, <2>3 DEF Moves, OwnLane, Effects
<1>7. CASE Push(i, f)
  <2>1. Moves(i, f, {"pull", "failed", "raised"}) /\ lane[i][f] = "push"
    BY <1>1, <1>7, AnsweredMoves DEF Push, Step, At
  <2>2. /\ ref' = ref /\ tags' = tags /\ unsound' = unsound
        /\ pushes' = [pushes EXCEPT ![f] = Append(pushes[f], [image |-> Tag(i, f), by |-> i])]
        /\ known' = [known EXCEPT ![home[i]] = known[home[i]] \cup {<<Tag(i, f), f>>}]
    BY <1>7 DEF Push
  <2>3. /\ pushes'[f] = Append(pushes[f], [image |-> Tag(i, f), by |-> i])
        /\ \A g \in Flavor : g # f => pushes'[g] = pushes[g]
    BY <1>1, <2>2
  <2>4. \A m \in Machine : \A x : x \in known'[m] =>
          x \in known[m] \/ (m = home[i] /\ x = <<Tag(i, f), f>>)
    BY <1>1, <2>2
  <2>5. QED
    BY <2>1, <2>2, <2>3, <2>4 DEF Moves, OwnLane, Effects
<1>8. CASE Pull(i, f)
  <2>1. Moves(i, f, {"digest", "failed", "raised"}) /\ lane[i][f] = "pull"
    BY <1>1, <1>8, AnsweredMoves DEF Pull, Step, At
  <2> DEFINE x == Last(pushes[f]).image
  <2>2. /\ ref' = ref /\ pushes' = pushes /\ unsound' = unsound
        /\ tags' = [tags EXCEPT ![home[i]][f] = x]
        /\ known' = [known EXCEPT ![home[i]] = known[home[i]] \cup {<<x, f>>}]
    BY <1>8 DEF Pull
  <2>3. /\ tags'[home[i]][f] = x
        /\ \A m \in Machine, g \in Flavor :
             m # home[i] \/ g # f => tags'[m][g] = tags[m][g]
    BY <1>1, <2>2
  <2>4. \A m \in Machine : \A y : y \in known'[m] =>
          y \in known[m] \/ (m = home[i] /\ y = <<x, f>>)
    BY <1>1, <2>2
  <2>5. QED
    BY <2>1, <2>2, <2>3, <2>4 DEF Moves, OwnLane, Effects
<1>9. CASE Digest(i, f)
  <2>1. Moves(i, f, {"check", "failed", "raised"}) /\ lane[i][f] = "digest"
    BY <1>1, <1>9, AnsweredMoves, ToMoves DEF Digest, Step, Ended, Moves, At
  <2>2. tags' = tags /\ known' = known /\ pushes' = pushes /\ unsound' = unsound
    BY <1>9 DEF Digest, docker
  <2>3. \/ <<Tag(i, f), f>> \in known[home[i]] /\ ref' = [ref EXCEPT ![i][f] = Tag(i, f)]
        \/ Moves(i, f, {"failed"}) /\ ref' = ref
    BY <1>1, <1>9, ToMoves DEF Digest, Step, Ended
  <2>4. lane'[i][f] = "check" =>
          <<Tag(i, f), f>> \in known[home[i]] /\ ref'[i][f] = Tag(i, f)
    BY <1>1, <2>3 DEF Moves
  <2>5. \A j \in Proc, g \in Flavor :
          ref'[j][g] = ref[j][g] \/ (j = i /\ g = f /\ ref'[j][g] = Tag(i, f))
    BY <1>1, <2>3
  <2>6. QED
    BY <2>1, <2>2, <2>4, <2>5 DEF Moves, OwnLane, Effects
<1>10. CASE Check(i, f)
  <2>1. Moves(i, f, {"done", "failed", "raised"}) /\ lane[i][f] = "check"
    BY <1>1, <1>10, AnsweredMoves, ToMoves DEF Check, Step, Ended, Moves, At
  <2>2. ref' = ref /\ tags' = tags /\ known' = known /\ pushes' = pushes /\ unsound' = unsound
    BY <1>10 DEF Check, docker
  <2>3. lane'[i][f] = "done" => ~Broken(ref[i][f], f)
    <3>1. Broken(ref[i][f], f) => Moves(i, f, {"failed"})
      BY <1>1, <1>10, ToMoves DEF Check, Step, Ended
    <3>2. QED
      BY <3>1 DEF Moves
  <2>4. QED
    BY <2>1, <2>2, <2>3 DEF Moves, OwnLane, Effects
<1>11. QED
  BY <1>2, <1>3, <1>4, <1>5, <1>6, <1>7, <1>8, <1>9, <1>10 DEF Lane

---------------------------------------------------------------------------
(* What is pushed was smoked                                                 *)

\* Two commands that run on one daemon and flavor know of each other.
Met ==
  \A i, j \in Proc : Rival(i, j) /\ stage[i] = "run" /\ stage[j] = "run" => shared[i]

\* Alone on its daemon, a command finds its own image under the tag.
Mine ==
  \A i \in Proc, f \in Flavor : stage[i] = "run" /\ ~shared[i] =>
    /\ lane[i][f] \in {"inspect", "smoke", "push"} => Tag(i, f) = i
    /\ lane[i][f] \in {"smoke", "push"} => ref[i][f] = i
    /\ lane[i][f] = "push" => ~Broken(i, f)

\* Who pushed has left its build behind.
Pushed ==
  \A f \in Flavor : \A k \in DOMAIN pushes[f] :
    LET by == pushes[f][k].by
    IN by \in Proc => lane[by][f] \in {"pull", "digest", "check"} \cup Ended

\* A push adds to what the registry's tag was set to, and takes nothing away.
LEMMA Appended ==
  ASSUME NEW S, NEW q \in Seq(S), NEW e \in S
  PROVE  /\ DOMAIN Append(q, e) = 1 .. Len(q) + 1 /\ Append(q, e)[Len(q) + 1] = e
         /\ \A k \in DOMAIN q : k \in DOMAIN Append(q, e) /\ Append(q, e)[k] = q[k]
OBVIOUS

LEMMA PushAppends ==
  ASSUME Wide, NEW i \in Proc, NEW f \in Flavor,
         pushes'[f] = Append(pushes[f], [image |-> Tag(i, f), by |-> i])
  PROVE  /\ Len(pushes[f]) + 1 \in DOMAIN pushes'[f]
         /\ pushes'[f][Len(pushes[f]) + 1] = [image |-> Tag(i, f), by |-> i]
         /\ \A k \in DOMAIN pushes[f] : k \in DOMAIN pushes'[f] /\ pushes'[f][k] = pushes[f][k]
         /\ \A k \in DOMAIN pushes'[f] : k \in DOMAIN pushes[f] \/ k = Len(pushes[f]) + 1
         /\ Len(pushes[f]) \in Nat /\ DOMAIN pushes[f] = 1 .. Len(pushes[f])
<1> DEFINE S == [image : Builder, by : Builder]
           e == [image |-> Tag(i, f), by |-> i]
<1>1. pushes[f] \in Seq(S)
  BY DEF Wide, TypeOK
<1>2. e \in S
  BY DEF Wide, TypeOK, Tag, Builder
<1> HIDE DEF S, e
<1>3. /\ DOMAIN Append(pushes[f], e) = 1 .. Len(pushes[f]) + 1
      /\ Append(pushes[f], e)[Len(pushes[f]) + 1] = e
      /\ \A k \in DOMAIN pushes[f] :
           k \in DOMAIN Append(pushes[f], e) /\ Append(pushes[f], e)[k] = pushes[f][k]
  BY <1>1, <1>2, Appended
<1>4. pushes'[f] = Append(pushes[f], e)
  BY DEF e
<1>5. Len(pushes[f]) \in Nat /\ DOMAIN pushes[f] = 1 .. Len(pushes[f])
  BY <1>1
<1>6. QED
  BY <1>3, <1>4, <1>5 DEF e

LEMMA StepMet == Wide /\ Met /\ [Next]_vars => Met'
<1> SUFFICES ASSUME Wide, Met, [Next]_vars PROVE Met'
  OBVIOUS
<1>1. ASSUME NEW i \in Proc, Resolve(i) PROVE Met'
  <2> DEFINE met == {j \in Proc : Rival(i, j) /\ stage[j] = "run"}
  <2>1. command' = command /\ home' = home
    BY <1>1 DEF Resolve, given
  <2>2. CASE Go(i, "run") /\ shared' = [j \in Proc |-> shared[j] \/ j \in met \/ (j = i /\ met # {})]
    <3> SUFFICES ASSUME NEW j \in Proc, NEW k \in Proc, Rival(j, k), stage'[j] = "run",
                        stage'[k] = "run"
                 PROVE  shared'[j]
      BY <2>1 DEF Met, Rival
    <3>1. shared'[j] <=> shared[j] \/ j \in met \/ (j = i /\ met # {})
      BY <2>2, Zenon
    <3>2. j # k
      BY DEF Rival
    <3>3. \A l \in Proc : l # i => stage'[l] = stage[l]
      BY <2>2 DEF Go, Wide, TypeOK
    <3>4. CASE j = i
      BY <3>1, <3>2, <3>3, <3>4
    <3>5. CASE k = i
      <4>1. Rival(i, j)
        BY <3>5 DEF Rival
      <4>2. QED
        BY <3>1, <3>2, <3>3, <3>5, <4>1
    <3>6. CASE j # i /\ k # i
      BY <3>1, <3>3, <3>6 DEF Met
    <3>7. QED
      BY <3>4, <3>5, <3>6
  <2>3. CASE End(i, "refused") /\ UNCHANGED shared
    <3>1. \A j \in Proc : stage'[j] = "run" => stage[j] = "run"
      BY <2>3 DEF End, Wide, TypeOK
    <3>2. QED
      BY <2>1, <2>3, <3>1 DEF Met, Rival
  <2>4. QED
    BY <1>1, <2>2, <2>3 DEF Resolve
\* Elsewhere nobody comes to "run".
<1>2. ASSUME shared' = shared, command' = command, home' = home,
             \A j \in Proc : stage'[j] = "run" => stage[j] = "run"
      PROVE  Met'
  BY <1>2 DEF Met, Rival
<1>3. ASSUME NEW i \in Proc,
             \/ Enter(i) \/ RunTools(i) \/ PassGates(i) \/ FailEarly(i)
             \/ Measure(i) \/ Collect(i)
      PROVE  Met'
  <2>1. shared' = shared /\ command' = command /\ home' = home
    BY <1>3 DEF Enter, RunTools, PassGates, FailEarly, Measure, Collect, given
  <2>2. \A j \in Proc : stage'[j] = "run" => stage[j] = "run"
    <3>1. CASE Enter(i) \/ PassGates(i)
      BY <3>1 DEF Enter, PassGates, Go, End, Wide, TypeOK
    <3>2. CASE RunTools(i) \/ FailEarly(i) \/ Collect(i)
      BY <3>2 DEF RunTools, FailEarly, Collect, End, Wide, TypeOK
    <3>3. CASE Measure(i)
      BY <3>3 DEF Measure, Go, End, Wide, TypeOK
    <3>4. QED
      BY <1>3, <3>1, <3>2, <3>3
  <2>3. QED
    BY <1>2, <2>1, <2>2
<1>4. ASSUME NEW i \in Proc, NEW f \in Flavor, Fails(i, f) \/ Lane(i, f) PROVE Met'
  BY <1>2, <1>4, OneLane
<1>5. ASSUME NEW i \in Proc, Interrupt(i) PROVE Met'
  <2>1. \A j \in Proc : stage'[j] \in {stage[j], "over"}
    BY <1>5, Interrupted
  <2>2. QED
    BY <1>2, <1>5, <2>1, Interrupted
<1>6. CASE UNCHANGED vars \/ Rest
  BY <1>2, <1>6 DEF Rest, vars, given
<1>7. ASSUME NEW i \in Proc, Work(i) \/ Trouble(i) PROVE Met'
  BY <1>1, <1>3, <1>4, <1>5, <1>7 DEF Work, Trouble
<1>8. QED
  BY <1>6, <1>7 DEF Next

\* A step that moves no lane makes nobody more alone than it was.
LEMMA SharedStays ==
  ASSUME Wide, [Next]_vars, NEW i \in Proc, shared[i]
  PROVE  shared'[i]
<1>1. ASSUME NEW j \in Proc, Resolve(j) PROVE shared'[i]
  <2> DEFINE met == {k \in Proc : Rival(j, k) /\ stage[k] = "run"}
  <2>1. CASE shared' = [k \in Proc |-> shared[k] \/ k \in met \/ (k = j /\ met # {})]
    BY <2>1, Zenon
  <2>2. CASE UNCHANGED shared
    BY <2>2
  <2>3. QED
    BY <1>1, <2>1, <2>2 DEF Resolve
<1>2. ASSUME NEW j \in Proc,
             \/ Enter(j) \/ RunTools(j) \/ PassGates(j) \/ FailEarly(j)
             \/ Measure(j) \/ Collect(j)
      PROVE  shared'[i]
  BY <1>2 DEF Enter, RunTools, PassGates, FailEarly, Measure, Collect
<1>3. ASSUME NEW j \in Proc, NEW f \in Flavor, Fails(j, f) \/ Lane(j, f) PROVE shared'[i]
  BY <1>3, OneLane
<1>4. ASSUME NEW j \in Proc, Interrupt(j) PROVE shared'[i]
  BY <1>4, Interrupted
<1>5. CASE UNCHANGED vars \/ Rest
  BY <1>5 DEF Rest, vars
<1>6. ASSUME NEW j \in Proc, Work(j) \/ Trouble(j) PROVE shared'[i]
  BY <1>1, <1>2, <1>3, <1>4, <1>6 DEF Work, Trouble
<1>7. QED
  BY <1>5, <1>6 DEF Next

LEMMA StepMine == Wide /\ Order /\ Met /\ Mine /\ [Next]_vars => Mine'
<1> SUFFICES ASSUME Wide, Order, Met, Mine, [Next]_vars,
                    NEW i \in Proc, NEW f \in Flavor, stage'[i] = "run", ~shared'[i]
             PROVE  /\ lane'[i][f] \in {"inspect", "smoke", "push"} => Tag(i, f)' = i
                    /\ lane'[i][f] \in {"smoke", "push"} => ref'[i][f] = i
                    /\ lane'[i][f] = "push" => ~Broken(i, f)'
  BY DEF Mine
<1>1. ~shared[i]
  BY SharedStays
<1>2. home' = home
  BY Kinds, Interrupted, OneLane DEF Quiet, given
<1>3. Tag(i, f)' = tags'[home[i]][f] /\ home[i] \in Machine
  BY <1>2 DEF Tag, Wide, TypeOK
<1>4. ASSUME NEW j \in Proc, NEW g \in Flavor, Fails(j, g) \/ Lane(j, g)
      PROVE  /\ lane'[i][f] \in {"inspect", "smoke", "push"} => tags'[home[i]][f] = i
             /\ lane'[i][f] \in {"smoke", "push"} => ref'[i][f] = i
             /\ lane'[i][f] = "push" => <<i, f>> \notin unsound'
  <2>1. /\ stage[j] = "run" /\ stage' = stage
        /\ \A k \in Proc, h \in Flavor : k # j \/ h # g => lane'[k][h] = lane[k][h]
    BY <1>4, OneLane
  <2>2. OwnLane(j, g) /\ Effects(j, g)
    BY <1>4, LaneEffects
  <2>3. stage[i] = "run"
    BY <2>1
  <2>4. /\ lane[i][f] \in {"inspect", "smoke", "push"} => tags[home[i]][f] = i
        /\ lane[i][f] \in {"smoke", "push"} => ref[i][f] = i
        /\ lane[i][f] = "push" => <<i, f>> \notin unsound
    BY <1>1, <2>3 DEF Mine, Tag, Broken
  <2>5. CASE i = j /\ f = g
    <3>1. CASE lane'[i][f] = "inspect"
      BY <2>2, <2>5, <3>1 DEF OwnLane
    <3>2. CASE lane'[i][f] = "smoke"
      BY <2>2, <2>4, <2>5, <3>2 DEF OwnLane, Tag
    <3>3. CASE lane'[i][f] = "push"
      BY <2>2, <2>4, <2>5, <3>3 DEF OwnLane, Broken
    <3>4. QED
      BY <3>1, <3>2, <3>3
  <2>6. CASE i # j \/ f # g
    <3>1. lane'[i][f] = lane[i][f]
      BY <2>1, <2>6
    <3>2. ref'[i][f] = ref[i][f] /\ (<<i, f>> \in unsound' => <<i, f>> \in unsound)
      BY <2>2, <2>6 DEF Effects
    <3>3. lane[i][f] \in {"inspect", "smoke", "push"} => tags'[home[i]][f] = tags[home[i]][f]
      <4> SUFFICES ASSUME lane[i][f] \in {"inspect", "smoke", "push"},
                          tags'[home[i]][f] # tags[home[i]][f]
                   PROVE  FALSE
        OBVIOUS
      <4>1. home[i] = home[j] /\ f = g /\ lane[j][g] \in {"build", "pull"} /\ i # j
        BY <1>3, <2>2, <2>6 DEF Effects
      <4>2. f \in TargetSet(command[i]) /\ f \in TargetSet(command[j])
        BY <4>1 DEF Order
      <4>3. Rival(i, j)
        BY <4>1, <4>2 DEF Rival
      <4>4. QED
        BY <1>1, <2>1, <2>3, <4>3 DEF Met
    <3>4. QED
      BY <2>4, <3>1, <3>2, <3>3
  <2>7. QED
    BY <2>5, <2>6
<1>5. ASSUME NEW j \in Proc, Interrupt(j)
      PROVE  /\ lane'[i][f] \in {"inspect", "smoke", "push"} => tags'[home[i]][f] = i
             /\ lane'[i][f] \in {"smoke", "push"} => ref'[i][f] = i
             /\ lane'[i][f] = "push" => <<i, f>> \notin unsound'
  <2>1. i # j /\ stage[i] = "run"
    BY <1>5, Interrupted
  <2>2. lane'[i][f] = lane[i][f] /\ tags' = tags /\ ref' = ref /\ unsound' = unsound
    BY <1>5, <2>1, Interrupted
  <2>3. QED
    BY <1>1, <2>1, <2>2 DEF Mine, Tag, Broken
<1>6. CASE Quiet
  <2>1. lane' = lane /\ tags' = tags /\ ref' = ref /\ unsound' = unsound
    BY <1>6 DEF Quiet, docker
  <2>2. CASE stage[i] = "run"
    BY <1>1, <1>3, <2>1, <2>2 DEF Mine, Tag, Broken
  <2>3. CASE stage[i] \in Early
    BY <2>1, <2>3 DEF Order
  <2>4. CASE stage[i] = "over"
    <3>1. CASE \E j \in Proc : Stepped(j)
      BY <2>4, <3>1 DEF Stepped, Early
    <3>2. CASE stage' = stage
      BY <2>4, <3>2
    <3>3. CASE \E j \in Proc, g \in Flavor : Fails(j, g) \/ Lane(j, g)
      BY <2>4, <3>3, OneLane
    <3>4. CASE \E j \in Proc : Interrupt(j)
      BY <2>4, <3>4, Interrupted
    <3>5. QED
      BY <1>6, <3>1, <3>2, <3>3, <3>4, StageSteps
  <2>5. QED
    BY <2>2, <2>3, <2>4 DEF Wide, TypeOK, Early
<1>7. QED
  BY <1>3, <1>4, <1>5, <1>6, Kinds DEF Broken

LEMMA StepPushed == Wide /\ Pushed /\ [Next]_vars => Pushed'
<1> SUFFICES ASSUME Wide, Pushed, [Next]_vars,
                    NEW f \in Flavor, NEW k \in DOMAIN pushes'[f], pushes'[f][k].by \in Proc
             PROVE  lane'[pushes'[f][k].by][f] \in {"pull", "digest", "check"} \cup Ended
  BY DEF Pushed
<1>1. ASSUME NEW j \in Proc, NEW g \in Flavor, Fails(j, g) \/ Lane(j, g)
      PROVE  lane'[pushes'[f][k].by][f] \in {"pull", "digest", "check"} \cup Ended
  <2>1. OwnLane(j, g) /\ Effects(j, g)
    BY <1>1, LaneEffects
  <2>2. \A l \in Proc, h \in Flavor : l # j \/ h # g => lane'[l][h] = lane[l][h]
    BY <1>1, OneLane
  <2>3. lane'[j][g] \in Step
    <3>1. Wide'
      BY StepTypes
    <3>2. QED
      BY <3>1 DEF Wide, TypeOK
  <2>4. lane[j][g] \in {"push", "pull", "digest", "check"} \cup Ended
          => lane'[j][g] \in {"pull", "digest", "check"} \cup Ended
    BY <2>1, <2>3 DEF OwnLane, Step, Ended
  <2>5. CASE k \in DOMAIN pushes[f] /\ pushes'[f][k] = pushes[f][k]
    <3>1. lane[pushes[f][k].by][f] \in {"pull", "digest", "check"} \cup Ended
      BY <2>5 DEF Pushed
    <3>2. QED
      BY <2>2, <2>4, <2>5, <3>1
  <2>6. CASE ~(k \in DOMAIN pushes[f] /\ pushes'[f][k] = pushes[f][k])
    <3>1. /\ f = g /\ lane[j][g] = "push"
          /\ pushes'[f] = Append(pushes[f], [image |-> Tag(j, g), by |-> j])
      BY <2>1, <2>6 DEF Effects
    <3>2. pushes'[f][k].by = j
      BY <2>6, <3>1, PushAppends
    <3>3. QED
      BY <2>4, <3>1, <3>2
  <2>7. QED
    BY <2>5, <2>6
<1>2. ASSUME NEW j \in Proc, Interrupt(j)
      PROVE  lane'[pushes'[f][k].by][f] \in {"pull", "digest", "check"} \cup Ended
  <2>1. pushes' = pushes /\ \A i \in Proc : lane'[i][f] \in {lane[i][f], "failed"}
    BY <1>2, Interrupted
  <2>2. QED
    BY <2>1 DEF Pushed, Ended
<1>3. CASE Quiet
  BY <1>3 DEF Quiet, docker, Pushed
<1>4. QED
  BY <1>1, <1>2, <1>3, Kinds

LEMMA StepSmoked ==
  Wide /\ Mine /\ Pushed /\ PublishedWasSmoked /\ [Next]_vars => PublishedWasSmoked'
<1> SUFFICES ASSUME Wide, Mine, Pushed, PublishedWasSmoked, [Next]_vars,
                    NEW f \in Flavor, NEW k \in DOMAIN pushes'[f],
                    pushes'[f][k].by \in Proc, ~shared'[pushes'[f][k].by]
             PROVE  /\ pushes'[f][k].image = pushes'[f][k].by
                    /\ <<pushes'[f][k].image, f>> \notin unsound'
  BY DEF PublishedWasSmoked, Broken
<1>1. ~shared[pushes'[f][k].by]
  BY SharedStays
<1>2. ASSUME k \in DOMAIN pushes[f], pushes'[f][k] = pushes[f][k]
      PROVE  /\ pushes[f][k].image = pushes[f][k].by
             /\ <<pushes[f][k].image, f>> \notin unsound
             /\ lane[pushes[f][k].by][f] # "build"
  BY <1>1, <1>2 DEF PublishedWasSmoked, Broken, Pushed, Ended
<1>3. ASSUME NEW j \in Proc, NEW g \in Flavor, Fails(j, g) \/ Lane(j, g)
      PROVE  /\ pushes'[f][k].image = pushes'[f][k].by
             /\ <<pushes'[f][k].image, f>> \notin unsound'
  <2>1. Effects(j, g) /\ stage[j] = "run"
    BY <1>3, LaneEffects, OneLane
  <2>2. CASE k \in DOMAIN pushes[f] /\ pushes'[f][k] = pushes[f][k]
    <3>1. <<pushes[f][k].image, f>> \in unsound' =>
            <<pushes[f][k].image, f>> \in unsound
              \/ (pushes[f][k].image = j /\ f = g /\ lane[j][g] = "build")
      BY <2>1 DEF Effects
    <3>2. QED
      BY <1>2, <2>2, <3>1
  <2>3. CASE ~(k \in DOMAIN pushes[f] /\ pushes'[f][k] = pushes[f][k])
    <3>1. /\ f = g /\ lane[j][g] = "push"
          /\ pushes'[f] = Append(pushes[f], [image |-> Tag(j, g), by |-> j])
      BY <2>1, <2>3 DEF Effects
    <3>2. pushes'[f][k] = [image |-> Tag(j, g), by |-> j]
      BY <2>3, <3>1, PushAppends
    <3>3. Tag(j, g) = j /\ ~Broken(j, g)
      BY <1>1, <2>1, <3>1, <3>2 DEF Mine
    <3>4. <<j, g>> \notin unsound'
      BY <2>1, <3>1, <3>3 DEF Effects, Broken
    <3>5. QED
      BY <3>1, <3>2, <3>3, <3>4
  <2>4. QED
    BY <2>2, <2>3
<1>4. ASSUME pushes' = pushes, unsound' = unsound
      PROVE  /\ pushes'[f][k].image = pushes'[f][k].by
             /\ <<pushes'[f][k].image, f>> \notin unsound'
  BY <1>2, <1>4
<1>5. QED
  BY <1>3, <1>4, Kinds, Interrupted DEF Quiet, docker

\* An invocation that had its daemon to itself published the very image it had
\* built, and only when that passed, whatever the others did elsewhere.
THEOREM PublishedWereSmoked == Spec => []PublishedWasSmoked
<1>1. Init => Met /\ Mine /\ Pushed /\ PublishedWasSmoked
  <2> SUFFICES ASSUME Init PROVE Met /\ Mine /\ Pushed /\ PublishedWasSmoked
    OBVIOUS
  <2>1. \A i \in Proc : stage[i] # "run"
    BY DEF Init
  <2>2. \A f \in Flavor : \A k \in DOMAIN pushes[f] : pushes[f][k].by \notin Proc
    BY BasePublishAssumption DEF Init
  <2>3. QED
    BY <2>1, <2>2 DEF Met, Mine, Pushed, PublishedWasSmoked
<1>2. QED
  BY <1>1, OrderHolds, StepMet, StepMine, StepPushed, StepSmoked, PTL DEF Spec

---------------------------------------------------------------------------
(* What is reported is what was published                                    *)

Owns(i, f) == \E k \in DOMAIN pushes[f] : pushes[f][k].by = i

\* An image that is not built yet is nowhere.
Unbuilt ==
  \A j \in Proc, f \in Flavor : lane[j][f] \in {"idle", "build"} =>
    /\ \A m \in Machine : tags[m][f] # j /\ <<j, f>> \notin known[m]
    /\ \A i \in Proc : ref[i][f] # j
    /\ \A k \in DOMAIN pushes[f] : pushes[f][k].image # j

\* Who pulls, has pushed.
Pulls ==
  \A i \in Proc, f \in Flavor : lane[i][f] \in {"pull", "digest", "check"} => Owns(i, f)

\* The tag that is asked for its digest names what was published since, if it
\* has one.
OnTag ==
  \A i \in Proc, f \in Flavor :
    lane[i][f] = "digest" /\ <<Tag(i, f), f>> \in known[home[i]] => Tag(i, f) \in Since(i, f)

\* And so does the digest.
Found ==
  \A i \in Proc, f \in Flavor :
    lane[i][f] = "check" \/ (lane[i][f] = "done" /\ Publishes(i)) => ref[i][f] \in Since(i, f)

\* What is done was checked.
Sound ==
  \A i \in Proc, f \in Flavor :
    lane[i][f] = "done" /\ Publishes(i) => ~Broken(ref[i][f], f)

LEMMA SinceLast ==
  ASSUME Wide, NEW i \in Proc, NEW f \in Flavor, Owns(i, f)
  PROVE  Last(pushes[f]).image \in Since(i, f)
<1>1. /\ Len(pushes[f]) \in DOMAIN pushes[f]
      /\ Last(pushes[f]) = pushes[f][Len(pushes[f])]
  BY LastImage
<1>2. DOMAIN pushes[f] = 1 .. Len(pushes[f]) /\ Len(pushes[f]) \in Nat
  <2> DEFINE S == [image : Builder, by : Builder]
  <2>1. pushes[f] \in Seq(S)
    BY DEF Wide, TypeOK
  <2> HIDE DEF S
  <2>2. QED
    BY <2>1
<1>3. PICK k \in DOMAIN pushes[f] : pushes[f][k].by = i
  BY DEF Owns
<1>4. k \in 1 .. Len(pushes[f])
  BY <1>2, <1>3
<1>5. QED
  BY <1>1, <1>3, <1>4 DEF Since

LEMMA SinceGrows ==
  ASSUME Wide, NEW i \in Proc, NEW j \in Proc, NEW f \in Flavor,
         \/ pushes'[f] = pushes[f]
         \/ pushes'[f] = Append(pushes[f], [image |-> Tag(j, f), by |-> j])
  PROVE  Since(i, f) \subseteq Since(i, f)' /\ (Owns(i, f) => Owns(i, f)')
<1>1. CASE pushes'[f] = pushes[f]
  BY <1>1 DEF Since, Owns
<1>2. CASE pushes'[f] = Append(pushes[f], [image |-> Tag(j, f), by |-> j])
  <2>1. /\ \A k \in DOMAIN pushes[f] : k \in DOMAIN pushes'[f] /\ pushes'[f][k] = pushes[f][k]
        /\ DOMAIN pushes[f] = 1 .. Len(pushes[f]) /\ Len(pushes[f]) \in Nat
    BY <1>2, PushAppends
  <2>2. Owns(i, f) => Owns(i, f)'
    BY <2>1 DEF Owns
  <2>3. ASSUME NEW x \in Since(i, f) PROVE x \in Since(i, f)'
    <3>1. PICK k \in DOMAIN pushes[f] :
            x = pushes[f][k].image /\ \E first \in 1 .. k : pushes[f][first].by = i
      BY <2>3 DEF Since
    <3>2. PICK first \in 1 .. k : pushes[f][first].by = i
      BY <3>1
    <3>3. first \in DOMAIN pushes[f]
      BY <2>1, <3>1, <3>2
    <3>4. /\ pushes'[f][first].by = i /\ pushes'[f][k].image = x
          /\ k \in DOMAIN pushes'[f]
      BY <2>1, <3>1, <3>2, <3>3
    <3>5. QED
      BY <3>2, <3>4 DEF Since
  <2>4. QED
    BY <2>2, <2>3
<1>3. QED
  BY <1>1, <1>2

LEMMA SinceJoins ==
  ASSUME Wide, NEW i \in Proc, NEW j \in Proc, NEW f \in Flavor, Owns(i, f),
         pushes'[f] = Append(pushes[f], [image |-> Tag(j, f), by |-> j])
  PROVE  Tag(j, f) \in Since(i, f)'
<1> DEFINE n == Len(pushes[f]) + 1
<1>1. /\ n \in DOMAIN pushes'[f] /\ pushes'[f][n].image = Tag(j, f)
      /\ \A k \in DOMAIN pushes[f] : pushes'[f][k] = pushes[f][k]
      /\ DOMAIN pushes[f] = 1 .. Len(pushes[f]) /\ Len(pushes[f]) \in Nat
  BY PushAppends
<1>2. PICK k \in DOMAIN pushes[f] : pushes[f][k].by = i
  BY DEF Owns
<1>3. k \in 1 .. n /\ pushes'[f][k].by = i
  BY <1>1, <1>2
<1> HIDE DEF n
<1>4. QED
  BY <1>1, <1>3 DEF Since

LEMMA StepUnbuilt == Wide /\ Unbuilt /\ [Next]_vars => Unbuilt'
<1> SUFFICES ASSUME Wide, Unbuilt, [Next]_vars,
                    NEW j \in Proc, NEW f \in Flavor, lane'[j][f] \in {"idle", "build"}
             PROVE  /\ \A m \in Machine : tags'[m][f] # j /\ <<j, f>> \notin known'[m]
                    /\ \A i \in Proc : ref'[i][f] # j
                    /\ \A k \in DOMAIN pushes'[f] : pushes'[f][k].image # j
  BY DEF Unbuilt
<1>1. ASSUME lane[j][f] \in {"idle", "build"}
      PROVE  /\ \A m \in Machine : tags[m][f] # j /\ <<j, f>> \notin known[m]
             /\ \A i \in Proc : ref[i][f] # j
             /\ \A k \in DOMAIN pushes[f] : pushes[f][k].image # j
             /\ Last(pushes[f]).image # j
  BY <1>1, LastImage DEF Unbuilt
<1>2. ASSUME NEW i \in Proc, NEW g \in Flavor, Fails(i, g) \/ Lane(i, g)
      PROVE  /\ \A m \in Machine : tags'[m][f] # j /\ <<j, f>> \notin known'[m]
             /\ \A l \in Proc : ref'[l][f] # j
             /\ \A k \in DOMAIN pushes'[f] : pushes'[f][k].image # j
  <2>1. OwnLane(i, g) /\ Effects(i, g)
    BY <1>2, LaneEffects
  <2>2. i # j \/ g # f => lane'[j][f] = lane[j][f]
    BY <1>2, OneLane
  <2>3. lane[j][f] \in {"idle", "build"} /\ ~(i = j /\ g = f /\ lane[j][f] = "build")
    BY <2>1, <2>2 DEF OwnLane
  <2>4. /\ \A m \in Machine : tags[m][f] # j /\ <<j, f>> \notin known[m]
        /\ \A l \in Proc : ref[l][f] # j
        /\ \A k \in DOMAIN pushes[f] : pushes[f][k].image # j
        /\ Last(pushes[f]).image # j
    BY <1>1, <2>3
  <2>5. home[i] \in Machine
    BY DEF Wide, TypeOK
  <2>6. g = f => Tag(i, g) # j
    BY <2>4, <2>5 DEF Tag
  <2>7. \A m \in Machine : tags'[m][f] # j
    BY <2>1, <2>3, <2>4 DEF Effects
  <2>8. ASSUME NEW m \in Machine, <<j, f>> \in known'[m] PROVE FALSE
    BY <2>1, <2>4, <2>6, <2>8 DEF Effects
  <2>9. \A l \in Proc : ref'[l][f] # j
    BY <2>1, <2>4, <2>6 DEF Effects
  <2>10. \A k \in DOMAIN pushes'[f] : pushes'[f][k].image # j
    <3>1. CASE pushes'[f] = pushes[f]
      BY <2>4, <3>1
    <3>2. CASE f = g /\ pushes'[f] = Append(pushes[f], [image |-> Tag(i, f), by |-> i])
      BY <2>4, <2>6, <3>2, PushAppends
    <3>3. QED
      BY <2>1, <3>1, <3>2 DEF Effects
  <2>11. QED
    BY <2>7, <2>8, <2>9, <2>10
<1>3. ASSUME NEW i \in Proc, Interrupt(i) PROVE lane[j][f] \in {"idle", "build"}
  BY <1>3, Interrupted
<1>4. ASSUME lane[j][f] \in {"idle", "build"},
             ref' = ref, tags' = tags, known' = known, pushes' = pushes
      PROVE  /\ \A m \in Machine : tags'[m][f] # j /\ <<j, f>> \notin known'[m]
             /\ \A i \in Proc : ref'[i][f] # j
             /\ \A k \in DOMAIN pushes'[f] : pushes'[f][k].image # j
  BY <1>1, <1>4
<1>5. QED
  BY <1>2, <1>3, <1>4, Kinds, Interrupted DEF Quiet, docker

Reported == Pulls /\ OnTag /\ Found /\ Sound

LEMMA StepReported == Wide /\ Unbuilt /\ Reported /\ [Next]_vars => Reported'
<1> SUFFICES ASSUME Wide, Unbuilt, Reported, [Next]_vars, NEW i \in Proc, NEW f \in Flavor
             PROVE  /\ lane'[i][f] \in {"pull", "digest", "check"} => Owns(i, f)'
                    /\ lane'[i][f] = "digest" /\ <<Tag(i, f)', f>> \in known'[home'[i]]
                         => Tag(i, f)' \in Since(i, f)'
                    /\ lane'[i][f] = "check" \/ (lane'[i][f] = "done" /\ Publishes(i)')
                         => ref'[i][f] \in Since(i, f)'
                    /\ lane'[i][f] = "done" /\ Publishes(i)' => <<ref'[i][f], f>> \notin unsound'
  BY DEF Reported, Pulls, OnTag, Found, Sound, Broken
<1>1. home' = home /\ command' = command
  BY Kinds, Interrupted, OneLane DEF Quiet, given
<1>2. Tag(i, f)' = tags'[home[i]][f] /\ (Publishes(i)' <=> Publishes(i)) /\ home[i] \in Machine
  BY <1>1 DEF Tag, Publishes, Wide, TypeOK
<1>3. /\ lane[i][f] \in {"pull", "digest", "check"} => Owns(i, f)
      /\ lane[i][f] = "digest" /\ <<tags[home[i]][f], f>> \in known[home[i]]
           => tags[home[i]][f] \in Since(i, f)
      /\ lane[i][f] = "check" \/ (lane[i][f] = "done" /\ Publishes(i))
           => ref[i][f] \in Since(i, f)
      /\ lane[i][f] = "done" /\ Publishes(i) => <<ref[i][f], f>> \notin unsound
  BY DEF Reported, Pulls, OnTag, Found, Sound, Broken, Tag
<1> DEFINE Goal ==
      /\ lane'[i][f] \in {"pull", "digest", "check"} => Owns(i, f)'
      /\ lane'[i][f] = "digest" /\ <<tags'[home[i]][f], f>> \in known'[home[i]]
           => tags'[home[i]][f] \in Since(i, f)'
      /\ lane'[i][f] = "check" \/ (lane'[i][f] = "done" /\ Publishes(i))
           => ref'[i][f] \in Since(i, f)'
      /\ lane'[i][f] = "done" /\ Publishes(i) => <<ref'[i][f], f>> \notin unsound'
<1>4. ASSUME NEW j \in Proc, NEW g \in Flavor, Fails(j, g) \/ Lane(j, g)
      PROVE  Goal
  <2>1. OwnLane(j, g) /\ Effects(j, g)
    BY <1>4, LaneEffects
  <2>2. i # j \/ g # f => lane'[i][f] = lane[i][f]
    BY <1>4, OneLane
  <2>3. Since(i, f) \subseteq Since(i, f)' /\ (Owns(i, f) => Owns(i, f)')
    BY <2>1, SinceGrows DEF Effects
  <2>4. CASE i = j /\ f = g
    <3>1. CASE lane'[i][f] = "pull"
      <4>1. pushes'[f] = Append(pushes[f], [image |-> Tag(i, f), by |-> i])
        BY <2>1, <2>4, <3>1 DEF OwnLane
      <4>2. Owns(i, f)'
        BY <4>1, PushAppends DEF Owns
      <4>3. QED
        BY <3>1, <4>2
    <3>2. CASE lane'[i][f] = "digest"
      <4>1. /\ lane[i][f] = "pull" /\ tags'[home[i]][f] = Last(pushes[f]).image
        BY <2>1, <2>4, <3>2 DEF OwnLane
      <4>2. Last(pushes[f]).image \in Since(i, f) /\ Owns(i, f)
        BY <1>3, <4>1, SinceLast
      <4>3. QED
        BY <2>3, <3>2, <4>1, <4>2
    <3>3. CASE lane'[i][f] = "check"
      <4>1. /\ lane[i][f] = "digest" /\ ref'[i][f] = Tag(i, f)
            /\ <<Tag(i, f), f>> \in known[home[i]]
        BY <2>1, <2>4, <3>3 DEF OwnLane
      <4>2. ref'[i][f] \in Since(i, f) /\ Owns(i, f)
        BY <1>3, <4>1 DEF Tag
      <4>3. QED
        BY <2>3, <3>3, <4>2
    <3>4. CASE lane'[i][f] = "done" /\ Publishes(i)
      <4>1. /\ lane[i][f] = "check" /\ <<ref[i][f], f>> \notin unsound
            /\ ref' = ref /\ unsound' = unsound
        BY <2>1, <2>4, <3>4 DEF OwnLane, Broken
      <4>2. QED
        BY <1>3, <2>3, <3>4, <4>1
    <3>5. QED
      BY <3>1, <3>2, <3>3, <3>4
  <2>5. CASE i # j \/ f # g
    <3>1. lane'[i][f] = lane[i][f] /\ ref'[i][f] = ref[i][f]
      BY <2>1, <2>2, <2>5 DEF Effects
    <3>2. lane[i][f] = "done" /\ Publishes(i) => <<ref[i][f], f>> \notin unsound'
      <4> SUFFICES ASSUME lane[i][f] = "done", Publishes(i), <<ref[i][f], f>> \in unsound'
                   PROVE  FALSE
        OBVIOUS
      <4>1. <<ref[i][f], f>> \notin unsound
        BY <1>3
      <4>2. ref[i][f] = j /\ f = g /\ lane[j][g] = "build"
        BY <2>1, <4>1 DEF Effects
      <4>3. QED
        BY <4>2 DEF Unbuilt
    <3>3. ASSUME lane[i][f] = "digest", <<tags'[home[i]][f], f>> \in known'[home[i]]
          PROVE  tags'[home[i]][f] \in Since(i, f)'
      <4> DEFINE x == tags'[home[i]][f]
      <4>1. Owns(i, f)
        BY <1>3, <3>3
      <4>2. \/ x = tags[home[i]][f]
            \/ home[i] = home[j] /\ f = g /\ x = j /\ lane[j][g] = "build"
            \/ f = g /\ x = Last(pushes[g]).image
        BY <1>2, <2>1 DEF Effects
      <4>3. \/ <<x, f>> \in known[home[i]]
            \/ /\ f = g /\ x = Tag(j, g)
               /\ pushes'[g] = Append(pushes[g], [image |-> Tag(j, g), by |-> j])
               /\ lane[j][g] = "push"
            \/ f = g /\ x = Last(pushes[g]).image /\ lane[j][g] = "pull"
        BY <1>2, <2>1, <3>3 DEF Effects
      <4> HIDE DEF x
      <4>4. CASE f = g /\ x = Last(pushes[g]).image
        BY <2>3, <4>1, <4>4, SinceLast DEF x
      <4>5. CASE f = g /\ x = Tag(j, g)
                 /\ pushes'[g] = Append(pushes[g], [image |-> Tag(j, g), by |-> j])
        BY <4>1, <4>5, SinceJoins DEF x
      <4>6. CASE x = tags[home[i]][f] /\ <<x, f>> \in known[home[i]]
        BY <1>3, <2>3, <3>3, <4>6 DEF x
      <4>7. CASE f = g /\ x = j /\ lane[j][g] = "build" /\ <<x, f>> \in known[home[i]]
        BY <1>2, <4>7 DEF Unbuilt
      <4>8. QED
        BY <4>2, <4>3, <4>4, <4>5, <4>6, <4>7
    <3>4. QED
      BY <1>3, <2>3, <3>1, <3>2, <3>3
  <2>6. QED
    BY <2>4, <2>5
<1>5. ASSUME ref' = ref, tags' = tags, known' = known, pushes' = pushes, unsound' = unsound,
             lane'[i][f] \in {lane[i][f], "failed"}
      PROVE  Goal
  BY <1>3, <1>5 DEF Owns, Since
<1> HIDE DEF Goal
<1>6. ASSUME NEW j \in Proc, Interrupt(j) PROVE Goal
  <2>1. lane'[i][f] \in {lane[i][f], "failed"}
    BY <1>6, Interrupted
  <2>2. QED
    BY <1>5, <1>6, <2>1, Interrupted
<1>7. ASSUME Quiet PROVE Goal
  <2>1. /\ ref' = ref /\ tags' = tags /\ known' = known /\ pushes' = pushes
        /\ unsound' = unsound /\ lane'[i][f] \in {lane[i][f], "failed"}
    BY <1>7 DEF Quiet, docker
  <2>2. QED
    BY <1>5, <2>1
<1>8. Goal
  BY <1>4, <1>6, <1>7, Kinds
<1>9. QED
  BY <1>1, <1>2, <1>8 DEF Goal

\* Whoever else pushed, pulled or rebuilt the tag meanwhile, what a command
\* reports passed its check and was under the tag since its own push.
THEOREM ReportsPublished == Spec => []ReportsArePublished
<1>1. Init => Unbuilt /\ Reported
  <2> SUFFICES ASSUME Init PROVE Unbuilt /\ Reported
    OBVIOUS
  <2>1. \A i \in Proc, f \in Flavor : lane[i][f] = "idle"
    BY DEF Init
  <2>2. Old \notin Proc /\ \A j \in Proc : j # Old
    BY BasePublishAssumption
  <2>3. Unbuilt
    BY <2>2 DEF Init, Unbuilt
  <2>4. QED
    BY <2>1, <2>3 DEF Reported, Pulls, OnTag, Found, Sound
<1>2. Reported => ReportsArePublished
  BY DEF Reported, Found, Sound, ReportsArePublished
<1>3. QED
  BY <1>1, <1>2, InitTypes, StepTypes, StepUnbuilt, StepReported, PTL DEF Spec
---------------------------------------------------------------------------
(* The formatter's commands (cli.py)                                         *)

Source == [size : Nat, readable : BOOLEAN]

\* The recursion of Sources, as an equation for each element.
LEMMA SourcesTyped ==
  ASSUME NEW checkout, NEW root, checkout.sources[root] \in Seq(Source)
  PROVE  Sources(checkout, root) \in Seq(Source)
<1> DEFINE all == checkout.sources[root]
           N == Len(all)
<1>1. N \in Nat /\ \A n \in 1 .. N : all[n] \in Source
  BY LenProperties, ElementOfSeq
<1> DEFINE h == [n \in 1 .. N |-> [s \in Seq(Source) |-> IF Readable(all[n]) THEN Append(s, all[n]) ELSE s]]
           P(f) == f = [n \in 0 .. Len(all) |->
                     IF n = 0 THEN <<>>
                     ELSE IF Readable(all[n]) THEN Append(f[n - 1], all[n]) ELSE f[n - 1]]
           c == CHOOSE f : P(f)
<1>2. Sources(checkout, root) = c[N]
  BY Zenon DEF Sources
<1> HIDE DEF all, N
<1>3. h \in Steps(N, Seq(Source))
  BY <1>1, AppendProperties DEF Steps
<1>4. PICK g : Follows(g, N, Seq(Source), <<>>, h)
  <2> HIDE DEF h
  <2>1. <<>> \in Seq(Source)
    BY EmptySeq
  <2> QED  BY <1>1, <1>3, <2>1, Recursion
<1>5. P(g)
  <2>1. /\ g \in [0 .. N -> Seq(Source)] /\ g[0] = <<>>
        /\ \A n \in 1 .. N : g[n] = h[n][g[n - 1]]
    BY <1>4 DEF Follows
  <2>2. ASSUME NEW n \in 0 .. N, n # 0
        PROVE  g[n] = IF Readable(all[n]) THEN Append(g[n - 1], all[n]) ELSE g[n - 1]
    <3>1. n \in 1 .. N /\ n - 1 \in 0 .. N
      BY <1>1, <2>2
    <3> QED  BY <2>1, <3>1
  <2> HIDE DEF h
  <2> QED  BY <2>1, <2>2 DEF N
<1>6. P(c)
  <2> HIDE DEF P
  <2> QED  BY <1>5
<1> HIDE DEF c
<1> DEFINE S == {n \in 0 .. N : c[n] \in Seq(Source)}
<1>7. 0 \in S
  BY <1>1, <1>6, EmptySeq DEF N
<1>8. ASSUME NEW n \in 1 .. N, n - 1 \in S PROVE n \in S
  <2>1. n \in 0 .. N /\ n # 0
    BY <1>1
  <2>2. c[n] = IF Readable(all[n]) THEN Append(c[n - 1], all[n]) ELSE c[n - 1]
    BY <1>6, <2>1 DEF N
  <2>3. c[n - 1] \in Seq(Source) /\ all[n] \in Source
    BY <1>1, <1>8
  <2>4. c[n] \in Seq(Source)
    BY <2>2, <2>3, AppendProperties
  <2> QED  BY <2>1, <2>4
<1>9. \A n \in 0 .. N : n \in S
  <2> HIDE DEF S
  <2> QED  BY <1>1, <1>7, <1>8, Induction
<1>10. N \in S
  BY <1>1, <1>9
<1> QED  BY <1>2, <1>10

\* How long a command line is, is a number.
LEMMA RenderedTyped ==
  ASSUME NEW s \in Seq(Source)
  PROVE  Rendered(s) \in Nat /\ (s = <<>> => Rendered(s) = 1)
<1> DEFINE N == Len(s)
<1>1. N \in Nat /\ \A n \in 1 .. N : s[n].size \in Nat
  <2>1. N \in Nat /\ \A n \in 1 .. N : s[n] \in Source
    BY LenProperties, ElementOfSeq
  <2> QED  BY <2>1 DEF Source
<1> DEFINE h == [n \in 1 .. N |-> [m \in Nat |-> m + 1 + s[n].size]]
           P(f) == f = [n \in 0 .. Len(s) |-> IF n = 0 THEN 1 ELSE f[n - 1] + 1 + s[n].size]
           c == CHOOSE f : P(f)
<1>2. Rendered(s) = c[N]
  BY Zenon DEF Rendered
<1>3. s = <<>> => N = 0
  OBVIOUS
<1> HIDE DEF N
<1>4. h \in Steps(N, Nat)
  BY <1>1 DEF Steps
<1>5. PICK g : Follows(g, N, Nat, 1, h)
  <2> HIDE DEF h
  <2> QED  BY <1>1, <1>4, Recursion
<1>6. P(g)
  <2>1. g \in [0 .. N -> Nat] /\ g[0] = 1 /\ \A n \in 1 .. N : g[n] = h[n][g[n - 1]]
    BY <1>5 DEF Follows
  <2>2. ASSUME NEW n \in 0 .. N, n # 0
        PROVE  g[n] = g[n - 1] + 1 + s[n].size
    <3>1. n \in 1 .. N /\ n - 1 \in 0 .. N
      BY <1>1, <2>2
    <3> QED  BY <2>1, <3>1
  <2> HIDE DEF h
  <2> QED  BY <2>1, <2>2 DEF N
<1>7. P(c)
  <2> HIDE DEF P
  <2> QED  BY <1>6
<1> HIDE DEF c
<1> DEFINE S == {n \in 0 .. N : c[n] \in Nat}
<1>8. 0 \in S /\ c[0] = 1
  BY <1>1, <1>7 DEF N
<1>9. ASSUME NEW n \in 1 .. N, n - 1 \in S PROVE n \in S
  <2>1. n \in 0 .. N /\ n # 0
    BY <1>1
  <2>2. c[n] = c[n - 1] + 1 + s[n].size
    BY <1>7, <2>1 DEF N
  <2>3. c[n - 1] \in Nat /\ s[n].size \in Nat
    BY <1>1, <1>9
  <2>4. c[n] \in Nat
    <3> DEFINE before == c[n - 1]
               size == s[n].size
    <3>1. before \in Nat /\ size \in Nat /\ c[n] = before + 1 + size
      BY <2>2, <2>3
    <3> HIDE DEF before, size, h, P
    <3> QED  BY <3>1
  <2> QED  BY <2>1, <2>4
<1>10. \A n \in 0 .. N : n \in S
  <2> HIDE DEF S
  <2> QED  BY <1>1, <1>8, <1>9, Induction
<1>11. N \in S
  BY <1>1, <1>10
<1> QED  BY <1>2, <1>3, <1>8, <1>11

\* The commands so far hold the sources so far, in order; each fits, and only
\* the last may be empty, as long as there is no source.
Packs(chunks, s) ==
  /\ chunks \in Seq(Seq(Source)) /\ chunks # <<>> /\ FlattenSeq(chunks) = s
  /\ \A k \in 1 .. Len(chunks) :
       /\ Rendered(chunks[k]) <= ArgvBudget
       /\ k < Len(chunks) \/ s # <<>> => chunks[k] # <<>>

LEMMA AddPacks ==
  ASSUME NEW chunks, NEW s \in Seq(Source), Packs(chunks, s),
         NEW x \in Source, ~TooLong(x)
  PROVE  Packs(Add(chunks, x), Append(s, x))
<1> DEFINE front == Front(chunks)
           last == Last(chunks)
<1>1. /\ chunks \in Seq(Seq(Source)) /\ chunks # <<>> /\ FlattenSeq(chunks) = s
      /\ \A k \in 1 .. Len(chunks) :
           Rendered(chunks[k]) <= ArgvBudget /\ (k < Len(chunks) \/ s # <<>> => chunks[k] # <<>>)
  BY DEF Packs
<1>2. front \in Seq(Seq(Source)) /\ last \in Seq(Source) /\ chunks = Append(front, last)
  BY <1>1, FrontAndLast
<1>3. /\ Len(chunks) = Len(front) + 1 /\ Len(front) \in Nat /\ chunks[Len(front) + 1] = last
      /\ \A k \in 1 .. Len(front) : chunks[k] = front[k]
  <2> HIDE DEF front, last
  <2>1. /\ Len(Append(front, last)) = Len(front) + 1 /\ Append(front, last)[Len(front) + 1] = last
        /\ \A k \in 1 .. Len(front) : Append(front, last)[k] = front[k]
    BY <1>2, AppendProperties
  <2> QED  BY <1>2, <2>1, LenProperties
<1>4. <<x>> \in Seq(Source) /\ <<x>> # <<>> /\ Append(s, x) # <<>>
  BY AppendProperties
<1>5. Rendered(<<x>>) <= ArgvBudget
  <2> DEFINE one == <<x>>
  <2>1. Rendered(one) \in Nat /\ ~(Rendered(one) > ArgvBudget)
    <3>1. one \in Seq(Source)
      BY <1>4
    <3>2. Rendered(one) \in Nat
      <4> HIDE DEF one
      <4> QED  BY <3>1, RenderedTyped
    <3> QED  BY <3>2 DEF TooLong
  <2> HIDE DEF one
  <2>2. Rendered(one) <= ArgvBudget
    BY <2>1, PublishPlanAssumption
  <2> QED  BY <2>2 DEF one
<1>6. Append(last, x) \in Seq(Source) /\ Append(last, x) # <<>> /\ Rendered(Append(last, x)) \in Nat
  BY <1>2, AppendProperties, RenderedTyped
<1>7. CASE last # <<>> /\ Rendered(Append(last, x)) > ArgvBudget
  <2> DEFINE more == Append(chunks, <<x>>)
  <2>1. Add(chunks, x) = more
    BY <1>7 DEF Add
  <2>2. /\ more \in Seq(Seq(Source)) /\ more # <<>> /\ Len(more) = Len(chunks) + 1
        /\ \A k \in 1 .. Len(chunks) : more[k] = chunks[k]
        /\ more[Len(chunks) + 1] = <<x>>
    <3> DEFINE one == <<x>>
    <3>1. one \in Seq(Source)
      BY <1>4
    <3> HIDE DEF one
    <3>2. LET a == Append(chunks, one)
          IN /\ a \in Seq(Seq(Source)) /\ a # <<>> /\ Len(a) = Len(chunks) + 1
             /\ \A k \in 1 .. Len(chunks) : a[k] = chunks[k]
             /\ a[Len(chunks) + 1] = one
      BY <1>1, <3>1, AppendProperties
    <3> QED  BY <3>2 DEF one
  <2>3. FlattenSeq(more) = Append(s, x)
    <3>1. FlattenSeq(more) = s \o <<x>>
      BY <1>1, <1>4, FlattenAppend
    <3> QED  BY <3>1, AppendIsConcat
  <2> HIDE DEF more
  <2>4. ASSUME NEW k \in 1 .. Len(more)
        PROVE  Rendered(more[k]) <= ArgvBudget /\ more[k] # <<>>
    <3>1. CASE k = Len(chunks) + 1
      BY <1>4, <1>5, <2>2, <3>1
    <3>2. CASE k # Len(chunks) + 1
      <4>1. k \in 1 .. Len(chunks) /\ more[k] = chunks[k]
        BY <1>3, <2>2, <3>2
      <4>2. chunks[k] # <<>>
        <5>1. k < Len(chunks) \/ (k = Len(front) + 1 /\ chunks[k] = last)
          BY <1>3, <4>1
        <5> QED  BY <1>1, <1>7, <4>1, <5>1
      <4> QED  BY <1>1, <4>1, <4>2
    <3> QED  BY <3>1, <3>2
  <2> QED  BY <2>1, <2>2, <2>3, <2>4 DEF Packs
<1>8. CASE ~(last # <<>> /\ Rendered(Append(last, x)) > ArgvBudget)
  <2> DEFINE more == Append(front, Append(last, x))
  <2>1. Add(chunks, x) = more
    BY Zenon, <1>8 DEF Add
  <2>2. /\ more \in Seq(Seq(Source)) /\ more # <<>> /\ Len(more) = Len(chunks)
        /\ \A k \in 1 .. Len(front) : more[k] = chunks[k]
        /\ more[Len(chunks)] = Append(last, x)
    BY <1>2, <1>3, <1>6, AppendProperties
  <2>3. FlattenSeq(more) = Append(s, x)
    BY <1>1, FlattenExtend
  <2>4. Rendered(Append(last, x)) <= ArgvBudget
    <3>1. CASE last = <<>>
      BY <1>5, <3>1
    <3>2. CASE last # <<>>
      BY <1>6, <1>8, <3>2, PublishPlanAssumption
    <3> QED  BY <3>1, <3>2
  <2> HIDE DEF more
  <2>5. ASSUME NEW k \in 1 .. Len(more)
        PROVE  Rendered(more[k]) <= ArgvBudget /\ more[k] # <<>>
    <3>1. CASE k = Len(chunks)
      BY <1>6, <2>2, <2>4, <3>1
    <3>2. CASE k # Len(chunks)
      <4>1. k \in 1 .. Len(front) /\ k \in 1 .. Len(chunks) /\ k < Len(chunks) /\ more[k] = chunks[k]
        BY <1>3, <2>2, <3>2
      <4> QED  BY <1>1, <4>1
    <3> QED  BY <3>1, <3>2
  <2> QED  BY <2>1, <2>2, <2>3, <2>5 DEF Packs
<1> QED  BY <1>7, <1>8

\* Of sources none of which is too long, the commands hold each one, once, in order.
LEMMA ChunksPack ==
  ASSUME NEW checkout, NEW root, checkout.sources[root] \in Seq(Source),
         \A k \in DOMAIN Sources(checkout, root) : ~TooLong(Sources(checkout, root)[k])
  PROVE  LET chunks == Chunks(checkout, root)
         IN /\ FlattenSeq(chunks) = Sources(checkout, root)
            /\ \A k \in DOMAIN chunks : chunks[k] # <<>> /\ Rendered(chunks[k]) <= ArgvBudget
<1> DEFINE src == Sources(checkout, root)
           N == Len(src)
           A == Seq(Seq(Source)) \ {<<>>}
<1>1. /\ src \in Seq(Source) /\ N \in Nat /\ DOMAIN src = 1 .. N
      /\ \A n \in 1 .. N : src[n] \in Source
  BY SourcesTyped, LenProperties, ElementOfSeq
<1>2. \A n \in 1 .. N : ~TooLong(src[n])
  BY <1>1
<1> DEFINE h == [n \in 1 .. N |-> [chunks \in A |-> Add(chunks, src[n])]]
           P(f) == f = [n \in 0 .. Len(src) |-> IF n = 0 THEN <<<<>>>> ELSE Add(f[n - 1], src[n])]
           c == CHOOSE f : P(f)
<1>3. Chunks(checkout, root) = IF src = <<>> THEN <<>> ELSE c[N]
  BY Zenon DEF Chunks
<1> HIDE DEF src, N
<1>4. <<<<>>>> \in A
  <2>1. <<>> \in Seq(Source)
    BY EmptySeq
  <2> QED  BY <2>1
<1>5. h \in Steps(N, A)
  <2>1. ASSUME NEW chunks \in A, NEW x \in Source PROVE Add(chunks, x) \in A
    <3>1. Front(chunks) \in Seq(Seq(Source)) /\ Last(chunks) \in Seq(Source) /\ <<x>> \in Seq(Source)
      BY FrontAndLast
    <3>2. Append(Last(chunks), x) \in Seq(Source)
      BY <3>1, AppendProperties
    <3>3. ASSUME NEW s \in Seq(Seq(Source)), NEW t \in Seq(Source) PROVE Append(s, t) \in A
      <4>1. Append(s, t) \in Seq(Seq(Source)) /\ Append(s, t) # <<>>
        <5> HIDE DEF A, h
        <5> QED  BY AppendProperties
      <4> QED  BY <4>1
    <3> HIDE DEF A
    <3>4. chunks \in Seq(Seq(Source))
      BY DEF A
    <3> QED  BY <3>1, <3>2, <3>3, <3>4 DEF Add
  <2> HIDE DEF A
  <2> QED  BY <1>1, <2>1 DEF Steps
<1> HIDE DEF A
<1>6. PICK g : Follows(g, N, A, <<<<>>>>, h)
  <2> HIDE DEF h
  <2> QED  BY <1>1, <1>4, <1>5, Recursion
<1>7. P(g)
  <2>1. g \in [0 .. N -> A] /\ g[0] = <<<<>>>> /\ \A n \in 1 .. N : g[n] = h[n][g[n - 1]]
    BY <1>6 DEF Follows
  <2>2. ASSUME NEW n \in 0 .. N, n # 0
        PROVE  g[n] = Add(g[n - 1], src[n])
    <3>1. n \in 1 .. N /\ n - 1 \in 0 .. N
      BY <1>1, <2>2
    <3> QED  BY <2>1, <3>1
  <2> HIDE DEF h
  <2> QED  BY <2>1, <2>2 DEF N
<1>8. P(c)
  <2> HIDE DEF P
  <2> QED  BY <1>7
<1> HIDE DEF c
<1> DEFINE S == {n \in 0 .. N : Packs(c[n], SubSeq(src, 1, n))}
<1>9. 0 \in S
  <2>1. c[0] = <<<<>>>>
    BY <1>1, <1>8 DEF N
  <2>2. SubSeq(src, 1, 0) = <<>>
    BY SubSeqEmpty
  <2>3. <<<<>>>> \in Seq(Seq(Source)) /\ <<<<>>>> # <<>> /\ Len(<<<<>>>>) = 1 /\ <<<<>>>>[1] = <<>>
    BY <1>4 DEF A
  <2>4. FlattenSeq(<<<<>>>>) = <<>>
    <3>1. <<<<>>>> = Append(<<>>, <<>>) /\ <<>> \in Seq(Seq(Source)) /\ <<>> \in Seq(Source)
      BY EmptySeq
    <3>2. FlattenSeq(Append(<<>>, <<>>)) = FlattenSeq(<<>>) \o <<>>
      BY <3>1, FlattenAppend
    <3> QED  BY <3>1, <3>2, FlattenEmpty, ConcatEmptySeq
  <2>5. Rendered(<<>>) = 1
    BY EmptySeq, RenderedTyped
  <2>6. Packs(<<<<>>>>, <<>>)
    <3> DEFINE none == <<<<>>>>
    <3>1. ASSUME NEW k \in 1 .. Len(none)
          PROVE  Rendered(none[k]) <= ArgvBudget /\ (k < Len(none) \/ <<>> # <<>> => none[k] # <<>>)
      <4>1. k = 1 /\ Len(none) = 1 /\ none[k] = <<>>
        BY <2>3
      <4> HIDE DEF none
      <4> QED  BY <2>5, <4>1, PublishPlanAssumption
    <3> QED  BY <2>3, <2>4, <3>1 DEF Packs
  <2>7. 0 \in 0 .. N /\ Packs(c[0], SubSeq(src, 1, 0))
    <3>1. 0 \in 0 .. N
      BY <1>1
    <3> DEFINE none == <<<<>>>>
    <3>2. c[0] = none /\ Packs(none, <<>>)
      BY <2>1, <2>6
    <3> HIDE DEF none
    <3> QED  BY Zenon, <2>2, <3>1, <3>2
  <2> QED  BY <2>7
<1>10. ASSUME NEW n \in 1 .. N, n - 1 \in S PROVE n \in S
  <2>1. n \in 0 .. N /\ n # 0 /\ n - 1 \in 0 .. N
    BY <1>1
  <2>2. c[n] = Add(c[n - 1], src[n])
    BY <1>8, <2>1 DEF N
  <2>3. SubSeq(src, 1, n - 1) \in Seq(Source)
    <3>1. \A k \in 1 .. n - 1 : src[k] \in Source
      BY <1>1, <2>1
    <3> QED  BY <2>1, <3>1, SubSeqProperties
  <2>4. SubSeq(src, 1, n) = Append(SubSeq(src, 1, n - 1), src[n])
    <3>1. SubSeq(src, 1, n) = SubSeq(src, 1, n - 1) \o <<src[n]>>
      <4>1. 1 \in 1 .. Len(src) /\ n \in 1 .. Len(src)
        BY <1>1, <2>1 DEF N
      <4> QED  BY <1>1, <4>1, SubSeqRecursiveSecond
    <3> QED  BY <1>1, <2>3, <3>1, AppendIsConcat
  <2> QED  BY <1>1, <1>2, <1>10, <2>1, <2>2, <2>3, <2>4, AddPacks
<1>11. \A n \in 0 .. N : n \in S
  <2> HIDE DEF S
  <2> QED  BY <1>1, <1>9, <1>10, Induction
<1>12. Packs(c[N], src)
  <2>1. N \in S
    BY <1>1, <1>11
  <2>2. SubSeq(src, 1, N) = src
    BY <1>1, SubSeqFull DEF N
  <2> QED  BY <2>1, <2>2
<1>13. CASE src = <<>>
  BY <1>3, <1>13, FlattenEmpty DEF src
<1>14. CASE src # <<>>
  <2>1. Chunks(checkout, root) = c[N]
    BY <1>3, <1>14
  <2>2. c[N] \in Seq(Seq(Source)) /\ FlattenSeq(c[N]) = src
        /\ \A k \in 1 .. Len(c[N]) : Rendered(c[N][k]) <= ArgvBudget /\ c[N][k] # <<>>
    BY <1>12, <1>14 DEF Packs
  <2>3. DOMAIN c[N] = 1 .. Len(c[N])
    BY <2>2, LenProperties
  <2> QED  BY <2>1, <2>2, <2>3 DEF src
<1> QED  BY <1>13, <1>14

\* A command is past the gates only with a clean checkout.
Gated ==
  \A i \in Proc : stage[i] \in {"measure", "resolve", "run"} \/ (\E f \in Flavor : lane[i][f] # "idle")
    => setting \in CleanSettings

\* Every step keeps the gates ahead of the lanes.
LEMMA StepGated == Wide /\ Gated /\ [Next]_vars => Gated'
<1> SUFFICES ASSUME Wide, Gated, [Next]_vars PROVE Gated'
  OBVIOUS
<1> DEFINE Past(i) == stage[i] \in {"measure", "resolve", "run"}
<1>1. ASSUME NEW i \in Proc, NEW f \in Flavor, Fails(i, f) \/ Lane(i, f) PROVE Gated'
  BY <1>1, OneLane DEF Gated, CleanSettings
<1>2. ASSUME NEW i \in Proc, Interrupt(i) PROVE Gated'
  BY <1>2, Interrupted DEF Gated, CleanSettings, Running
<1>3. ASSUME lane' = lane, setting' = setting,
             \A i \in Proc : Past(i)' => Past(i) \/ setting \in CleanSettings
      PROVE  Gated'
  BY <1>3 DEF Gated, CleanSettings
<1>4. ASSUME NEW i \in Proc, Enter(i) \/ RunTools(i) \/ PassGates(i) \/ FailEarly(i) PROVE Gated'
  <2>1. lane' = lane /\ setting' = setting
    BY <1>4 DEF Enter, RunTools, PassGates, FailEarly, given
  <2>2. \A j \in Proc : Past(j)' => Past(j) \/ setting \in CleanSettings
    BY <1>4 DEF Enter, RunTools, PassGates, FailEarly, Go, End, Wide, TypeOK
  <2> QED  BY <1>3, <2>1, <2>2
<1>5. ASSUME NEW i \in Proc, Measure(i) \/ Resolve(i) \/ Collect(i) PROVE Gated'
  <2>1. lane' = lane /\ setting' = setting
    BY <1>5 DEF Measure, Resolve, Collect, given
  <2>2. \A j \in Proc : Past(j)' => Past(j)
    BY <1>5 DEF Measure, Resolve, Collect, Go, End, Wide, TypeOK
  <2> QED  BY <1>3, <2>1, <2>2
<1>6. CASE UNCHANGED vars \/ Rest
  BY <1>6 DEF Rest, vars, given, Gated, CleanSettings
<1> QED  BY <1>1, <1>2, <1>4, <1>5, <1>6 DEF Next, Work, Trouble

\* However many sources a root has and however long their paths are, a build runs
\* only after commands that fit gave the formatter each source it can read, once.
THEOREM SourcesFormatted == Spec => []EverySourceIsFormatted
<1>1. Init => Gated
  BY DEF Init, Gated
<1>2. Wide /\ Gated => EverySourceIsFormatted
  <2> SUFFICES ASSUME Wide, Gated, \E i \in Proc, f \in Flavor : lane[i][f] # "idle",
                      NEW root \in DOMAIN setting.checkout.sources
               PROVE  LET chunks == Chunks(setting.checkout, root)
                      IN /\ FlattenSeq(chunks) = Sources(setting.checkout, root)
                         /\ \A k \in DOMAIN chunks :
                              chunks[k] # <<>> /\ Rendered(chunks[k]) <= ArgvBudget
    BY DEF EverySourceIsFormatted
  <2>1. Commandable(setting.checkout)
    BY DEF Gated, CleanSettings, Clean
  <2>2. setting.checkout.sources[root] \in Seq(Source)
    BY SourcesAssumption DEF Wide, TypeOK, Source
  <2> QED  BY <2>1, <2>2, ChunksPack DEF Commandable
<1> QED  BY <1>1, <1>2, InitTypes, StepTypes, StepGated, PTL DEF Spec
===========================================================================
