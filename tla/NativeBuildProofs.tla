------------------------- MODULE NativeBuildProofs -------------------------
(***************************************************************************)
(* What TLAPS proves of NativeBuild, for any number of invocations, hosts, *)
(* projects, versions and faults: its type invariant and every safety      *)
(* property.  The inductive invariant says what an invocation has of the   *)
(* toolchain at each of its steps (ToolingOK), which file is at which of   *)
(* the names (NamesOK: a sibling that is being filled has no other name),  *)
(* and what one that has the project to itself has built (MineOK).         *)
(***************************************************************************)
EXTENDS NativeBuild, FiniteSetTheorems, TLAPS

\* The tools before the n-th are installed.
Installed(n) ==
  \A i \in DOMAIN Steps : i < n /\ Steps[i] # "ghcup" => tool[Steps[i]] = "ok"

\* The tools before the wanted one are installed, and all of them from the
\* build on, cabal's orphaned linkers included.
Tooled(p) ==
  /\ At(p, "enter") => me[p].step = 1
  /\ At(p, "place") => Steps[me[p].step] = "ghcup"
  /\ me[p].at \in {"probe", "install", "place"} => Installed(me[p].step)
  /\ me[p].at \in {"index", "build"} \/ Publishing(p) => Installed(Len(Steps) + 1)
ToolingOK == \A p \in Proc : Tooled(p)

\* Which names an invocation has at which step.
Slots(p) ==
  /\ temp[p] # 0 <=> me[p].at \in {"copy", "replace", "aside", "swap"}
  /\ image[p] # 0 <=> At(p, "running")
  /\ prev[p] # 0 => me[p].at \in {"off", "swap"}
  /\ At(p, "swap") => prev[p] # 0
  /\ me[p].at \in {"aside", "swap"} => Windows

\* A sibling that is being filled has no other name.
Apart(p) ==
  temp[p] # 0 =>
    /\ temp[p] # exe
    /\ \A q \in Proc : temp[p] # prev[q] /\ temp[p] # image[q] /\ (q # p => temp[p] # temp[q])
NamesOK == \A p \in Proc : Slots(p) /\ Apart(p)

\* An invocation nobody builds or publishes beside has what it built, wherever
\* it has got with it.
Owns(p) ==
  /\ links[p] # 0 => me[p].at \in {"off", "linking"}
  /\ At(p, "linking") /\ links[p] # 0 => links[p] = me[p].built
  /\ Publishing(p) /\ ~At(p, "off") /\ ~shared[p] => \A q \in Proc \ {p} : ~Publishing(q)
  /\ ~shared[p] =>
       /\ At(p, "linking") /\ links[p] = 0 => dist = me[p].built
       /\ At(p, "copy") => dist = me[p].built /\ me[p].seen = me[p].built
       /\ me[p].at \in {"replace", "aside", "swap"} => bytes[temp[p]] = me[p].built
       /\ me[p].at \in {"identity", "exec"} => exe # 0 /\ bytes[exe] = me[p].built
       /\ At(p, "running") => bytes[image[p]] = me[p].built
MineOK == \A p \in Proc : Owns(p)
---------------------------------------------------------------------------
(* Types                                                                     *)

\* A name leads to at most one file of each invocation.
LEMMA Named ==
  ASSUME NEW name, DOMAIN name = Proc
  PROVE  LET F == {name[p] : p \in Proc}
         IN IsFiniteSet(F) /\ Cardinality(F) <= Cardinality(Proc) /\ Cardinality(F) \in Nat
<1> DEFINE F == {name[p] : p \in Proc}
           Given == [p \in Proc |-> name[p]]
<1>1. Given \in Surjection(Proc, F)
  BY DEF Surjection
<1>2. IsFiniteSet(F) /\ Cardinality(F) <= Cardinality(Proc)
  <2> HIDE DEF Given, F
  <2> QED  BY <1>1, FS_Surjection, NativeBuildAssumption
<1> QED  BY <1>2, FS_CardinalityType

\* The union of two finite sets is no larger than both.
LEMMA Joint ==
  ASSUME NEW S, NEW T, IsFiniteSet(S), IsFiniteSet(T)
  PROVE  /\ IsFiniteSet(S \cup T) /\ Cardinality(S \cup T) \in Nat
         /\ Cardinality(S \cup T) <= Cardinality(S) + Cardinality(T)
<1>1. IsFiniteSet(S \cup T)
      /\ Cardinality(S \cup T) = Cardinality(S) + Cardinality(T) - Cardinality(S \cap T)
  BY FS_Union
<1>2. IsFiniteSet(S \cap T)
  BY FS_Subset
<1>3. /\ Cardinality(S) \in Nat /\ Cardinality(T) \in Nat /\ Cardinality(S \cap T) \in Nat
      /\ Cardinality(S \cup T) \in Nat
  BY <1>1, <1>2, FS_CardinalityType
<1> QED  BY <1>1, <1>3

\* There is always a file to fill.
LEMMA Fresh ==
  ASSUME TypeOK
  PROVE  (CHOOSE f \in Inode : f \notin Using) \in Inode \ Using
<1> DEFINE I == {image[p] : p \in Proc}
           T == {temp[p] : p \in Proc}
           P == {prev[p] : p \in Proc}
<1>1. DOMAIN image = Proc /\ DOMAIN temp = Proc /\ DOMAIN prev = Proc
  BY DEF TypeOK
<1>2. /\ IsFiniteSet(I) /\ Cardinality(I) <= Cardinality(Proc) /\ Cardinality(I) \in Nat
      /\ IsFiniteSet(T) /\ Cardinality(T) <= Cardinality(Proc) /\ Cardinality(T) \in Nat
      /\ IsFiniteSet(P) /\ Cardinality(P) <= Cardinality(Proc) /\ Cardinality(P) \in Nat
  BY <1>1, Named
<1>3. IsFiniteSet({exe}) /\ Cardinality({exe}) = 1
  BY FS_Singleton
<1>4. Cardinality(Proc) \in Nat /\ Cardinality(Inode) \in Nat
  BY NativeBuildAssumption, FS_CardinalityType
<1> HIDE DEF I, T, P
<1>5. IsFiniteSet({exe} \cup I) /\ Cardinality({exe} \cup I) \in Nat
      /\ Cardinality({exe} \cup I) <= 1 + Cardinality(Proc)
  BY <1>2, <1>3, <1>4, Joint
<1>6. IsFiniteSet(({exe} \cup I) \cup T) /\ Cardinality(({exe} \cup I) \cup T) \in Nat
      /\ Cardinality(({exe} \cup I) \cup T) <= 1 + 2 * Cardinality(Proc)
  BY <1>2, <1>4, <1>5, Joint
<1>7. IsFiniteSet((({exe} \cup I) \cup T) \cup P)
      /\ Cardinality((({exe} \cup I) \cup T) \cup P) \in Nat
      /\ Cardinality((({exe} \cup I) \cup T) \cup P) <= 1 + 3 * Cardinality(Proc)
  BY <1>2, <1>4, <1>6, Joint
<1>8. Using = (({exe} \cup I) \cup T) \cup P
  BY DEF Using, I, T, P
<1>9. ASSUME Inode \subseteq Using PROVE FALSE
  <2>1. Cardinality(Inode) <= Cardinality(Using)
    BY <1>7, <1>8, <1>9, FS_Subset
  <2> QED  BY <1>4, <1>7, <1>8, <2>1, NativeBuildAssumption
<1> QED  BY <1>9

\* The host does not change, nor what depends on it.
LEMMA SameHost ==
  ASSUME UNCHANGED hosts
  PROVE  Steps' = Steps /\ Task' = Task /\ Windows' = Windows /\ Linux' = Linux
BY DEF hosts, Steps, Task, Windows, Linux, Torn

LEMMA StepCount ==
  /\ Len(Steps) \in {3, 4} /\ DOMAIN Steps = 1 .. Len(Steps)
  /\ \A i \in DOMAIN Steps : Steps[i] \in Tool
<1>1. CASE Linux
  BY <1>1 DEF Steps, Tool
<1>2. CASE ~Linux
  BY <1>2 DEF Steps, Tool
<1> QED  BY <1>1, <1>2

Places == {"off", "enter", "probe", "install", "place", "index", "build", "linking", "copy",
           "replace", "aside", "swap", "identity", "exec", "running"}

\* What the ways to move an invocation do.
LEMMA Moves ==
  ASSUME TypeOK, NEW p \in Proc
  PROVE  /\ \A s \in Places : Go(p, s) =>
              /\ me' \in [Proc -> Task] /\ me'[p] = [me[p] EXCEPT !.at = s]
              /\ \A q \in Proc \ {p} : me'[q] = me[q]
         /\ Stop(p) =>
              /\ me' \in [Proc -> Task] /\ me'[p] = Idle
              /\ \A q \in Proc \ {p} : me'[q] = me[q]
         /\ NextStep(p) =>
              /\ me' \in [Proc -> Task]
              /\ \A q \in Proc \ {p} : me'[q] = me[q]
              /\ \/ /\ me[p].step = Len(Steps)
                    /\ me'[p] = [me[p] EXCEPT !.at = "index", !.step = 1, !.tries = 0]
                 \/ /\ me[p].step # Len(Steps)
                    /\ me'[p] = [me[p] EXCEPT !.at = "probe", !.step = me[p].step + 1, !.tries = 0]
<1>1. me \in [Proc -> Task] /\ me[p] \in Task
  BY DEF TypeOK
<1>2. ASSUME NEW s \in Places, Go(p, s)
      PROVE  /\ me' \in [Proc -> Task] /\ me'[p] = [me[p] EXCEPT !.at = s]
             /\ \A q \in Proc \ {p} : me'[q] = me[q]
  <2>1. [me[p] EXCEPT !.at = s] \in Task
    BY <1>1, <1>2 DEF Task, Places
  <2>2. me' = [me EXCEPT ![p] = [me[p] EXCEPT !.at = s]]
    BY <1>2 DEF Go
  <2> QED  BY <1>1, <2>1, <2>2
<1>3. ASSUME Stop(p)
      PROVE  /\ me' \in [Proc -> Task] /\ me'[p] = Idle
             /\ \A q \in Proc \ {p} : me'[q] = me[q]
  <2>1. Idle \in Task
    BY NativeBuildAssumption, StepCount DEF Idle, Task
  <2> QED  BY <1>1, <1>3, <2>1 DEF Stop
<1>5. 1 \in 1 .. Len(Steps) /\ 0 \in 0 .. Attempts - 1 /\ Len(Steps) \in Nat
  BY NativeBuildAssumption, StepCount
<1>4. ASSUME NextStep(p)
      PROVE  /\ me' \in [Proc -> Task]
             /\ \A q \in Proc \ {p} : me'[q] = me[q]
             /\ \/ /\ me[p].step = Len(Steps)
                   /\ me'[p] = [me[p] EXCEPT !.at = "index", !.step = 1, !.tries = 0]
                \/ /\ me[p].step # Len(Steps)
                   /\ me'[p] = [me[p] EXCEPT !.at = "probe", !.step = me[p].step + 1, !.tries = 0]
  <2>1. CASE me[p].step = Len(Steps)
    <3>1. [me[p] EXCEPT !.at = "index", !.step = 1, !.tries = 0] \in Task
      BY <1>1, <1>5 DEF Task
    <3>2. me' = [me EXCEPT ![p] = [me[p] EXCEPT !.at = "index", !.step = 1, !.tries = 0]]
      BY <1>4, <2>1 DEF NextStep
    <3> QED  BY <1>1, <2>1, <3>1, <3>2
  <2>2. CASE me[p].step # Len(Steps)
    <3>1. me[p].step + 1 \in 1 .. Len(Steps)
      BY <1>1, <1>5, <2>2 DEF Task
    <3>3. [me[p] EXCEPT !.at = "probe", !.step = me[p].step + 1, !.tries = 0] \in Task
      BY <1>1, <1>5, <3>1 DEF Task
    <3>2. me' = [me EXCEPT ![p] = [me[p] EXCEPT !.at = "probe", !.step = me[p].step + 1, !.tries = 0]]
      BY <1>4, <2>2 DEF NextStep
    <3> QED  BY <1>1, <2>2, <3>3, <3>2
  <2> QED  BY <2>1, <2>2
<1> QED  BY <1>2, <1>3, <1>4

Version == {Torn} \cup 0 .. MaxVersion
NamesTyped ==
  /\ exe \in Inode \cup {0} /\ temp \in [Proc -> Inode \cup {0}]
  /\ prev \in [Proc -> Inode \cup {0}] /\ image \in [Proc -> Inode \cup {0}]
WorldTyped ==
  /\ host \in Hosts /\ project \in Projects
  /\ tool \in [Tool -> {"missing", "partial", "cut", "ok"}] /\ index \in IndexState
  /\ left \in [Proc -> Tool \cup {"index", "none"}]
  /\ source \in 1 .. MaxVersion /\ dist \in Version /\ links \in [Proc -> 0 .. MaxVersion]
  /\ faults \in 0 .. MaxFault

LEMMA Parts ==
  TypeOK <=> /\ NamesTyped /\ WorldTyped /\ bytes \in [Inode -> Version]
             /\ me \in [Proc -> Task] /\ shared \in [Proc -> BOOLEAN]
BY DEF TypeOK, NamesTyped, WorldTyped, Version

LEMMA PartsNext ==
  TypeOK' <=> /\ NamesTyped' /\ WorldTyped' /\ bytes' \in [Inode -> Version]
              /\ me' \in [Proc -> Task'] /\ shared' \in [Proc -> BOOLEAN]
BY DEF TypeOK, NamesTyped, WorldTyped, Version, Torn

LEMMA Forgets ==
  ASSUME TypeOK, Forget
  PROVE  /\ bytes' \in [Inode -> Version]
         /\ \A f \in Inode : f \in Using' => bytes'[f] = bytes[f]
<1>1. bytes \in [Inode -> Version]
  BY Parts
<1>2. 0 \in Version
  BY NativeBuildAssumption DEF Version
<1> HIDE DEF Version
<1> QED  BY <1>1, <1>2 DEF Forget

LEMMA Watches == Watch => shared' \in [Proc -> BOOLEAN]
BY Zenon DEF Watch

\* Each action keeps the types of the names, of the world, of the files' content
\* and of what the invocations do.
Typed == NamesTyped' /\ WorldTyped' /\ bytes' \in [Inode -> Version] /\ me' \in [Proc -> Task]

LEMMA ToolingTypes ==
  ASSUME TypeOK, NEW p \in Proc, Tooling(p)
  PROVE  Typed /\ UNCHANGED hosts
<1>1. NamesTyped /\ WorldTyped /\ bytes \in [Inode -> Version]
  BY Parts
<1>2. CASE Enter(p)
  BY <1>1, <1>2, Moves DEF Enter, Typed, NamesTyped, WorldTyped, Version, tools, code, files, hosts, Places
<1>3. CASE Probe(p)
  <2>1. me' \in [Proc -> Task]
    <3>1. PICK o \in Outcomes(Wanted(p)) :
            CASE o = "present" -> NextStep(p)
              [] o = "busy" /\ me[p].tries + 1 < Attempts ->
                   me' = [me EXCEPT ![p].tries = me[p].tries + 1]
              [] o \in {"absent", "busy"} /\ ~me[p].offline -> Go(p, "install")
              [] OTHER -> Stop(p)
      BY <1>3 DEF Probe
    <3>2. \/ NextStep(p) \/ Go(p, "install") \/ Stop(p)
          \/ me[p].tries + 1 < Attempts /\ me' = [me EXCEPT ![p].tries = me[p].tries + 1]
      BY <3>1
    <3>3. ASSUME me[p].tries + 1 < Attempts, me' = [me EXCEPT ![p].tries = me[p].tries + 1]
          PROVE  me' \in [Proc -> Task]
      <4>1. me[p] \in Task
        BY DEF TypeOK
      <4>2. me[p].tries + 1 \in 0 .. Attempts - 1
        BY <3>3, <4>1, NativeBuildAssumption DEF Task
      <4>3. [me[p] EXCEPT !.tries = me[p].tries + 1] \in Task
        BY <4>1, <4>2 DEF Task
      <4> QED  BY <3>3, <4>3 DEF TypeOK
    <3> QED  BY <3>2, <3>3, Moves DEF Places
  <2> QED  BY <1>1, <1>3, <2>1 DEF Probe, Typed, NamesTyped, WorldTyped, Version, tools, code, files, hosts
<1>4. CASE Install(p)
  <2>1. tool' \in [Tool -> {"missing", "partial", "cut", "ok"}]
    BY <1>1, <1>4 DEF Install, WorldTyped
  <2>2. me' \in [Proc -> Task]
    BY <1>4, Moves DEF Install
  <2> QED  BY <1>1, <1>4, <2>1, <2>2 DEF Install, Typed, NamesTyped, WorldTyped, Version, code, files, hosts
<1>5. CASE PlaceGhcup(p)
  <2>1. tool' \in [Tool -> {"missing", "partial", "cut", "ok"}]
    BY <1>1, <1>5 DEF PlaceGhcup, WorldTyped
  <2>2. me' \in [Proc -> Task]
    BY <1>5, Moves DEF PlaceGhcup, Places
  <2> QED  BY <1>1, <1>5, <2>1, <2>2 DEF PlaceGhcup, Typed, NamesTyped, WorldTyped, Version, code, files, hosts
<1>6. CASE GhcupPlaced(p)
  <2>1. tool' \in [Tool -> {"missing", "partial", "cut", "ok"}]
    BY <1>1, <1>6 DEF GhcupPlaced, WorldTyped
  <2>2. me' \in [Proc -> Task]
    BY <1>6, Moves DEF GhcupPlaced
  <2> QED  BY <1>1, <1>6, <2>1, <2>2 DEF GhcupPlaced, Typed, NamesTyped, WorldTyped, Version, code, files, hosts
<1> QED  BY <1>2, <1>3, <1>4, <1>5, <1>6 DEF Tooling

LEMMA BuildingTypes ==
  ASSUME TypeOK, NEW p \in Proc, Building(p)
  PROVE  Typed /\ UNCHANGED hosts
<1>1. NamesTyped /\ WorldTyped /\ bytes \in [Inode -> Version] /\ me \in [Proc -> Task]
  BY Parts
<1>2. CASE RefreshIndex(p)
  BY <1>1, <1>2, Moves
     DEF RefreshIndex, Typed, NamesTyped, WorldTyped, Version, code, files, hosts, Places, IndexState
<1>3. CASE Build(p)
  <2>1. me' = [me EXCEPT ![p] = [me[p] EXCEPT !.at = "linking", !.built = source]]
    BY <1>3 DEF Build
  <2>4. me[p] \in Task /\ source \in 0 .. MaxVersion
    BY <1>1, NativeBuildAssumption DEF WorldTyped
  <2>2. [me[p] EXCEPT !.at = "linking", !.built = source] \in Task
    BY <2>4 DEF Task
  <2>3. dist' \in Version /\ links' \in [Proc -> 0 .. MaxVersion]
    BY <1>1, <1>3, NativeBuildAssumption DEF Build, WorldTyped, Version
  <2>5. me' \in [Proc -> Task]
    BY <1>1, <2>1, <2>2
  <2>6. WorldTyped'
    BY <1>1, <1>3, <2>3 DEF Build, WorldTyped, tools, hosts
  <2> QED  BY <1>1, <1>3, <2>5, <2>6 DEF Build, Typed, NamesTyped, files, hosts
<1>4. CASE Compare(p)
  <2> DEFINE new == CHOOSE f \in Inode : f \notin Using
  <2>1. CASE Identical
    BY <1>1, <1>4, <2>1, Moves
       DEF Compare, Typed, NamesTyped, WorldTyped, Version, tools, code, hosts, Places
  <2>2. CASE ~Identical
    <3>1. new \in Inode
      BY Fresh
    <3>2. /\ me' = [me EXCEPT ![p] = [me[p] EXCEPT !.at = "copy", !.seen = dist]]
          /\ temp' = [temp EXCEPT ![p] = new] /\ bytes' = [bytes EXCEPT ![new] = Torn]
          /\ UNCHANGED <<hosts, tools, code, exe, prev, image, faults>>
      BY <1>4, <2>2 DEF Compare
    <3> HIDE DEF new
    <3>3. [me[p] EXCEPT !.at = "copy", !.seen = dist] \in Task
      BY <1>1 DEF Task, WorldTyped, Version
    <3>4. bytes' \in [Inode -> Version] /\ temp' \in [Proc -> Inode \cup {0}]
      BY <1>1, <3>1, <3>2 DEF Version, NamesTyped
    <3> QED  BY <1>1, <3>2, <3>3, <3>4
         DEF Typed, NamesTyped, WorldTyped, Version, tools, code, hosts
  <2> QED  BY <2>1, <2>2
<1>5. CASE Copy(p)
  <2>1. me' = [me EXCEPT ![p] = [me[p] EXCEPT !.at = "replace", !.seen = 0]]
    BY <1>5 DEF Copy
  <2>4. me[p] \in Task /\ 0 \in 0 .. MaxVersion
    BY <1>1, NativeBuildAssumption
  <2>2. [me[p] EXCEPT !.at = "replace", !.seen = 0] \in Task
    BY <2>4 DEF Task
  <2>3. bytes' \in [Inode -> Version]
    BY <1>1, <1>5 DEF Copy, Version, WorldTyped
  <2> QED  BY <1>1, <1>5, <2>1, <2>2, <2>3
       DEF Copy, Typed, NamesTyped, WorldTyped, Version, tools, code, hosts
<1>6. CASE Replace(p)
  <2>1. me' \in [Proc -> Task]
    BY <1>6, Moves DEF Replace, Places
  <2>2. NamesTyped'
    BY <1>1, <1>6 DEF Replace, Publish, Reset, NamesTyped
  <2> QED  BY <1>1, <1>6, <2>1, <2>2, Forgets DEF Replace, Typed, WorldTyped, tools, code, hosts
<1>7. CASE Aside(p)
  BY <1>1, <1>7, Moves, Forgets
     DEF Aside, Reset, Typed, NamesTyped, WorldTyped, tools, code, hosts, Places
<1>8. CASE Swap(p)
  <2>1. me' \in [Proc -> Task]
    BY <1>8, Moves DEF Swap, SwapFails, Places
  <2>2. NamesTyped'
    BY <1>1, <1>8 DEF Swap, SwapFails, Publish, Reset, NamesTyped
  <2> QED  BY <1>1, <1>8, <2>1, <2>2, Forgets DEF Swap, Typed, WorldTyped, tools, code, hosts
<1>9. CASE Identity(p)
  BY <1>1, <1>9, Moves
     DEF Identity, Typed, NamesTyped, WorldTyped, tools, code, files, hosts, Places
<1>10. CASE Exec(p)
  BY <1>1, <1>10, Moves
     DEF Exec, Typed, NamesTyped, WorldTyped, tools, code, hosts, Places
<1> QED  BY <1>2, <1>3, <1>4, <1>5, <1>6, <1>7, <1>8, <1>9, <1>10 DEF Building

LEMMA OtherTypes ==
  ASSUME TypeOK,
         Edit \/ \E p \in Proc : \/ Start(p) \/ Link(p) \/ ProgramEnds(p)
                                \/ Fail(p) \/ Crash(p) \/ Outlive(p)
  PROVE  Typed /\ UNCHANGED hosts
<1>1. NamesTyped /\ WorldTyped /\ bytes \in [Inode -> Version] /\ me \in [Proc -> Task]
  BY Parts
<1>2. CASE Edit
  BY <1>1, <1>2, NativeBuildAssumption
     DEF Edit, Typed, NamesTyped, WorldTyped, tools, files, hosts
<1>3. ASSUME NEW p \in Proc, Start(p) PROVE Typed /\ UNCHANGED hosts
  <2>1. PICK w \in Ways[p] :
          me' = [me EXCEPT ![p] = [Idle EXCEPT !.at = "enter", !.kind = w[1], !.offline = w[2]]]
    BY <1>3 DEF Start
  <2>2. w[1] \in {"doctor", "build", "run"} /\ w[2] \in BOOLEAN
    BY <2>1, NativeBuildAssumption
  <2>3. [Idle EXCEPT !.at = "enter", !.kind = w[1], !.offline = w[2]] \in Task
    <3>1. Idle \in Task
      BY NativeBuildAssumption, StepCount DEF Idle, Task
    <3> QED  BY <2>2, <3>1 DEF Task
  <2> QED  BY <1>1, <1>3, <2>1, <2>3, Forgets
       DEF Start, Reset, Typed, NamesTyped, WorldTyped, tools, code, hosts
<1>4. ASSUME NEW p \in Proc, Link(p) PROVE Typed /\ UNCHANGED hosts
  <2>1. dist' \in Version /\ links' \in [Proc -> 0 .. MaxVersion]
    BY <1>1, <1>4, NativeBuildAssumption DEF Link, Reset, WorldTyped, Version
  <2> QED  BY <1>1, <1>4, <2>1 DEF Link, Typed, NamesTyped, WorldTyped, tools, files, hosts
<1>5. ASSUME NEW p \in Proc, ProgramEnds(p) PROVE Typed /\ UNCHANGED hosts
  BY <1>1, <1>5, Moves, Forgets
     DEF ProgramEnds, Reset, Typed, NamesTyped, WorldTyped, tools, code, hosts
<1>6. ASSUME NEW p \in Proc, Fail(p) PROVE Typed /\ UNCHANGED hosts
  <2>3. me' \in [Proc -> Task]
    BY <1>6, Moves DEF Fail, SwapFails
  <2>4. NamesTyped'
    BY <1>1, <1>6 DEF Fail, SwapFails, Reset, NamesTyped
  <2>2. links' \in [Proc -> 0 .. MaxVersion] /\ faults' \in 0 .. MaxFault
    BY <1>1, <1>6, NativeBuildAssumption DEF Fail, Reset, WorldTyped
  <2> QED  BY <1>1, <1>6, <2>2, <2>3, <2>4, Forgets DEF Fail, Typed, WorldTyped, tools, hosts
<1>7. ASSUME NEW p \in Proc, Crash(p) PROVE Typed /\ UNCHANGED hosts
  <2>1. me' \in [Proc -> Task]
    BY <1>7, Moves DEF Crash
  <2>2. NamesTyped' /\ faults' \in 0 .. MaxFault
    BY <1>1, <1>7, NativeBuildAssumption DEF Crash, Reset, NamesTyped, WorldTyped
  <2>3. left' \in [Proc -> Tool \cup {"index", "none"}]
    <3>1. Wanted(p) \in Tool
      BY <1>1, StepCount DEF Wanted, Task
    <3> QED  BY <1>1, <1>7, <3>1 DEF Crash, WorldTyped
  <2> QED  BY <1>1, <1>7, <2>1, <2>2, <2>3, Forgets DEF Crash, Typed, WorldTyped, code, hosts
<1>8. ASSUME NEW p \in Proc, Outlive(p) PROVE Typed /\ UNCHANGED hosts
  <2>1. left[p] \in Tool \cup {"index", "none"} /\ left' \in [Proc -> Tool \cup {"index", "none"}]
    BY <1>1, <1>8 DEF Outlive, WorldTyped
  <2>2. tool' \in [Tool -> {"missing", "partial", "cut", "ok"}] /\ index' \in IndexState
    BY <1>1, <1>8, <2>1 DEF Outlive, WorldTyped, IndexState
  <2> QED  BY <1>1, <1>8, <2>1, <2>2 DEF Outlive, Typed, NamesTyped, WorldTyped, Version, code, files,
                                         hosts
<1> QED  BY <1>2, <1>3, <1>4, <1>5, <1>6, <1>7, <1>8

LEMMA TypeStep == TypeOK /\ [Next]_vars => TypeOK' /\ UNCHANGED hosts
<1> SUFFICES ASSUME TypeOK, [Next]_vars PROVE TypeOK' /\ UNCHANGED hosts
  OBVIOUS
<1>1. CASE Next
  <2>1. Typed /\ UNCHANGED hosts
    BY <1>1, ToolingTypes, BuildingTypes, OtherTypes DEF Next, Work
  <2>2. shared' \in [Proc -> BOOLEAN]
    BY <1>1, Watches DEF Next
  <2> QED  BY <2>1, <2>2, SameHost, PartsNext DEF Typed
<1>2. CASE UNCHANGED vars
  BY <1>2, SameHost, Parts, PartsNext
     DEF vars, hosts, tools, code, files, NamesTyped, WorldTyped
<1> QED  BY <1>1, <1>2

\* Every record of a host, its toolchain, its builds and its invocations holds
\* what the code puts there, for any number of them.
THEOREM TypesHold == Spec => []TypeOK
<1>1. Init => TypeOK
  <2> SUFFICES ASSUME Init PROVE TypeOK
    OBVIOUS
  <2>1. Idle \in Task
    BY NativeBuildAssumption, StepCount DEF Idle, Task
  <2> QED  BY <2>1, NativeBuildAssumption DEF Init, TypeOK, IndexState
<1>2. TypeOK /\ [Next]_vars => TypeOK'
  BY TypeStep
<1> QED  BY <1>1, <1>2, PTL DEF Spec
---------------------------------------------------------------------------
(* Who does a step                                                           *)

Acts(p) == Start(p) \/ Work(p) \/ Link(p) \/ ProgramEnds(p) \/ Fail(p) \/ Crash(p)

\* The steps of no invocation: the developer's, and those of the commands that
\* dead ones have left.
Aloof == Edit \/ \E p \in Proc : Outlive(p)

\* An invocation leaves to the others what is theirs.
Elsewhere(p) ==
  \A q \in Proc \ {p} :
    /\ me'[q] = me[q] /\ links'[q] = links[q]
    /\ temp'[q] = temp[q] /\ prev'[q] = prev[q] /\ image'[q] = image[q]

LEMMA LeavesOthers ==
  ASSUME TypeOK, NEW p \in Proc, Acts(p)
  PROVE  Elsewhere(p)
<1>1. NamesTyped /\ WorldTyped /\ me \in [Proc -> Task]
  BY Parts
<1> DEFINE Mind == \A q \in Proc \ {p} : me'[q] = me[q]
           Hands == \A q \in Proc \ {p} :
                      temp'[q] = temp[q] /\ prev'[q] = prev[q] /\ image'[q] = image[q]
           Linkers == \A q \in Proc \ {p} : links'[q] = links[q]
<1>2. Mind
  <2>1. CASE Enter(p) \/ Install(p) \/ PlaceGhcup(p) \/ GhcupPlaced(p) \/ RefreshIndex(p)
             \/ Replace(p) \/ Aside(p) \/ Swap(p) \/ Identity(p) \/ Exec(p)
             \/ ProgramEnds(p) \/ Fail(p) \/ Crash(p)
    <3>1. (\E s \in Places : Go(p, s)) \/ Stop(p) \/ NextStep(p)
      BY <2>1 DEF Enter, Install, PlaceGhcup, GhcupPlaced, RefreshIndex, Replace, Aside, Swap,
                  SwapFails, Identity, Exec, ProgramEnds, Fail, Crash, Places
    <3> QED  BY <1>1, <3>1 DEF Go, Stop, NextStep
  <2>2. CASE Start(p) \/ Probe(p)
    BY <1>1, <2>2 DEF Start, Probe, Go, Stop, NextStep
  <2>3. CASE Build(p) \/ Compare(p) \/ Copy(p)
    BY <1>1, <2>3 DEF Build, Compare, Copy, Go
  <2>4. CASE Link(p)
    BY <2>4 DEF Link
  <2> QED  BY <2>1, <2>2, <2>3, <2>4 DEF Acts, Work, Tooling, Building
<1>3. Hands
  <2>1. CASE Start(p) \/ Tooling(p)
    BY <1>1, <2>1
       DEF Start, Tooling, Enter, Probe, Install, PlaceGhcup, GhcupPlaced, files, Reset, NamesTyped
  <2>2. CASE RefreshIndex(p) \/ Build(p) \/ Copy(p) \/ Identity(p) \/ Exec(p) \/ Link(p)
    BY <1>1, <2>2 DEF RefreshIndex, Build, Copy, Identity, Exec, Link, files, NamesTyped
  <2>3. CASE Compare(p)
    BY <1>1, <2>3 DEF Compare, NamesTyped
  <2>4. CASE Replace(p) \/ Aside(p)
    BY <1>1, <2>4 DEF Replace, Aside, Publish, Reset, NamesTyped
  <2>5. CASE Swap(p)
    BY <1>1, <2>5 DEF Swap, SwapFails, Publish, Reset, NamesTyped
  <2>6. CASE ProgramEnds(p) \/ Fail(p) \/ Crash(p)
    BY <1>1, <2>6 DEF ProgramEnds, Fail, Crash, SwapFails, Reset, NamesTyped
  <2> QED  BY <2>1, <2>2, <2>3, <2>4, <2>5, <2>6 DEF Acts, Work, Building
<1>4. Linkers
  <2>1. CASE Start(p) \/ Tooling(p)
    BY <2>1 DEF Start, Tooling, Enter, Probe, Install, PlaceGhcup, GhcupPlaced, code
  <2>2. CASE RefreshIndex(p) \/ Compare(p) \/ Copy(p) \/ Replace(p) \/ Aside(p) \/ Swap(p)
             \/ Identity(p) \/ Exec(p) \/ ProgramEnds(p) \/ Crash(p)
    BY <2>2 DEF RefreshIndex, Compare, Copy, Replace, Aside, Swap, Identity, Exec, ProgramEnds,
                Crash, code
  <2>3. CASE Build(p) \/ Link(p) \/ Fail(p)
    BY <1>1, <2>3 DEF Build, Link, Fail, Reset, WorldTyped
  <2> QED  BY <2>1, <2>2, <2>3 DEF Acts, Work, Building
<1> QED  BY <1>2, <1>3, <1>4 DEF Elsewhere

\* The fields of an invocation that moves.
LEMMA Fields ==
  ASSUME TypeOK, NEW p \in Proc
  PROVE  /\ \A s \in Places : Go(p, s) =>
              /\ me'[p].at = s /\ me'[p].step = me[p].step /\ me'[p].built = me[p].built
              /\ me'[p].seen = me[p].seen
         /\ Stop(p) => me'[p].at = "off"
         /\ NextStep(p) => me'[p].at \in {"probe", "index"}
BY DEF TypeOK, Task, Go, Stop, NextStep, Idle, Places

LEMMA Steppers ==
  ASSUME [Next]_vars
  PROVE  UNCHANGED vars \/ (Watch /\ (Aloof \/ \E p \in Proc : Acts(p)))
BY DEF Next, Acts, Aloof

---------------------------------------------------------------------------
(* The toolchain                                                             *)

\* Nothing uninstalls a tool; only ghcup is ever written over.
LEMMA ToolsStay ==
  ASSUME TypeOK, [Next]_vars, NEW t \in Tool \ {"ghcup"}, tool[t] = "ok"
  PROVE  tool'[t] = "ok"
<1>1. CASE UNCHANGED tool
  BY <1>1
<1>2. ASSUME NEW p \in Proc, Install(p) \/ PlaceGhcup(p) \/ GhcupPlaced(p) PROVE tool'[t] = "ok"
  BY <1>2 DEF TypeOK, Install, PlaceGhcup, GhcupPlaced
<1>3. ASSUME NEW p \in Proc, Acts(p) PROVE tool'[t] = "ok"
  <2>1. CASE Start(p) \/ Enter(p) \/ Probe(p) \/ Link(p) \/ ProgramEnds(p) \/ Fail(p) \/ Crash(p)
    BY <1>1, <2>1 DEF Start, Enter, Probe, Link, ProgramEnds, Fail, Crash, tools
  <2>2. CASE Building(p)
    BY <1>1, <2>2 DEF Building, RefreshIndex, Build, Compare, Copy, Replace, Aside, Swap, Identity,
                      Exec, tools
  <2> QED  BY <1>2, <1>3, <2>1, <2>2 DEF Acts, Work, Tooling
<1>4. CASE Aloof
  <2>1. CASE Edit
    BY <1>1, <2>1 DEF Edit, tools
  <2>2. ASSUME NEW p \in Proc, Outlive(p) PROVE tool'[t] = "ok"
    BY <2>2 DEF TypeOK, Outlive
  <2> QED  BY <1>4, <2>1, <2>2 DEF Aloof
<1>5. CASE UNCHANGED vars
  BY <1>1, <1>5 DEF vars, tools
<1> QED  BY <1>3, <1>4, <1>5, Steppers

\* They are after a step, which leaves the steps as they are.
StillInstalled(n) ==
  \A i \in DOMAIN Steps : i < n /\ Steps[i] # "ghcup" => tool'[Steps[i]] = "ok"

TooledNext(p) ==
  /\ At(p, "enter")' => me'[p].step = 1
  /\ At(p, "place")' => Steps[me'[p].step] = "ghcup"
  /\ me'[p].at \in {"probe", "install", "place"} => StillInstalled(me'[p].step)
  /\ me'[p].at \in {"index", "build"} \/ Publishing(p)' => StillInstalled(Len(Steps) + 1)

LEMMA TooledAfter ==
  ASSUME UNCHANGED hosts, NEW p \in Proc, TooledNext(p)
  PROVE  Tooled(p)'
BY SameHost DEF TooledNext, Tooled, StillInstalled, Installed, At

LEMMA StayInstalled ==
  ASSUME TypeOK, [Next]_vars, NEW n \in Nat, Installed(n)
  PROVE  StillInstalled(n)
<1> QED  BY ToolsStay, StepCount DEF Installed, StillInstalled

\* A step that is done adds its tool.
LEMMA OneMore ==
  ASSUME TypeOK, [Next]_vars, NEW p \in Proc, NextStep(p), Installed(me[p].step),
         Wanted(p) = "ghcup" \/ tool'[Wanted(p)] = "ok"
  PROVE  /\ me'[p].at = "probe" => StillInstalled(me[p].step + 1) /\ me'[p].step = me[p].step + 1
         /\ me'[p].at = "index" => StillInstalled(Len(Steps) + 1)
         /\ me'[p].at \in {"probe", "index"}
<1>1. Steps' = Steps /\ me[p] \in Task /\ me[p].step \in 1 .. Len(Steps)
  BY TypeStep, SameHost DEF TypeOK, Task
<1>2. StillInstalled(me[p].step)
  BY <1>1, StayInstalled
<1>3. StillInstalled(me[p].step + 1)
  BY <1>1, <1>2, StepCount DEF StillInstalled, Wanted
<1>4. me \in [Proc -> Task]
  BY DEF TypeOK
<1>5. CASE me[p].step = Len(Steps)
  BY <1>3, <1>4, <1>5 DEF NextStep, Task
<1>6. CASE me[p].step # Len(Steps)
  BY <1>3, <1>4, <1>6 DEF NextStep, Task
<1> QED  BY <1>5, <1>6

LEMMA ToolingStep == TypeOK /\ ToolingOK /\ [Next]_vars => ToolingOK'
<1> SUFFICES ASSUME TypeOK, ToolingOK, [Next]_vars, NEW q \in Proc PROVE TooledNext(q)
  BY TypeStep, TooledAfter DEF ToolingOK
<1>1. Steps' = Steps /\ me[q] \in Task /\ me[q].step \in Nat /\ Len(Steps) + 1 \in Nat /\ Tooled(q)
  BY TypeStep, SameHost, StepCount DEF TypeOK, Task, ToolingOK
<1>2. /\ Installed(me[q].step) => StillInstalled(me[q].step)
      /\ Installed(Len(Steps) + 1) => StillInstalled(Len(Steps) + 1)
  BY <1>1, StayInstalled
<1>3. ASSUME me'[q] = me[q], links'[q] = links[q] PROVE TooledNext(q)
  BY <1>1, <1>2, <1>3 DEF Tooled, TooledNext, Publishing, At
<1>4. ASSUME me'[q].at \in {"off", "running"}, links'[q] = links[q] \/ links'[q] = 0 PROVE TooledNext(q)
  BY <1>1, <1>2, <1>4 DEF Tooled, TooledNext, Publishing, At
<1>5. ASSUME Installed(Len(Steps) + 1),
             me'[q].at \notin {"enter", "place", "probe", "install"} PROVE TooledNext(q)
  BY <1>1, <1>2, <1>5 DEF Tooled, TooledNext, At
<1>6. ASSUME Acts(q) PROVE TooledNext(q)
  <2>1. CASE Start(q)
    <3>1. links'[q] = 0 /\ me'[q].at = "enter" /\ me'[q].step = 1
      BY <2>1 DEF Start, Idle, TypeOK, code
    <3> QED  BY <3>1 DEF Tooled, TooledNext, Publishing, At
  <2>2. CASE Enter(q)
    <3>1. me'[q].at = "off" \/ (me'[q].at = "probe" /\ me'[q].step = me[q].step)
      BY <1>1, <2>2, Fields DEF Enter, Places
    <3>2. At(q, "enter") /\ links'[q] = links[q]
      BY <2>2 DEF Enter, code
    <3>3. ASSUME me'[q].at = "probe", me'[q].step = 1 PROVE StillInstalled(1)
      BY <1>1, StepCount DEF StillInstalled
    <3> QED  BY <1>1, <1>2, <1>4, <3>1, <3>2, <3>3 DEF Tooled, TooledNext, Publishing, At
  <2>3. CASE Probe(q)
    <3>1. PICK o \in Outcomes(Wanted(q)) :
            CASE o = "present" -> NextStep(q)
              [] o = "busy" /\ me[q].tries + 1 < Attempts ->
                   me' = [me EXCEPT ![q].tries = me[q].tries + 1]
              [] o \in {"absent", "busy"} /\ ~me[q].offline -> Go(q, "install")
              [] OTHER -> Stop(q)
      BY <2>3 DEF Probe
    <3>2. At(q, "probe") /\ links' = links /\ tool' = tool
      BY <2>3 DEF Probe, code, tools
    <3>3. CASE o = "present"
      <4>1. tool[Wanted(q)] = "ok"
        BY <3>1, <3>3 DEF Outcomes
      <4>2. NextStep(q)
        BY <3>1, <3>3
      <4>3. Installed(me[q].step)
        BY <1>1, <3>2 DEF Tooled, TooledNext, At
      <4>4. /\ me'[q].at = "probe" => StillInstalled(me[q].step + 1) /\ me'[q].step = me[q].step + 1
            /\ me'[q].at = "index" => StillInstalled(Len(Steps) + 1)
            /\ me'[q].at \in {"probe", "index"}
        BY <3>2, <4>1, <4>2, <4>3, OneMore
      <4> QED  BY <1>1, <1>2, <3>2, <4>4 DEF Tooled, TooledNext, Publishing, At
    <3>4. CASE o # "present"
      <4>1. \/ me' = [me EXCEPT ![q].tries = me[q].tries + 1]
            \/ Go(q, "install") \/ Stop(q)
        BY <3>1, <3>4
      <4>2. \/ me'[q].at \in {"probe", "install"} /\ me'[q].step = me[q].step
            \/ me'[q].at = "off"
        BY <1>1, <3>2, <4>1 DEF Go, Stop, Idle, TypeOK, At, Task
      <4> QED  BY <1>1, <1>2, <1>4, <3>2, <4>2 DEF Tooled, TooledNext, Publishing, At
    <3> QED  BY <3>3, <3>4
  <2>4. CASE Install(q)
    <3>1. At(q, "install") /\ links' = links
      BY <2>4 DEF Install, Commanded, code
    <3>2. CASE Stop(q)
      BY <1>4, <3>1, <3>2, Fields
    <3>3. CASE tool' = [tool EXCEPT ![Wanted(q)] = "ok"] /\ NextStep(q)
      <4>1. Wanted(q) \in Tool
        BY <1>1, StepCount DEF Wanted, Task
      <4>2. tool'[Wanted(q)] = "ok"
        BY <3>3, <4>1 DEF TypeOK
      <4>3. /\ me'[q].at = "probe" => StillInstalled(me[q].step + 1) /\ me'[q].step = me[q].step + 1
            /\ me'[q].at = "index" => StillInstalled(Len(Steps) + 1)
            /\ me'[q].at \in {"probe", "index"}
        BY <1>1, <3>1, <3>3, <4>2, OneMore DEF Tooled, TooledNext, At
      <4> QED  BY <1>1, <1>2, <3>1, <4>3 DEF Tooled, TooledNext, Publishing, At
    <3> QED  BY <2>4, <3>2, <3>3 DEF Install
  <2>5. CASE PlaceGhcup(q)
    <3>1. At(q, "install") /\ links' = links /\ Wanted(q) = "ghcup"
      BY <2>5 DEF PlaceGhcup, code
    <3>2. me'[q].at = "off" \/ (me'[q].at = "place" /\ me'[q].step = me[q].step)
      BY <1>1, <2>5, Fields DEF PlaceGhcup, Places
    <3> QED  BY <1>1, <1>2, <1>4, <3>1, <3>2 DEF Tooled, TooledNext, Publishing, At, Wanted
  <2>6. CASE GhcupPlaced(q)
    <3>1. At(q, "place") /\ links' = links /\ Wanted(q) = "ghcup" /\ NextStep(q)
      BY <1>1, <2>6 DEF GhcupPlaced, code, Tooled, Wanted, At
    <3>2. /\ me'[q].at = "probe" => StillInstalled(me[q].step + 1) /\ me'[q].step = me[q].step + 1
          /\ me'[q].at = "index" => StillInstalled(Len(Steps) + 1)
          /\ me'[q].at \in {"probe", "index"}
      BY <1>1, <3>1, OneMore DEF Tooled, TooledNext, At
    <3> QED  BY <1>1, <1>2, <3>1, <3>2 DEF Tooled, TooledNext, Publishing, At
  <2>7. CASE Building(q)
    <3>1. Installed(Len(Steps) + 1)
      BY <1>1, <2>7 DEF Building, RefreshIndex, Build, Compare, Copy, Replace, Aside, Swap, Identity,
                        Exec, Tooled, Publishing, At
    <3>2. me'[q].at \notin {"enter", "place", "probe", "install"}
      <4>1. CASE Build(q) \/ Compare(q) \/ Copy(q)
        <5>1. me \in [Proc -> Task]
          BY DEF TypeOK
        <5> QED  BY <4>1, <5>1 DEF Build, Compare, Copy, Go, Task
      <4>2. CASE RefreshIndex(q) \/ Replace(q) \/ Aside(q) \/ Swap(q) \/ Identity(q) \/ Exec(q)
        <5>1. (\E s \in Places \ {"enter", "place", "probe", "install"} : Go(q, s)) \/ Stop(q)
          BY <4>2 DEF RefreshIndex, Replace, Aside, Swap, SwapFails, Identity, Exec, Places
        <5> QED  BY <5>1, Fields
      <4> QED  BY <2>7, <4>1, <4>2 DEF Building
    <3> QED  BY <1>5, <3>1, <3>2
  <2>8. CASE Link(q)
    <3>1. Installed(Len(Steps) + 1) /\ me' = me
      BY <1>1, <2>8 DEF Link, Tooled, Publishing
    <3> QED  BY <1>1, <1>2, <3>1 DEF Tooled, TooledNext, At
  <2>9. CASE ProgramEnds(q) \/ Fail(q) \/ Crash(q)
    <3>1. Stop(q) /\ (links'[q] = links[q] \/ links'[q] = 0)
      BY <2>9 DEF ProgramEnds, Fail, Crash, SwapFails, Reset, code, TypeOK
    <3> QED  BY <1>4, <3>1, Fields
  <2> QED  BY <1>6, <2>1, <2>2, <2>3, <2>4, <2>5, <2>6, <2>7, <2>8, <2>9 DEF Acts, Work, Tooling
<1>7. ASSUME NEW p \in Proc \ {q}, Acts(p) PROVE TooledNext(q)
  BY <1>3, <1>7, LeavesOthers DEF Elsewhere
<1>8. CASE Aloof \/ UNCHANGED vars
  BY <1>3, <1>8 DEF Aloof, Edit, Outlive, vars, code
<1> QED  BY <1>6, <1>7, <1>8, Steppers

\* cabal runs only when ghc, cabal and the libraries they need are installed,
\* whoever installed them and whatever became of ghcup since.
THEOREM ToolchainFirst == Spec => []BuildsWithItsToolchain
<1>1. Init => ToolingOK
  BY DEF Init, ToolingOK, Tooled, At, Idle, Publishing
<1>2. ToolingOK => BuildsWithItsToolchain
  BY StepCount DEF ToolingOK, Tooled, Installed, BuildsWithItsToolchain
<1> QED  BY <1>1, <1>2, ToolingStep, TypesHold, PTL DEF Spec
---------------------------------------------------------------------------
(* The names                                                                 *)

\* What an invocation does to the names and to what they name.
Renames(p) ==
  \/ /\ exe' = exe /\ temp'[p] \in {temp[p], 0} /\ prev'[p] \in {prev[p], 0}
     /\ image'[p] \in {image[p], 0, exe}
  \/ temp'[p] \in Inode \ Using /\ exe' = exe /\ prev' = prev /\ image' = image
  \/ exe' = temp[p] /\ temp'[p] = 0 /\ prev'[p] \in {prev[p], 0} /\ image' = image
  \/ exe' = 0 /\ temp' = temp /\ prev'[p] = exe /\ image' = image
  \/ exe' = prev[p] /\ temp'[p] = 0 /\ prev'[p] = 0 /\ image' = image
Rewrites(p) ==
  \A f \in Inode : f \in Using /\ f \in Using' =>
    bytes'[f] = bytes[f] \/ (At(p, "copy") /\ f = temp[p])

LEMMA NameEffects ==
  ASSUME TypeOK, NEW p \in Proc, Acts(p)
  PROVE  Renames(p) /\ Rewrites(p)
<1>1. NamesTyped /\ bytes \in [Inode -> Version]
  BY Parts
<1>2. ASSUME UNCHANGED files PROVE Renames(p) /\ Rewrites(p)
  BY <1>2 DEF files, Renames, Rewrites
<1>3. ASSUME Forget PROVE Rewrites(p)
  BY <1>3, Forgets DEF Rewrites
<1>4. CASE Tooling(p) \/ RefreshIndex(p) \/ Build(p) \/ Link(p) \/ Identity(p)
  BY <1>2, <1>4
     DEF Tooling, Enter, Probe, Install, PlaceGhcup, GhcupPlaced, RefreshIndex, Build, Link, Identity
<1>5. CASE Start(p)
  <2>1. Renames(p)
    BY <1>1, <1>5 DEF Start, Reset, NamesTyped, Renames
  <2> QED  BY <1>3, <1>5, <2>1 DEF Start
<1>6. CASE Compare(p)
  <2> DEFINE new == CHOOSE f \in Inode : f \notin Using
  <2>1. CASE Identical
    BY <1>2, <1>6, <2>1 DEF Compare, files
  <2>2. CASE ~Identical
    <3>1. new \in Inode \ Using
      BY Fresh
    <3>2. /\ temp' = [temp EXCEPT ![p] = new] /\ bytes' = [bytes EXCEPT ![new] = Torn]
          /\ exe' = exe /\ prev' = prev /\ image' = image
      BY <1>6, <2>2 DEF Compare
    <3> HIDE DEF new
    <3> QED  BY <1>1, <3>1, <3>2 DEF NamesTyped, Renames, Rewrites
  <2> QED  BY <2>1, <2>2
<1>7. CASE Copy(p)
  BY <1>1, <1>7 DEF Copy, Renames, Rewrites
<1>8. CASE Replace(p)
  <2>1. Renames(p)
    BY <1>1, <1>8 DEF Replace, Publish, Reset, NamesTyped, Renames
  <2> QED  BY <1>3, <1>8, <2>1 DEF Replace
<1>9. CASE Aside(p)
  <2>1. Renames(p)
    BY <1>1, <1>9 DEF Aside, Reset, NamesTyped, Renames
  <2> QED  BY <1>3, <1>9, <2>1 DEF Aside
<1>10. CASE Swap(p)
  <2>1. CASE exe # 0 /\ Held(exe)
    BY <1>1, <1>3, <1>10, <2>1 DEF Swap, SwapFails, Reset, NamesTyped, Renames
  <2>2. CASE ~(exe # 0 /\ Held(exe))
    BY <1>1, <1>3, <1>10, <2>2 DEF Swap, Publish, Reset, NamesTyped, Renames
  <2> QED  BY <2>1, <2>2
<1>11. CASE Exec(p)
  BY <1>1, <1>11 DEF Exec, NamesTyped, Renames, Rewrites
<1>12. CASE ProgramEnds(p)
  <2>1. Renames(p)
    BY <1>1, <1>12 DEF ProgramEnds, Reset, NamesTyped, Renames
  <2> QED  BY <1>3, <1>12, <2>1 DEF ProgramEnds
<1>13. CASE Fail(p)
  <2>1. Renames(p)
    <3>1. CASE At(p, "swap")
      BY <1>1, <1>13, <3>1 DEF Fail, SwapFails, Reset, NamesTyped, Renames
    <3>2. CASE ~At(p, "swap")
      BY <1>1, <1>13, <3>2 DEF Fail, Reset, NamesTyped, Renames
    <3> QED  BY <3>1, <3>2
  <2> QED  BY <1>3, <1>13, <2>1 DEF Fail
<1>14. CASE Crash(p)
  <2>1. Renames(p)
    BY <1>1, <1>14 DEF Crash, Reset, NamesTyped, Renames
  <2> QED  BY <1>3, <1>14, <2>1 DEF Crash
<1> QED
  BY <1>4, <1>5, <1>6, <1>7, <1>8, <1>9, <1>10, <1>11, <1>12, <1>13, <1>14
     DEF Acts, Work, Building

LEMMA StaysApart ==
  ASSUME TypeOK, NamesOK, NEW p \in Proc, Acts(p), NEW q \in Proc
  PROVE  Apart(q)'
<1>1. NamesTyped /\ Elsewhere(p) /\ Renames(p) /\ Apart(p) /\ Apart(q)
  BY Parts, LeavesOthers, NameEffects DEF NamesOK
<1>2. \A r \in Proc : {exe, temp[r], prev[r], image[r]} \subseteq Using
  BY DEF Using
<1>3. ASSUME temp'[p] \in Inode \ Using, exe' = exe, prev' = prev, image' = image PROVE Apart(q)'
  BY <1>1, <1>2, <1>3 DEF Apart, Elsewhere
<1>4. ASSUME temp'[p] \in {temp[p], 0},
             \/ /\ exe' = exe /\ prev'[p] \in {prev[p], 0} /\ image'[p] \in {image[p], 0, exe}
             \/ exe' = 0 /\ prev'[p] = exe /\ image'[p] = image[p]
      PROVE Apart(q)'
  BY <1>1, <1>4 DEF Apart, Elsewhere
<1>5. ASSUME temp'[p] = 0, exe' = temp[p] \/ exe' = prev[p], prev'[p] \in {prev[p], 0}, image' = image
      PROVE Apart(q)'
  BY <1>1, <1>5 DEF Apart, Elsewhere
<1> QED  BY <1>1, <1>3, <1>4, <1>5 DEF Renames

LEMMA KeepsSlots ==
  ASSUME TypeOK, NamesOK, NEW p \in Proc, Acts(p), UNCHANGED hosts
  PROVE  Slots(p)'
<1>1. NamesTyped /\ me \in [Proc -> Task] /\ me[p] \in Task /\ Slots(p) /\ Windows' = Windows
  BY Parts, SameHost DEF NamesOK
<1>2. ASSUME UNCHANGED <<temp, prev, image>>,
             At(p, "running")' <=> At(p, "running"),
             me'[p].at \notin {"copy", "replace", "aside", "swap"},
             me[p].at \notin {"copy", "replace", "aside", "swap"},
             prev[p] # 0 => me'[p].at = "off"
      PROVE Slots(p)'
  BY <1>1, <1>2 DEF Slots, At
<1>3. CASE Start(p)
  <2>1. temp' = temp /\ image' = image /\ prev'[p] = 0 /\ me'[p].at = "enter" /\ me[p].at = "off"
    BY <1>1, <1>3 DEF Start, Reset, NamesTyped, Idle, At
  <2> QED  BY <1>1, <2>1 DEF Slots, At
<1>4. CASE Tooling(p)
  <2>1. UNCHANGED <<temp, prev, image>> /\ me[p].at \in {"enter", "probe", "install", "place"}
    BY <1>4 DEF Tooling, Enter, Probe, Install, Commanded, PlaceGhcup, GhcupPlaced, files, At
  <2>2. me'[p].at \in {"off", "probe", "install", "place", "index"}
    <3>1. CASE Enter(p) \/ Install(p) \/ PlaceGhcup(p) \/ GhcupPlaced(p)
      <4>1. (\E s \in {"probe", "place"} : Go(p, s)) \/ Stop(p) \/ NextStep(p)
        BY <3>1 DEF Enter, Install, PlaceGhcup, GhcupPlaced
      <4> QED  BY <4>1, Fields DEF Places
    <3>2. CASE Probe(p)
      <4>1. \/ NextStep(p) \/ Go(p, "install") \/ Stop(p)
            \/ me[p].at = "probe" /\ me' = [me EXCEPT ![p].tries = me[p].tries + 1]
        BY <3>2 DEF Probe, At
      <4> QED  BY <1>1, <4>1, Fields DEF Places, Task
    <3> QED  BY <1>4, <3>1, <3>2 DEF Tooling
  <2> QED  BY <1>1, <1>2, <2>1, <2>2 DEF Slots, At
<1>5. CASE RefreshIndex(p) \/ Build(p) \/ Identity(p)
  <2>1. UNCHANGED <<temp, prev, image>> /\ me[p].at \in {"index", "build", "identity"}
    BY <1>5 DEF RefreshIndex, Build, Identity, files, At
  <2>2. me'[p].at \in {"off", "build", "linking", "exec"}
    <3>1. CASE Build(p)
      BY <1>1, <3>1 DEF Build, Task
    <3>2. CASE RefreshIndex(p) \/ Identity(p)
      <4>1. (\E s \in {"build", "exec"} : Go(p, s)) \/ Stop(p)
        BY <3>2 DEF RefreshIndex, Identity
      <4> QED  BY <4>1, Fields DEF Places
    <3> QED  BY <1>5, <3>1, <3>2
  <2> QED  BY <1>1, <1>2, <2>1, <2>2 DEF Slots, At
<1>6. CASE Compare(p)
  <2> DEFINE new == CHOOSE f \in Inode : f \notin Using
  <2>1. CASE Identical
    <3>1. UNCHANGED <<temp, prev, image>> /\ me[p].at = "linking" /\ me'[p].at = "identity"
      BY <1>6, <2>1, Fields DEF Compare, At, Places
    <3> QED  BY <1>1, <1>2, <3>1 DEF Slots, At
  <2>2. CASE ~Identical
    <3>1. new \in Inode /\ new # 0
      BY Fresh, NativeBuildAssumption
    <3>2. /\ me' = [me EXCEPT ![p] = [me[p] EXCEPT !.at = "copy", !.seen = dist]]
          /\ temp' = [temp EXCEPT ![p] = new] /\ prev' = prev /\ image' = image
          /\ me[p].at = "linking"
      BY <1>6, <2>2 DEF Compare, At
    <3> HIDE DEF new
    <3>3. me'[p].at = "copy" /\ temp'[p] # 0
      BY <1>1, <3>1, <3>2 DEF Task, NamesTyped
    <3> QED  BY <1>1, <3>2, <3>3 DEF Slots, At
  <2> QED  BY <2>1, <2>2
<1>7. CASE Copy(p)
  <2>1. UNCHANGED <<temp, prev, image>> /\ me[p].at = "copy" /\ me'[p].at = "replace"
    BY <1>1, <1>7 DEF Copy, At, Task
  <2> QED  BY <1>1, <2>1 DEF Slots, At
<1>8. CASE Replace(p)
  <2>1. prev' = prev /\ image' = image /\ me[p].at = "replace"
    BY <1>8 DEF Replace, At
  <2>2. \/ Windows /\ temp' = temp /\ me'[p].at = "aside"
        \/ temp'[p] = 0 /\ me'[p].at = "identity"
    BY <1>1, <1>8, Fields DEF Replace, Publish, Reset, NamesTyped, Places
  <2> QED  BY <1>1, <2>1, <2>2 DEF Slots, At
<1>9. CASE Aside(p)
  <2>1. image' = image /\ me[p].at = "aside"
    BY <1>9 DEF Aside, At
  <2>2. \/ prev' = prev /\ temp'[p] = 0 /\ me'[p].at = "off"
        \/ exe # 0 /\ prev'[p] = exe /\ temp' = temp /\ me'[p].at = "swap"
    BY <1>1, <1>9, Fields DEF Aside, Reset, NamesTyped, Places
  <2> QED  BY <1>1, <2>1, <2>2 DEF Slots, At
<1>10. CASE Swap(p)
  <2>1. image' = image /\ me[p].at = "swap"
    BY <1>10 DEF Swap, At
  <2>2. me'[p].at \in {"off", "identity"}
    BY <1>10, Fields DEF Swap, SwapFails, Places
  <2>3. temp'[p] = 0 /\ prev'[p] = 0
    BY <1>1, <1>10 DEF Swap, SwapFails, Publish, Reset, NamesTyped
  <2> QED  BY <1>1, <2>1, <2>2, <2>3 DEF Slots, At
<1>11. CASE Exec(p)
  <2>1. temp' = temp /\ prev' = prev /\ me[p].at = "exec"
    BY <1>11 DEF Exec, At
  <2>2. \/ image' = image /\ me'[p].at = "off"
        \/ exe # 0 /\ image'[p] = exe /\ me'[p].at = "running"
    BY <1>1, <1>11, Fields DEF Exec, Content, NamesTyped, Places
  <2> QED  BY <1>1, <2>1, <2>2 DEF Slots, At
<1>12. CASE Link(p)
  BY <1>1, <1>12 DEF Link, files, Slots, At
<1>13. CASE ProgramEnds(p)
  <2>1. temp' = temp /\ prev' = prev /\ image'[p] = 0 /\ me[p].at = "running" /\ me'[p].at = "off"
    BY <1>1, <1>13, Fields DEF ProgramEnds, Reset, NamesTyped, At
  <2> QED  BY <1>1, <2>1 DEF Slots, At
<1>14. CASE Fail(p) \/ Crash(p)
  <2>1. image' = image /\ me[p].at # "running" /\ me'[p].at = "off"
    BY <1>14, Fields DEF Fail, Crash, SwapFails, Busy, At
  <2>2. temp'[p] = 0
    BY <1>1, <1>14 DEF Fail, Crash, SwapFails, Reset, NamesTyped
  <2> QED  BY <1>1, <2>1, <2>2 DEF Slots, At
<1> QED
  BY <1>3, <1>4, <1>5, <1>6, <1>7, <1>8, <1>9, <1>10, <1>11, <1>12, <1>13, <1>14
     DEF Acts, Work, Building

LEMMA NamesStep == TypeOK /\ NamesOK /\ [Next]_vars => NamesOK'
<1> SUFFICES ASSUME TypeOK, NamesOK, [Next]_vars, NEW q \in Proc PROVE Slots(q)' /\ Apart(q)'
  BY DEF NamesOK
<1>1. UNCHANGED hosts /\ Windows' = Windows /\ Slots(q) /\ Apart(q)
  BY TypeStep, SameHost DEF NamesOK
<1>2. ASSUME NEW p \in Proc, Acts(p) PROVE Slots(q)' /\ Apart(q)'
  <2>1. CASE p = q
    BY <1>1, <1>2, <2>1, KeepsSlots, StaysApart
  <2>2. CASE p # q
    BY <1>1, <1>2, <2>2, LeavesOthers, StaysApart DEF Elsewhere, Slots, At
  <2> QED  BY <2>1, <2>2
<1>3. CASE Aloof \/ UNCHANGED vars
  BY <1>1, <1>3 DEF Aloof, Edit, Outlive, vars, files, Slots, Apart, At
<1> QED  BY <1>2, <1>3, Steppers

\* Every invocation's names are its own, always.
LEMMA InvariantHolds == Spec => [](TypeOK /\ NamesOK)
<1>1. Init => NamesOK
  BY DEF Init, NamesOK, Slots, Apart, At, Idle
<1> QED  BY <1>1, NamesStep, TypesHold, PTL DEF Spec

\* However many build and publish at a time, and wherever they fail or die, the
\* bytes of a program that runs never change.
THEOREM ImagesKept == Spec => ImagesAreKept
<1>1. ASSUME TypeOK, NamesOK, [Next]_vars, NEW q \in Proc, image[q] # 0, image'[q] = image[q]
      PROVE  bytes'[image[q]] = bytes[image[q]]
  <2>1. image[q] \in Inode /\ image[q] \in Using /\ image[q] \in Using'
    BY <1>1, Parts DEF NamesTyped, Using
  <2>2. ASSUME NEW p \in Proc, Acts(p) PROVE bytes'[image[q]] = bytes[image[q]]
    BY <1>1, <2>1, <2>2, NameEffects DEF Rewrites, NamesOK, Apart
  <2>3. CASE Aloof \/ UNCHANGED vars
    BY <2>3 DEF Aloof, Edit, Outlive, vars, files
  <2> QED  BY <1>1, <2>2, <2>3, Steppers
<1>2. TypeOK /\ NamesOK /\ [Next]_vars =>
        [\A p \in Proc : image[p] # 0 /\ image'[p] = image[p]
           => bytes'[image[p]] = bytes[image[p]]]_vars
  BY <1>1
<1> QED  BY <1>2, InvariantHolds, PTL DEF Spec, ImagesAreKept

\* A stable name is given up only between the two renames of Windows, and whoever
\* leaves that window, by success, failure or death, leaves a binary.
THEOREM StableName == Spec => StableNameStays
<1> DEFINE Given == exe # 0 /\ exe' = 0 => Windows
           Left == \A p \in Proc : At(p, "swap") /\ me'[p].at # "swap" => exe' # 0 \/ prev'[p] # 0
<1>1. ASSUME TypeOK, NamesOK, NEW q \in Proc, Acts(q) PROVE Given /\ Left
  <2>1. Slots(q) /\ Elsewhere(q) /\ NamesTyped
    BY <1>1, LeavesOthers, Parts DEF NamesOK
  <2>2. \A p \in Proc \ {q} : me'[p] = me[p]
    BY <2>1 DEF Elsewhere
  <2>3. ASSUME exe' = exe, ~At(q, "swap") PROVE Given /\ Left
    BY <2>2, <2>3 DEF At
  <2>4. CASE Start(q) \/ Tooling(q) \/ RefreshIndex(q) \/ Build(q) \/ Compare(q) \/ Copy(q)
             \/ Identity(q) \/ Exec(q) \/ ProgramEnds(q)
    <3>1. exe' = exe /\ ~At(q, "swap")
      BY <2>4 DEF Start, Tooling, Enter, Probe, Install, Commanded, PlaceGhcup, GhcupPlaced, RefreshIndex,
                  Build, Compare, Copy, Identity, Exec, ProgramEnds, files, At
    <3> QED  BY <2>3, <3>1
  <2>5. CASE Link(q)
    <3>1. exe' = exe /\ me' = me
      BY <2>5 DEF Link, files
    <3> QED  BY <3>1 DEF At
  <2>6. CASE Replace(q)
    <3>1. ~At(q, "swap") /\ (exe' = exe \/ exe' = temp[q]) /\ temp[q] # 0
      BY <2>1, <2>6 DEF Replace, Publish, Slots, At
    <3> QED  BY <2>2, <3>1 DEF At
  <2>7. CASE Aside(q)
    <3>1. ~At(q, "swap") /\ Windows
      BY <2>1, <2>7 DEF Aside, Slots, At
    <3> QED  BY <2>2, <3>1 DEF At
  <2>8. CASE Swap(q) \/ (Fail(q) /\ At(q, "swap"))
    <3>1. exe' = temp[q] \/ exe' = prev[q] \/ (exe' = exe /\ exe # 0)
      BY <2>8 DEF Swap, SwapFails, Publish, Fail
    <3>2. temp[q] # 0 /\ prev[q] # 0
      BY <2>1, <2>8 DEF Swap, Slots, At
    <3> QED  BY <3>1, <3>2
  <2>9. CASE Fail(q) /\ ~At(q, "swap")
    BY <2>3, <2>9 DEF Fail
  <2>10. CASE Crash(q)
    <3>1. exe' = exe /\ prev' = prev
      BY <2>10 DEF Crash
    <3> QED  BY <2>1, <2>2, <3>1 DEF Slots, At
  <2> QED  BY <1>1, <2>4, <2>5, <2>6, <2>7, <2>8, <2>9, <2>10 DEF Acts, Work, Building
<1>2. ASSUME Aloof \/ UNCHANGED vars PROVE Given /\ Left
  BY <1>2 DEF Aloof, Edit, Outlive, vars, files, At
<1>3. TypeOK /\ NamesOK /\ [Next]_vars => [Given /\ Left]_vars
  BY <1>1, <1>2, Steppers
<1> QED  BY <1>3, InvariantHolds, PTL DEF Spec, StableNameStays
---------------------------------------------------------------------------
(* What was built                                                            *)

\* The parts of Owns: cabal links what the invocation asked for; one that is
\* alone is; and it then has what it built.
Asked(p) ==
  /\ links[p] # 0 => me[p].at \in {"off", "linking"}
  /\ At(p, "linking") /\ links[p] # 0 => links[p] = me[p].built
Alone(p) ==
  Publishing(p) /\ ~At(p, "off") /\ ~shared[p] => \A q \in Proc \ {p} : ~Publishing(q)
Has(p) ==
  /\ At(p, "linking") /\ links[p] = 0 => dist = me[p].built
  /\ At(p, "copy") => dist = me[p].built /\ me[p].seen = me[p].built
  /\ me[p].at \in {"replace", "aside", "swap"} => bytes[temp[p]] = me[p].built
  /\ me[p].at \in {"identity", "exec"} => exe # 0 /\ bytes[exe] = me[p].built
  /\ At(p, "running") => bytes[image[p]] = me[p].built

LEMMA OwnsParts == \A p \in Proc : Owns(p) <=> Asked(p) /\ Alone(p) /\ (~shared[p] => Has(p))
BY DEF Owns, Asked, Alone, Has

LEMMA OwnsPartsNext ==
  \A p \in Proc : Owns(p)' <=> Asked(p)' /\ Alone(p)' /\ (~shared'[p] => Has(p)')
BY DEF Owns, Asked, Alone, Has

\* Whoever still is alone after a step has been so before it.
LEMMA StaysAlone ==
  ASSUME Watch, NEW p \in Proc
  PROVE  /\ Alone(p)'
         /\ me'[p].at # "off" /\ ~shared'[p] =>
              ~shared[p] /\ (Publishing(p)' => \A q \in Proc \ {p} : ~Publishing(q)')
<1>1. shared'[p] = (/\ me'[p].at # "off"
                    /\ shared[p] \/ (Publishing(p)' /\ \E q \in Proc \ {p} : Publishing(q)'))
  BY Zenon DEF Watch
<1>2. At(p, "off")' <=> me'[p].at = "off"
  BY DEF At
<1> HIDE DEF Publishing
<1>3. me'[p].at # "off" /\ ~shared'[p] =>
        ~shared[p] /\ (Publishing(p)' => \A q \in Proc \ {p} : ~Publishing(q)')
  BY <1>1
<1> QED  BY <1>2, <1>3 DEF Alone

\* One that neither builds nor publishes before a step nor after it leaves
\* cabal's executable and the stable name as they are.
LEMMA Quiet ==
  ASSUME TypeOK, NEW p \in Proc, Acts(p), ~Publishing(p), ~Publishing(p)'
  PROVE  dist' = dist /\ exe' = exe
<1>1. me \in [Proc -> Task] /\ me[p] \in Task
  BY Parts
<1>2. CASE Start(p) \/ Tooling(p) \/ RefreshIndex(p) \/ ProgramEnds(p)
  BY <1>2 DEF Start, Tooling, Enter, Probe, Install, PlaceGhcup, GhcupPlaced, RefreshIndex,
              ProgramEnds, code, files
<1>3. CASE Build(p)
  <2>1. me'[p].at = "linking"
    BY <1>1, <1>3 DEF Build, Task
  <2> QED  BY <2>1 DEF Publishing
<1>4. CASE Link(p)
  BY <1>4 DEF Link, Publishing
<1>5. CASE Compare(p) \/ Copy(p) \/ Replace(p) \/ Aside(p) \/ Swap(p) \/ Identity(p) \/ Exec(p)
  BY <1>5 DEF Compare, Copy, Replace, Aside, Swap, Identity, Exec, Publishing, At
<1>6. CASE Fail(p) \/ Crash(p)
  BY <1>6 DEF Fail, Crash, Publishing, At, code
<1> QED  BY <1>2, <1>3, <1>4, <1>5, <1>6 DEF Acts, Work, Building

\* What one invocation has, a step of another leaves it.
LEMMA OwnsStays ==
  ASSUME TypeOK, NamesOK, MineOK, Watch, NEW p \in Proc, Acts(p), NEW q \in Proc \ {p}
  PROVE  Owns(q)'
<1>1. NamesTyped /\ Elsewhere(p) /\ Rewrites(p) /\ Apart(p) /\ Slots(p) /\ Slots(q)
      /\ Asked(q) /\ Alone(q) /\ (~shared[q] => Has(q))
  BY Parts, LeavesOthers, NameEffects, OwnsParts DEF NamesOK, MineOK
<1>2. me'[q] = me[q] /\ links'[q] = links[q] /\ temp'[q] = temp[q] /\ image'[q] = image[q]
  BY <1>1 DEF Elsewhere
<1>3. /\ \A f \in {exe, temp[q], image[q]} : f \in Using
      /\ \A f \in {exe', temp'[q], image'[q]} : f \in Using'
  BY DEF Using
<1>4. Asked(q)'
  BY <1>1, <1>2 DEF Asked, At
<1>5. ASSUME ~shared'[q], me[q].at # "off" PROVE Has(q)'
  <2>1. ~shared[q] /\ Has(q) /\ (Publishing(q)' => ~Publishing(p)')
    BY <1>1, <1>2, <1>5, StaysAlone
  <2>2. CASE At(q, "running")
    <3>1. image[q] \in Inode /\ image[q] # temp[p]
      BY <1>1, <2>2 DEF Slots, Apart, NamesTyped
    <3>2. bytes'[image[q]] = bytes[image[q]]
      BY <1>1, <1>2, <1>3, <3>1 DEF Rewrites
    <3> QED  BY <1>2, <2>1, <2>2, <3>2 DEF Has, At
  <2>3. CASE me[q].at \in {"linking", "copy", "replace", "aside", "swap", "identity", "exec"}
    <3>1. Publishing(q) /\ Publishing(q)'
      BY <1>2, <2>3 DEF Publishing
    <3>2. ~Publishing(p) /\ ~Publishing(p)'
      BY <1>1, <1>5, <2>1, <3>1 DEF Alone, At
    <3>3. dist' = dist /\ exe' = exe /\ ~At(p, "copy")
      BY <1>1, <3>2, Quiet DEF Publishing, At
    <3>4. \A f \in {exe, temp[q]} : f \in Inode => bytes'[f] = bytes[f]
      BY <1>1, <1>2, <1>3, <3>3 DEF Rewrites
    <3>5. me[q].at \in {"replace", "aside", "swap"} => temp[q] \in Inode
      BY <1>1 DEF Slots, NamesTyped
    <3>6. exe # 0 => exe \in Inode
      BY <1>1 DEF NamesTyped
    <3> QED  BY <1>2, <2>1, <3>3, <3>4, <3>5, <3>6, <2>3 DEF Has, At
  <2>4. CASE me[q].at \in {"enter", "probe", "install", "place", "index", "build"}
    BY <1>2, <2>4 DEF Has, At
  <2> QED  BY <1>5, <2>2, <2>3, <2>4, Parts DEF Task, At
<1>6. ASSUME me[q].at = "off" PROVE Has(q)'
  BY <1>2, <1>6 DEF Has, At
<1> QED  BY <1>4, <1>5, <1>6, StaysAlone, OwnsPartsNext

\* What an invocation alone has by its own step.
LEMMA OwnsMade ==
  ASSUME TypeOK, NamesOK, MineOK, Watch, NEW p \in Proc, Acts(p)
  PROVE  Owns(p)'
<1>1. NamesTyped /\ WorldTyped /\ bytes \in [Inode -> Version] /\ me \in [Proc -> Task]
      /\ me[p] \in Task /\ Slots(p) /\ Asked(p) /\ Alone(p) /\ (~shared[p] => Has(p))
  BY Parts, OwnsParts DEF NamesOK, MineOK
<1> DEFINE Still == me'[p].at # "off" /\ ~shared[p]
<1>2. ASSUME Asked(p)', Still => Has(p)' PROVE Owns(p)'
  <2>1. ASSUME me'[p].at = "off" PROVE Has(p)'
    BY <2>1 DEF Has, At
  <2> QED  BY <1>2, <2>1, StaysAlone, OwnsPartsNext
<1>3. ASSUME links'[p] = links[p], links[p] = 0, Still => Has(p)' PROVE Owns(p)'
  BY <1>2, <1>3 DEF Asked
<1>4. ASSUME me'[p].at = "off" PROVE Owns(p)'
  BY <1>2, <1>4 DEF Asked, At
<1>5. me[p].at \notin {"off", "linking"} => links[p] = 0
  BY <1>1 DEF Asked
<1>6. temp[p] # 0 => temp[p] \in Inode /\ temp[p] \in Using
  BY <1>1 DEF NamesTyped, Using
<1>7. CASE Start(p)
  <2>1. links'[p] = links[p] /\ links[p] = 0 /\ me'[p].at = "enter"
    BY <1>1, <1>7 DEF Start, code, Idle
  <2> QED  BY <1>3, <2>1 DEF Has, At
<1>8. CASE Tooling(p)
  <2>1. links' = links /\ me[p].at \in {"enter", "probe", "install", "place"}
    BY <1>8 DEF Tooling, Enter, Probe, Install, Commanded, PlaceGhcup, GhcupPlaced, code, At
  <2>2. me'[p].at \in {"off", "probe", "install", "place", "index"}
    <3>1. CASE Enter(p) \/ Install(p) \/ PlaceGhcup(p) \/ GhcupPlaced(p)
      <4>1. (\E s \in {"probe", "place"} : Go(p, s)) \/ Stop(p) \/ NextStep(p)
        BY <3>1 DEF Enter, Install, PlaceGhcup, GhcupPlaced
      <4> QED  BY <4>1, Fields DEF Places
    <3>2. CASE Probe(p)
      <4>1. \/ NextStep(p) \/ Go(p, "install") \/ Stop(p)
            \/ me[p].at = "probe" /\ me' = [me EXCEPT ![p].tries = me[p].tries + 1]
        BY <3>2 DEF Probe, At
      <4> QED  BY <1>1, <4>1, Fields DEF Places, Task
    <3> QED  BY <1>8, <3>1, <3>2 DEF Tooling
  <2> QED  BY <1>3, <1>5, <2>1, <2>2 DEF Has, At
<1>9. CASE RefreshIndex(p)
  <2>1. links' = links /\ me[p].at = "index" /\ me'[p].at \in {"off", "build"}
    BY <1>9, Fields DEF RefreshIndex, code, At, Places
  <2> QED  BY <1>3, <1>5, <2>1 DEF Has, At
<1>10. CASE Build(p)
  <2>1. me'[p].at = "linking" /\ me'[p].built = source /\ me[p].at = "build" /\ links[p] = 0
    BY <1>1, <1>5, <1>10 DEF Build, Task, At
  <2>2. \/ dist' = source /\ links'[p] = 0
        \/ links'[p] = source /\ source # 0
    BY <1>1, <1>10, <2>1 DEF Build, WorldTyped
  <2> QED  BY <1>2, <2>1, <2>2 DEF Asked, Has, At
<1>11. CASE Link(p)
  <2>1. me' = me /\ links'[p] = 0 /\ me[p].at \in {"off", "linking"} /\ Publishing(p)
    BY <1>1, <1>11 DEF Link, Reset, WorldTyped, Asked, Publishing
  <2>2. ASSUME Still PROVE dist' = me[p].built
    <3>1. \A q \in Proc \ {p} : links[q] = 0
      BY <1>1, <2>1, <2>2 DEF Alone, Publishing, At
    <3>2. dist' = links[p]
      BY <1>11, <3>1 DEF Link
    <3> QED  BY <1>1, <1>11, <2>1, <2>2, <3>2 DEF Asked, At, Link
  <2> QED  BY <1>2, <2>1, <2>2 DEF Asked, Has, At
<1>12. CASE Compare(p)
  <2> DEFINE new == CHOOSE f \in Inode : f \notin Using
  <2>1. links' = links /\ links[p] = 0 /\ dist' = dist /\ me[p].at = "linking" /\ exe' = exe
    BY <1>12 DEF Compare, code, At
  <2>2. CASE Identical
    <3>1. bytes' = bytes /\ me'[p].at = "identity" /\ me'[p].built = me[p].built
      BY <1>12, <2>2, Fields DEF Compare, Places
    <3> QED  BY <1>1, <1>3, <2>1, <2>2, <3>1 DEF Has, At, Identical
  <2>3. CASE ~Identical
    <3>1. me' = [me EXCEPT ![p] = [me[p] EXCEPT !.at = "copy", !.seen = dist]]
      BY <1>12, <2>3 DEF Compare
    <3>2. me'[p].at = "copy" /\ me'[p].seen = dist /\ me'[p].built = me[p].built
      BY <1>1, <3>1 DEF Task
    <3> QED  BY <1>1, <1>3, <2>1, <3>2 DEF Has, At
  <2> QED  BY <2>2, <2>3
<1>13. CASE Copy(p)
  <2>1. me'[p].at = "replace" /\ me'[p].built = me[p].built /\ me[p].at = "copy"
        /\ links' = links /\ temp' = temp
    BY <1>1, <1>13 DEF Copy, Task, At, code
  <2>2. ASSUME ~shared[p] PROVE bytes'[temp[p]] = me[p].built
    <3>1. dist = me[p].seen /\ dist = me[p].built /\ temp[p] \in Inode
      BY <1>1, <1>6, <2>1, <2>2 DEF Has, Slots, At
    <3> QED  BY <1>1, <1>13, <3>1 DEF Copy
  <2> QED  BY <1>3, <1>5, <2>1, <2>2 DEF Has, At
<1>14. ASSUME Forget, exe' = temp[p], temp[p] # 0 PROVE exe' # 0 /\ bytes'[exe'] = bytes[temp[p]]
  BY <1>6, <1>14, Forgets DEF Using
<1>15. ASSUME Forget, temp' = temp, temp[p] # 0 PROVE bytes'[temp'[p]] = bytes[temp[p]]
  BY <1>6, <1>15, Forgets DEF Using
<1>16. CASE Replace(p)
  <2>1. links' = links /\ me[p].at = "replace" /\ temp[p] # 0 /\ Forget
        /\ me'[p].built = me[p].built
        /\ \/ temp' = temp /\ me'[p].at = "aside"
           \/ exe' = temp[p] /\ me'[p].at = "identity"
    BY <1>1, <1>16, Fields DEF Replace, Publish, code, At, Places, Slots
  <2> QED  BY <1>1, <1>3, <1>5, <1>14, <1>15, <2>1 DEF Has, At
<1>17. CASE Aside(p)
  <2>1. links' = links /\ me[p].at = "aside" /\ temp[p] # 0 /\ Forget
        /\ (me'[p].at = "off" \/ (temp' = temp /\ me'[p].at = "swap" /\ me'[p].built = me[p].built))
    BY <1>1, <1>17, Fields DEF Aside, code, At, Places, Slots
  <2> QED  BY <1>1, <1>3, <1>4, <1>5, <1>15, <2>1 DEF Has, At
<1>18. CASE Swap(p)
  <2>1. links' = links /\ me[p].at = "swap" /\ temp[p] # 0 /\ Forget
        /\ (me'[p].at = "off"
            \/ (exe' = temp[p] /\ me'[p].at = "identity" /\ me'[p].built = me[p].built))
    BY <1>1, <1>18, Fields DEF Swap, SwapFails, Publish, code, At, Places, Slots
  <2> QED  BY <1>1, <1>3, <1>4, <1>5, <1>14, <2>1 DEF Has, At
<1>19. CASE Identity(p)
  <2>1. UNCHANGED <<exe, bytes>> /\ links' = links /\ me[p].at = "identity"
        /\ (me'[p].at = "off" \/ (me'[p].at = "exec" /\ me'[p].built = me[p].built))
    BY <1>19, Fields DEF Identity, code, files, At, Places
  <2> QED  BY <1>1, <1>3, <1>4, <1>5, <2>1 DEF Has, At
<1>20. CASE Exec(p)
  <2>1. UNCHANGED <<exe, bytes>> /\ links' = links /\ me[p].at = "exec"
        /\ \/ me'[p].at = "off"
           \/ me'[p].at = "running" /\ me'[p].built = me[p].built /\ image'[p] = exe
    BY <1>1, <1>20, Fields DEF Exec, code, At, Places, NamesTyped
  <2> QED  BY <1>1, <1>3, <1>4, <1>5, <2>1 DEF Has, At
<1>21. CASE ProgramEnds(p) \/ Fail(p) \/ Crash(p)
  BY <1>4, <1>21, Fields DEF ProgramEnds, Fail, Crash, SwapFails
<1> QED
  BY <1>7, <1>8, <1>9, <1>10, <1>11, <1>12, <1>13, <1>16, <1>17, <1>18, <1>19, <1>20, <1>21
     DEF Acts, Work, Building

LEMMA MineStep == TypeOK /\ NamesOK /\ MineOK /\ [Next]_vars => MineOK'
<1> SUFFICES ASSUME TypeOK, NamesOK, MineOK, [Next]_vars, NEW q \in Proc PROVE Owns(q)'
  BY DEF MineOK
<1>1. ASSUME NEW p \in Proc, Acts(p), Watch PROVE Owns(q)'
  BY <1>1, OwnsMade, OwnsStays
<1>2. Asked(q) /\ Alone(q) /\ (~shared[q] => Has(q))
  BY OwnsParts DEF MineOK
<1>3. CASE Aloof /\ Watch
  <2>1. UNCHANGED <<dist, links, exe, temp, bytes, image, me>>
    BY <1>3 DEF Aloof, Edit, Outlive, code, files
  <2>2. Asked(q)' /\ (Has(q) => Has(q)')
    BY <1>2, <2>1 DEF Asked, Has, At
  <2>3. me'[q].at = "off" => Has(q)'
    BY DEF Has, At
  <2> QED  BY <1>2, <1>3, <2>2, <2>3, StaysAlone, OwnsPartsNext
<1>4. CASE UNCHANGED vars
  BY <1>2, <1>4, OwnsPartsNext DEF vars, code, files, Asked, Alone, Has, At, Publishing
<1> QED  BY <1>1, <1>3, <1>4, Steppers

\* The program run executes is the binary of the source its invocation built,
\* whole, whatever others left before and wherever they died, unless one of them
\* built or published in its time.
THEOREM RunsItsOwn == Spec => []RunsWhatItBuilt
<1>1. Init => MineOK
  BY DEF Init, MineOK, Owns, At, Idle, Publishing
<1>2. MineOK => RunsWhatItBuilt
  BY DEF MineOK, Owns, RunsWhatItBuilt
<1> QED  BY <1>1, <1>2, MineStep, InvariantHolds, PTL DEF Spec
---------------------------------------------------------------------------
(* Offline                                                                   *)

Online(p) == me[p].at \in {"install", "place"} => ~me[p].offline
OnlineOK == \A p \in Proc : Online(p)

LEMMA StaysOnline ==
  ASSUME TypeOK, NEW p \in Proc, Acts(p), Online(p)
  PROVE  Online(p)'
<1>1. me \in [Proc -> Task] /\ me[p] \in Task
  BY Parts
<1>2. ASSUME me'[p].at \notin {"install", "place"} PROVE Online(p)'
  BY <1>2 DEF Online
<1>3. CASE Enter(p) \/ Install(p) \/ GhcupPlaced(p) \/ RefreshIndex(p) \/ Replace(p) \/ Aside(p)
           \/ Swap(p) \/ Identity(p) \/ Exec(p) \/ ProgramEnds(p) \/ Fail(p) \/ Crash(p)
  <2>1. \/ \E s \in {"probe", "build", "aside", "identity", "swap", "exec", "running"} : Go(p, s)
        \/ Stop(p) \/ NextStep(p)
    BY <1>3 DEF Enter, Install, GhcupPlaced, RefreshIndex, Replace, Aside, Swap, SwapFails,
                Identity, Exec, ProgramEnds, Fail, Crash
  <2> QED  BY <1>2, <2>1, Fields DEF Places
<1>4. CASE Start(p)
  BY <1>1, <1>2, <1>4 DEF Start, Idle
<1>5. CASE Probe(p)
  <2>1. \/ NextStep(p) \/ Stop(p) \/ (~me[p].offline /\ Go(p, "install"))
        \/ me[p].at = "probe" /\ me' = [me EXCEPT ![p].tries = me[p].tries + 1]
    BY <1>5 DEF Probe, At
  <2>2. ASSUME ~me[p].offline, Go(p, "install") PROVE Online(p)'
    <3>1. ~me'[p].offline
      BY <1>1, <2>2 DEF Go, Task
    <3> QED  BY <3>1 DEF Online
  <2>3. ASSUME me[p].at = "probe", me' = [me EXCEPT ![p].tries = me[p].tries + 1] PROVE Online(p)'
    BY <1>1, <1>2, <2>3 DEF Task
  <2> QED  BY <1>2, <2>1, <2>2, <2>3, Fields
<1>6. CASE PlaceGhcup(p)
  <2>1. Stop(p) \/ (me[p].at = "install" /\ Go(p, "place"))
    BY <1>6 DEF PlaceGhcup, At
  <2>2. ASSUME me[p].at = "install", Go(p, "place") PROVE Online(p)'
    <3>1. me'[p].offline = me[p].offline
      BY <1>1, <2>2 DEF Go, Task
    <3> QED  BY <2>2, <3>1 DEF Online
  <2> QED  BY <1>2, <2>1, <2>2, Fields
<1>7. CASE Build(p) \/ Compare(p) \/ Copy(p)
  <2>1. me'[p].at \in {"linking", "identity", "copy", "replace"}
    BY <1>1, <1>7 DEF Build, Compare, Copy, Go, Task
  <2> QED  BY <1>2, <2>1
<1>8. CASE Link(p)
  BY <1>8 DEF Link, Online
<1> QED  BY <1>3, <1>4, <1>5, <1>6, <1>7, <1>8 DEF Acts, Work, Tooling, Building

\* While every invocation at work is offline, and no command that an online one
\* ran outlives it, no step changes the tools or the package index, and none, a
\* death included, leaves a command behind that would.
THEOREM OfflineLeaves == Spec => OfflineTakesWhatIsThere
<1>1. Init => OnlineOK
  BY DEF Init, OnlineOK, Online, Idle
<1>2. TypeOK /\ OnlineOK /\ [Next]_vars => OnlineOK'
  <2> SUFFICES ASSUME TypeOK, OnlineOK, [Next]_vars, NEW q \in Proc PROVE Online(q)'
    BY DEF OnlineOK
  <2>1. ASSUME NEW p \in Proc, Acts(p) PROVE Online(q)'
    BY <2>1, StaysOnline, LeavesOthers DEF OnlineOK, Elsewhere, Online
  <2>2. CASE Aloof \/ UNCHANGED vars
    BY <2>2 DEF Aloof, Edit, Outlive, vars, OnlineOK, Online
  <2> QED  BY <2>1, <2>2, Steppers
<1>3. TypeOK /\ OnlineOK /\ [Next]_vars => [~Fetching => UNCHANGED tools]_vars
  <2> SUFFICES ASSUME TypeOK, OnlineOK, [Next]_vars, ~Fetching PROVE UNCHANGED tools
    OBVIOUS
  <2>0. \A p \in Proc : left[p] = "none" /\ (Busy(p) => me[p].offline)
    BY DEF Fetching
  <2>1. ASSUME NEW p \in Proc, Acts(p) PROVE UNCHANGED tools
    <3>1. ~At(p, "install") /\ ~At(p, "place")
      BY <2>0 DEF OnlineOK, Online, Busy, At
    <3>2. CASE Install(p) \/ PlaceGhcup(p) \/ GhcupPlaced(p)
      BY <3>1, <3>2 DEF Install, Commanded, PlaceGhcup, GhcupPlaced
    <3>3. ~Refreshes(p)
      BY <2>0 DEF Refreshes, Busy, At
    <3>4. CASE RefreshIndex(p)
      BY <3>3, <3>4 DEF RefreshIndex, tools
    <3>5. CASE Crash(p)
      <4>1. ~Installs(p)
        BY <3>1 DEF Installs, Commanded
      <4>2. left' = [left EXCEPT ![p] = "none"]
        BY <3>3, <3>5, <4>1 DEF Crash
      <4>3. left' = left
        BY <2>0, <4>2 DEF TypeOK
      <4> QED  BY <3>5, <4>3 DEF Crash, tools
    <3>6. CASE Start(p) \/ Enter(p) \/ Probe(p) \/ Build(p) \/ Compare(p) \/ Copy(p) \/ Replace(p)
               \/ Aside(p) \/ Swap(p) \/ Identity(p) \/ Exec(p)
      BY <3>6 DEF Start, Enter, Probe, Build, Compare, Copy, Replace, Aside, Swap, Identity, Exec
    <3>7. CASE Link(p) \/ ProgramEnds(p) \/ Fail(p)
      BY <3>7 DEF Link, ProgramEnds, Fail
    <3> QED  BY <2>1, <3>2, <3>4, <3>5, <3>6, <3>7 DEF Acts, Work, Tooling, Building
  <2>2. CASE Aloof
    BY <2>0, <2>2 DEF Aloof, Edit, Outlive
  <2>3. CASE UNCHANGED vars
    BY <2>3 DEF vars
  <2> QED  BY <2>1, <2>2, <2>3, Steppers
<1> QED  BY <1>1, <1>2, <1>3, TypesHold, PTL DEF Spec, OfflineTakesWhatIsThere
===========================================================================
