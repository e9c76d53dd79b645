---------------------------- MODULE NativeBuild ----------------------------
(* hostbootstrap build and run: the host is checked, its toolchain ensured,  *)
(* the project's binary built with cabal, copied to its stable name and run. *)
(* Invocations take no lock: several work on one host and one project at a   *)
(* time, and each can die at any step and leave at work the command it ran.  *)
(* Tools, cabal's linker, the developer's edits and the programs that run are *)
(* the environment.                                                          *)
EXTENDS Integers, Sequences, FiniteSets

CONSTANTS
  Proc,        \* invocations at one time
  Hosts,       \* the hosts considered: [system, machine, gpu, passes, used]
  Projects,    \* the project roots: [stems, picked, names, executables]
  Inode,       \* files that exist at one time, at the stable name or beside it
  Ways,        \* the commands each is given: a kind and whether offline
  Attempts,    \* how often a tool that is busy is probed
  MaxVersion,  \* versions of the project's source
  MaxFault     \* how many steps fail or processes die

ASSUME NativeBuildAssumption ==
  /\ Inode \subseteq Nat \ {0} /\ Ways \in [Proc -> SUBSET ({"doctor", "build", "run"} \X BOOLEAN)]
  /\ Attempts \in Nat \ {0}
  /\ MaxVersion \in Nat \ {0} /\ MaxFault \in Nat
  /\ IsFiniteSet(Proc) /\ IsFiniteSet(Inode) /\ Cardinality(Inode) > 3 * Cardinality(Proc) + 1

VARIABLES
  host, project,
  tool,     \* each tool: "missing", "ok"; ghcup also half written, not yet
            \* executable ("partial") or over an executable one ("cut")
  index,    \* the cabal package index; a behaviour is shorter than the week it ages in
  left,     \* what a command that outlived its invocation is still installing
  source,   \* the version of the source
  dist,     \* what cabal's own executable holds
  links,    \* the version the cabal of an invocation is linking, 0 for none
  exe,      \* the file the stable name names, 0 for none
  temp, prev, \* the unique siblings an invocation made of it
  bytes,    \* the content of each file
  image,    \* the file a program that an invocation ran executes
  me,       \* what each invocation is doing
  shared,   \* ghost: another one built or published in its time
  faults

hosts == <<host, project>>
tools == <<tool, index, left>>
code == <<source, dist, links>>
files == <<exe, temp, prev, bytes, image>>
vars == <<hosts, tools, code, files, me, shared, faults>>

Torn == -1
IndexState == {"missing", "stale", "fresh"}
Tool == {"libs", "ghcup", "ghc", "cabal"}

---------------------------------------------------------------------------
(* The project, the host and its floor                                       *)

\* One cabal file, and one identity for its stem, package and executable.
Discovered(pr) ==
  \E stem \in pr.stems :
    /\ IF pr.picked = "none" THEN pr.stems = {stem} ELSE pr.picked = stem
    /\ pr.names[stem] = <<stem>> /\ pr.executables[stem] = <<stem>>

Arch(machine) ==
  CASE machine \in {"x86_64", "amd64"} -> "amd64"
    [] machine \in {"aarch64", "arm64"} -> "arm64"
    [] OTHER -> "none"

Substrate(h) ==
  CASE Arch(h.machine) = "none" -> "unsupported"
    [] h.system = "Darwin" /\ Arch(h.machine) = "arm64" -> "apple-silicon"
    [] h.system = "Linux" -> IF h.gpu THEN "linux-gpu" ELSE "linux-cpu"
    [] h.system = "Windows" -> IF h.gpu THEN "windows-gpu" ELSE "windows-cpu"
    [] OTHER -> "unsupported"

Windows == host.system = "Windows"
Linux == host.system = "Linux"

\* The checks of run_doctor; that of long paths only reports. A probe that
\* fails, cannot be launched or times out does not pass.
Floor(h) ==
  CASE h.system = "Linux" -> {"ubuntu 24.04", "sudo", "curl"}
    [] h.system = "Darwin" -> {"xcode", "sudo", "brew"}
    [] OTHER -> {"winget", "powershell"}

Passed == Substrate(host) # "unsupported" /\ Floor(host) \subseteq host.passes

\* toolchain_ensure_steps, after the libraries GHC itself links.
Steps ==
  IF Linux THEN <<"libs", "ghcup", "ghc", "cabal">> ELSE <<"ghcup", "ghc", "cabal">>

\* There is a pinned ghcup for this host; apple-silicon's comes from brew.
Pinned == ~(Windows /\ Arch(host.machine) = "arm64")

---------------------------------------------------------------------------
Idle == [at |-> "off", kind |-> "build", offline |-> FALSE, step |-> 1, tries |-> 0,
         seen |-> 0, built |-> 0]

At(p, s) == me[p].at = s
Go(p, s) == me' = [me EXCEPT ![p].at = s]
Stop(p) == me' = [me EXCEPT ![p] = Idle]
Reset(name, p) == name' = [name EXCEPT ![p] = 0]

Using == {exe} \cup {image[p] : p \in Proc} \cup {temp[p] : p \in Proc}
           \cup {prev[p] : p \in Proc}
Held(f) == \E p \in Proc : image[p] = f
Content(f) == IF f = 0 THEN 0 ELSE bytes[f]

\* A file that has lost its names and that no program executes is gone.
Forget == bytes' = [f \in Inode |-> IF f \in Using' THEN bytes[f] ELSE 0]

\* A host that is new, or that was used a while ago; the project is new.
Init ==
  /\ host \in Hosts /\ project \in Projects
  /\ tool = [t \in Tool |-> IF host.used THEN "ok" ELSE "missing"]
  /\ index = IF host.used THEN "stale" ELSE "missing"
  /\ left = [p \in Proc |-> "none"]
  /\ source = 1 /\ dist = 0 /\ links = [p \in Proc |-> 0]
  /\ exe = 0 /\ temp = links /\ prev = links /\ image = links
  /\ bytes = [f \in Inode |-> 0]
  /\ me = [p \in Proc |-> Idle] /\ shared = [p \in Proc |-> FALSE] /\ faults = 0

Start(p) ==
  /\ At(p, "off") /\ links[p] = 0 /\ left[p] = "none"
  /\ \E w \in Ways[p] :
       me' = [me EXCEPT ![p] = [Idle EXCEPT !.at = "enter", !.kind = w[1], !.offline = w[2]]]
  /\ Reset(prev, p)
  /\ UNCHANGED <<hosts, tools, code, exe, temp, image, faults>>
  /\ Forget

\* The commands up to the first thing they change.
Enter(p) ==
  /\ At(p, "enter")
  /\ IF me[p].kind # "doctor" /\ Discovered(project) /\ Passed THEN Go(p, "probe") ELSE Stop(p)
  /\ UNCHANGED <<hosts, tools, code, files, faults>>

---------------------------------------------------------------------------
(* The toolchain                                                             *)

Wanted(p) == Steps[me[p].step]
Placing == \E q \in Proc : At(q, "place")

\* Mutant: ghcup answers for what it is to install.
OutcomesOfGhcup(t) ==
  {IF tool[IF t = "libs" THEN t ELSE "ghcup"] = "ok" THEN "present" ELSE "absent"}

\* The outcomes of probing a tool; ghc and cabal are asked of ghcup. A file
\* that is not executable, is no program, or is being written cannot be
\* launched, for a reason other than being absent.
Outcomes(t) ==
  IF t = "libs" \/ tool["ghcup"] = "ok"
  THEN {IF tool[t] = "ok" THEN "present" ELSE "absent"}
  ELSE CASE tool["ghcup"] = "missing" -> {"absent"}
         [] Placing -> {IF Windows THEN "busy" ELSE "raises"}
         [] tool["ghcup"] = "partial" -> {"raises"}
         [] OTHER -> {"raises", "absent"}

NextStep(p) ==
  IF me[p].step = Len(Steps)
  THEN me' = [me EXCEPT ![p].at = "index", ![p].step = 1, ![p].tries = 0]
  ELSE me' = [me EXCEPT ![p].at = "probe", ![p].step = me[p].step + 1, ![p].tries = 0]

Probe(p) ==
  /\ At(p, "probe")
  /\ \E o \in Outcomes(Wanted(p)) :
       CASE o = "present" -> NextStep(p)
         [] o = "busy" /\ me[p].tries + 1 < Attempts ->
              me' = [me EXCEPT ![p].tries = me[p].tries + 1]
         [] o \in {"absent", "busy"} /\ ~me[p].offline -> Go(p, "install")
         [] OTHER -> Stop(p)
  /\ UNCHANGED <<hosts, tools, code, files, faults>>

\* A package manager's or ghcup's own installation, and whether it can run.
Commanded(p) == At(p, "install") /\ (Wanted(p) # "ghcup" \/ host.system = "Darwin")
Installs(p) == Commanded(p) /\ (Wanted(p) \in {"ghc", "cabal"} => tool["ghcup"] = "ok")

Install(p) ==
  /\ Commanded(p)
  /\ IF Installs(p)
     THEN tool' = [tool EXCEPT ![Wanted(p)] = "ok"] /\ NextStep(p)
     ELSE Stop(p) /\ UNCHANGED tool
  /\ UNCHANGED <<hosts, index, left, code, files, faults>>

GhcupRuns ==
  \E p \in Proc : \/ At(p, "install") /\ Wanted(p) \in {"ghc", "cabal"}
                  \/ left[p] \in {"ghc", "cabal"}

\* A download that matches its digest is copied over whatever is there by now,
\* first its bytes and then its permissions; one that does not is a failure. A
\* ghcup that runs cannot be written, nor on Windows one that is being written.
PlaceGhcup(p) ==
  /\ At(p, "install") /\ Wanted(p) = "ghcup" /\ host.system # "Darwin"
  /\ IF Pinned /\ (Windows => ~Placing) /\ ~GhcupRuns
     THEN /\ tool' = [tool EXCEPT !["ghcup"] =
                        IF tool["ghcup"] \in {"ok", "cut"} THEN "cut" ELSE "partial"]
          /\ Go(p, "place")
     ELSE Stop(p) /\ UNCHANGED tool
  /\ UNCHANGED <<hosts, index, left, code, files, faults>>

\* Two copies of the same bytes into one file end as that file.
GhcupPlaced(p) ==
  /\ At(p, "place")
  /\ tool' = [tool EXCEPT !["ghcup"] =
                IF \E q \in Proc \ {p} : At(q, "place") THEN "cut" ELSE "ok"]
  /\ NextStep(p)
  /\ UNCHANGED <<hosts, index, left, code, files, faults>>

---------------------------------------------------------------------------
(* The build                                                                 *)

\* Mutant: a missing index is never fetched.
RefreshIndexNever(p) ==
  /\ At(p, "index")
  /\ IF index = "missing" THEN Stop(p) ELSE Go(p, "build")
  /\ UNCHANGED <<hosts, tools, code, files, faults>>

Refreshes(p) == At(p, "index") /\ index # "fresh" /\ ~me[p].offline

RefreshIndex(p) ==
  /\ At(p, "index")
  /\ IF index = "missing" /\ me[p].offline THEN Stop(p) ELSE Go(p, "build")
  /\ index' = IF Refreshes(p) THEN "fresh" ELSE index
  /\ UNCHANGED <<hosts, tool, left, code, files, faults>>

\* cabal build: nothing to do, or an executable to link.
Build(p) ==
  /\ At(p, "build")
  /\ me' = [me EXCEPT ![p].at = "linking", ![p].built = source]
  /\ IF dist = source THEN UNCHANGED <<dist, links>>
     ELSE dist' = Torn /\ links' = [links EXCEPT ![p] = source]
  /\ UNCHANGED <<hosts, tools, source, files, faults>>

Link(p) ==
  /\ links[p] # 0
  /\ dist' = IF \E q \in Proc \ {p} : links[q] # 0 THEN Torn ELSE links[p]
  /\ Reset(links, p)
  /\ UNCHANGED <<hosts, tools, source, files, me, faults>>

---------------------------------------------------------------------------
(* Publication: _copy_if_changed                                             *)

\* Mutant: the stable copy is overwritten in place.
CompareAndOverwrite(p) ==
  /\ At(p, "linking") /\ links[p] = 0
  /\ IF exe # 0 /\ dist = bytes[exe]
     THEN Go(p, "identity") /\ UNCHANGED <<exe, bytes>>
     ELSE /\ Go(p, "identity") /\ exe' = IF exe = 0 THEN 1 ELSE exe
          /\ bytes' = [bytes EXCEPT ![exe'] = dist]
  /\ UNCHANGED <<hosts, tools, code, temp, prev, image, faults>>

\* Mutant: a binary that is there is taken for the one that was built.
CompareByName(p) ==
  /\ At(p, "linking") /\ links[p] = 0
  /\ IF Content(exe) > 0
     THEN Go(p, "identity") /\ UNCHANGED <<temp, bytes>>
     ELSE LET new == CHOOSE f \in Inode : f \notin Using
          IN /\ me' = [me EXCEPT ![p].at = "copy", ![p].seen = dist]
             /\ temp' = [temp EXCEPT ![p] = new]
             /\ bytes' = [bytes EXCEPT ![new] = Torn]
  /\ UNCHANGED <<hosts, tools, code, exe, prev, image, faults>>

\* _files_identical. A torn file has bytes of its own.
Identical == exe # 0 /\ dist = bytes[exe] /\ dist # Torn

\* list-bin, the comparison, and the sibling that is to be filled.
Compare(p) ==
  /\ At(p, "linking") /\ links[p] = 0
  /\ IF Identical
     THEN Go(p, "identity") /\ UNCHANGED <<temp, bytes>>
     ELSE LET new == CHOOSE f \in Inode : f \notin Using
          IN /\ me' = [me EXCEPT ![p].at = "copy", ![p].seen = dist]
             /\ temp' = [temp EXCEPT ![p] = new]
             /\ bytes' = [bytes EXCEPT ![new] = Torn]
  /\ UNCHANGED <<hosts, tools, code, exe, prev, image, faults>>

\* Whole only if nobody linked while it was read.
Copy(p) ==
  /\ At(p, "copy") /\ me' = [me EXCEPT ![p].at = "replace", ![p].seen = 0]
  /\ bytes' = [bytes EXCEPT ![temp[p]] = IF dist = me[p].seen THEN dist ELSE Torn]
  /\ UNCHANGED <<hosts, tools, code, exe, temp, prev, image, faults>>

\* os.replace of the stable name by the sibling.
Publish(p) == exe' = temp[p] /\ Reset(temp, p)

\* Windows does not let the file of a running program be replaced.
Replace(p) ==
  /\ At(p, "replace")
  /\ IF Windows /\ exe # 0 /\ Held(exe)
     THEN Go(p, "aside") /\ UNCHANGED <<exe, temp>>
     ELSE Publish(p) /\ Go(p, "identity")
  /\ UNCHANGED <<hosts, tools, code, prev, image, faults>>
  /\ Forget

Aside(p) ==
  /\ At(p, "aside")
  /\ IF exe = 0 THEN Stop(p) /\ Reset(temp, p) /\ UNCHANGED <<exe, prev>>
     ELSE exe' = 0 /\ prev' = [prev EXCEPT ![p] = exe] /\ Go(p, "swap") /\ UNCHANGED temp
  /\ UNCHANGED <<hosts, tools, code, image, faults>>
  /\ Forget

\* Mutant: nothing is put back.
SwapFailsOutright(p) ==
  Stop(p) /\ Reset(temp, p) /\ Reset(prev, p) /\ UNCHANGED exe

\* The second rename failed: the first is undone, if the name still is free or
\* nobody runs the file another invocation gave it.
SwapFails(p) ==
  /\ exe' = IF exe = 0 \/ ~Held(exe) THEN prev[p] ELSE exe
  /\ Stop(p) /\ Reset(temp, p) /\ Reset(prev, p)

\* What cannot be unlinked because it runs stays.
Swap(p) ==
  /\ At(p, "swap")
  /\ IF exe # 0 /\ Held(exe) THEN SwapFails(p)
     ELSE Publish(p) /\ Go(p, "identity") /\ Reset(prev, p)
  /\ UNCHANGED <<hosts, tools, code, image, faults>>
  /\ Forget

\* The published binary installs its own identity; build ends there.
Identity(p) ==
  /\ At(p, "identity")
  /\ IF Content(exe) > 0 /\ me[p].kind = "run" THEN Go(p, "exec") ELSE Stop(p)
  /\ UNCHANGED <<hosts, tools, code, files, faults>>

\* On POSIX the process becomes the program, on Windows it waits for it.
Exec(p) ==
  /\ At(p, "exec")
  /\ IF Content(exe) > 0
     THEN image' = [image EXCEPT ![p] = exe] /\ Go(p, "running")
     ELSE Stop(p) /\ UNCHANGED image
  /\ UNCHANGED <<hosts, tools, code, exe, temp, prev, bytes, faults>>

---------------------------------------------------------------------------
(* The environment                                                           *)

ProgramEnds(p) ==
  /\ At(p, "running") /\ Stop(p) /\ Reset(image, p)
  /\ UNCHANGED <<hosts, tools, code, exe, temp, prev, faults>>
  /\ Forget

Edit ==
  /\ source < MaxVersion /\ source' = source + 1
  /\ UNCHANGED <<hosts, tools, dist, links, files, me, faults>>

Busy(p) == ~At(p, "off") /\ ~At(p, "running")

\* A command fails, a disk is full, or the user interrupts: the child is killed
\* and the sibling removed.
Fail(p) ==
  /\ Busy(p) /\ faults < MaxFault /\ faults' = faults + 1
  /\ IF At(p, "swap") THEN SwapFails(p)
     ELSE Stop(p) /\ Reset(temp, p) /\ UNCHANGED <<exe, prev>>
  /\ IF At(p, "linking") THEN Reset(links, p) ELSE UNCHANGED links
  /\ UNCHANGED <<hosts, tools, source, dist, image>>
  /\ Forget

\* A process that is killed leaves the command it ran at work, be it cabal's
\* linker, an installer or cabal update, as does one that kills a command which
\* has children; and siblings nobody looks at: the one that holds the last binary
\* is followed until the next start.
Crash(p) ==
  /\ Busy(p) /\ faults < MaxFault /\ faults' = faults + 1
  /\ Stop(p) /\ Reset(temp, p)
  /\ left' = [left EXCEPT ![p] = IF Installs(p) THEN Wanted(p)
                                 ELSE IF Refreshes(p) THEN "index" ELSE "none"]
  /\ UNCHANGED <<hosts, tool, index, code, exe, prev, image>>
  /\ Forget

\* A command that was left behind comes to its end.
Outlive(p) ==
  /\ left[p] # "none" /\ left' = [left EXCEPT ![p] = "none"]
  /\ IF left[p] = "index" THEN index' = "fresh" /\ UNCHANGED tool
     ELSE tool' = [tool EXCEPT ![left[p]] = "ok"] /\ UNCHANGED index
  /\ UNCHANGED <<hosts, code, files, me, faults>>

---------------------------------------------------------------------------
Tooling(p) == Enter(p) \/ Probe(p) \/ Install(p) \/ PlaceGhcup(p) \/ GhcupPlaced(p)
Building(p) == RefreshIndex(p) \/ Build(p) \/ Compare(p) \/ Copy(p) \/ Replace(p)
                 \/ Aside(p) \/ Swap(p) \/ Identity(p) \/ Exec(p)
Work(p) == Tooling(p) \/ Building(p)

Publishing(p) ==
  links[p] # 0 \/ me[p].at \in {"linking", "copy", "replace", "aside", "swap", "identity",
                                "exec"}
Watch ==
  shared' = [p \in Proc |->
    /\ me'[p].at # "off"
    /\ shared[p] \/ (Publishing(p)' /\ \E q \in Proc \ {p} : Publishing(q)')]

Next ==
  /\ \/ \E p \in Proc : \/ Start(p) \/ Work(p) \/ Link(p) \/ ProgramEnds(p)
                       \/ Fail(p) \/ Crash(p) \/ Outlive(p)
     \/ Edit
  /\ Watch

Spec == Init /\ [][Next]_vars

\* An invocation goes on by itself, and so does every command. The developer runs the
\* program again, online, and a program ends.
Fairness ==
  \A p \in Proc :
    /\ WF_vars((Work(p) \/ Link(p) \/ ProgramEnds(p)) /\ Watch)
    /\ WF_vars(Outlive(p) /\ Watch)
    /\ SF_vars(Start(p) /\ Watch /\ me'[p].kind = "run" /\ ~me'[p].offline)
FairSpec == Spec /\ Fairness

---------------------------------------------------------------------------
Task ==
  [at : {"off", "enter", "probe", "install", "place", "index", "build", "linking", "copy",
         "replace", "aside", "swap", "identity", "exec", "running"},
   kind : {"doctor", "build", "run"}, offline : BOOLEAN, step : 1 .. Len(Steps),
   tries : 0 .. Attempts - 1, seen : {Torn} \cup 0 .. MaxVersion, built : 0 .. MaxVersion]

TypeOK ==
  /\ host \in Hosts /\ project \in Projects
  /\ tool \in [Tool -> {"missing", "partial", "cut", "ok"}]
  /\ index \in IndexState /\ left \in [Proc -> Tool \cup {"index", "none"}]
  /\ source \in 1 .. MaxVersion /\ dist \in {Torn} \cup 0 .. MaxVersion
  /\ links \in [Proc -> 0 .. MaxVersion]
  /\ exe \in Inode \cup {0} /\ bytes \in [Inode -> {Torn} \cup 0 .. MaxVersion]
  /\ \A name \in {temp, prev, image} : name \in [Proc -> Inode \cup {0}]
  /\ me \in [Proc -> Task]
  /\ shared \in [Proc -> BOOLEAN] /\ faults \in 0 .. MaxFault

\* The bytes of a program that runs never change, whatever is built and
\* published meanwhile.
ImagesAreKept ==
  [][\A p \in Proc : image[p] # 0 /\ image'[p] = image[p]
       => bytes'[image[p]] = bytes[image[p]]]_vars

\* What run executes is the whole binary of the source it built, unless another
\* invocation built or published in its time; what others left before, torn or
\* of another version, does not matter.
RunsWhatItBuilt ==
  \A p \in Proc : At(p, "running") /\ ~shared[p] => bytes[image[p]] = me[p].built

\* The stable name, once given, names a file: on Windows a publication beside a
\* running program takes it away for a moment, and gives it back or replaces
\* it, also when it fails; one that dies then leaves the last binary beside it.
StableNameStays ==
  [][/\ exe # 0 /\ exe' = 0 => Windows
     /\ \A p \in Proc : At(p, "swap") /\ me'[p].at # "swap" => exe' # 0 \/ prev'[p] # 0]_vars

\* While every invocation is an offline one, and nothing an online one ran has
\* outlived it, nothing reaches the host's toolchain or package index, and no death
\* leaves anything behind that would.
Fetching == \E p \in Proc : left[p] # "none" \/ (Busy(p) /\ ~me[p].offline)
OfflineTakesWhatIsThere == [][~Fetching => UNCHANGED tools]_vars

\* cabal is run with all it and ghc need.
BuildsWithItsToolchain ==
  \A p \in Proc : Publishing(p) =>
    \A i \in DOMAIN Steps : Steps[i] # "ghcup" => tool[Steps[i]] = "ok"

\* On a host that has its floor, once faults and edits have ceased, the binary of
\* the last source is installed for good, unless a ghcup was left half written or
\* invocations keep coming at the same time: whatever those that overlapped or
\* died have left, one that comes alone repairs.
Buildable == Passed /\ Discovered(project) /\ (Pinned \/ tool["ghcup"] = "ok")
Wedged == tool["ghcup"] \in {"partial", "cut"} /\ ~Placing
Overlap == \E p, q \in Proc : p # q /\ Busy(p) /\ Busy(q)
Converges == Buildable => <>[]Wedged \/ []<>Overlap \/ <>[](Content(exe) = source)
===========================================================================
