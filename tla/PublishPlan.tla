---------------------------- MODULE PublishPlan ----------------------------
(* What base build and base build-and-push compute before the first docker   *)
(* build: whether they may run at all, the gates of the checkout, the share   *)
(* of the host each build gets, and the parent of each flavor.               *)
EXTENDS Integers, FiniteSets, Sequences, SequencesExt

CONSTANT ArgvBudget   \* the longest command line of the formatter

ASSUME PublishPlanAssumption == ArgvBudget \in Nat \ {0}

Flavor == {"cpu", "cuda"}

\* _base_targets: both flavors, in this order, or the one asked for.
Targets(c) == IF c.flavor = "both" THEN <<"cpu", "cuda">> ELSE <<c.flavor>>
TargetSet(c) == IF c.flavor = "both" THEN Flavor ELSE {c.flavor}
Concurrent(c) == ~c.sequential /\ c.flavor = "both"

---------------------------------------------------------------------------
(* resources.py; memory in KiB, as /proc/meminfo has it                       *)

MiB == 1024
GiB == 1024 * MiB
MinCpus == 8
MinTotal == 14 * GiB
MinAvailable == 8 * GiB
MinHeadroom == 2 * GiB
PerJob == (5 * GiB) \div 2

Larger(x, y) == IF x >= y THEN x ELSE y
Smaller(x, y) == IF x <= y THEN x ELSE y

\* The processors this process may use, and /proc/meminfo as it is now.
Measured(s, available) == [cpus |-> s.cpus, total |-> s.total, available |-> available]

Sufficient(h) ==
  h.cpus >= MinCpus /\ h.total >= MinTotal /\ h.available >= MinAvailable

\* The caps of one of n builds at a time: cpus, memory in MiB, cabal's jobs.
Unbounded == [cpus |-> 0, memory |-> 0, jobs |-> 0]
Headroom(available) == Larger(available \div 4, MinHeadroom)
ShareOf(h, n) == Larger(Larger(h.available - Headroom(h.available), PerJob) \div n, PerJob)
Budget(h, n) ==
  LET share == ShareOf(h, n)
      cpus == Larger(1, Larger(1, h.cpus - 1) \div n)
  IN [cpus |-> cpus, memory |-> share \div MiB,
      jobs |-> Larger(1, Smaller(cpus, share \div PerJob))]

\* Mutant: every build gets the whole host.
ConcurrencyOne(c) == 1

Concurrency(c) == IF Concurrent(c) THEN 2 ELSE 1

---------------------------------------------------------------------------
(* The maintainer's authority and the architecture                           *)

Authority(checkout) ==
  {"poetry project", "git", "lock", "venv", "interpreter", "toolchain"} \subseteq checkout.has

\* No emulation: what is asked for, the host and the engine are one.
Native(c, host, engine) ==
  engine \in {"amd64", "arm64"} /\ host = engine /\ c.arch \in {"default", host}

---------------------------------------------------------------------------
(* The gates                                                                 *)

\* A source is the length of its path and whether the formatter can parse it.
Readable(source) == source.readable
Rendered(sources) ==
  LET length[n \in 0 .. Len(sources)] ==
        IF n = 0 THEN 1 ELSE length[n - 1] + 1 + sources[n].size
  IN length[Len(sources)]
TooLong(source) == Rendered(<<source>>) > ArgvBudget

\* Mutant: the source that does not fit is left to a command that never comes.
AddDropping(chunks, source) ==
  IF Last(chunks) # <<>> /\ Rendered(Append(Last(chunks), source)) > ArgvBudget
  THEN Append(chunks, <<>>)
  ELSE Append(Front(chunks), Append(Last(chunks), source))

Add(chunks, source) ==
  IF Last(chunks) # <<>> /\ Rendered(Append(Last(chunks), source)) > ArgvBudget
  THEN Append(chunks, <<source>>)
  ELSE Append(Front(chunks), Append(Last(chunks), source))

\* The formatter's commands over one root.
Sources(checkout, root) ==
  LET all == checkout.sources[root]
      kept[n \in 0 .. Len(all)] ==
        IF n = 0 THEN <<>>
        ELSE IF Readable(all[n]) THEN Append(kept[n - 1], all[n]) ELSE kept[n - 1]
  IN kept[Len(all)]
Chunks(checkout, root) ==
  LET sources == Sources(checkout, root)
      upTo[n \in 0 .. Len(sources)] ==
        IF n = 0 THEN <<<<>>>> ELSE Add(upTo[n - 1], sources[n])
  IN IF sources = <<>> THEN <<>> ELSE upTo[Len(sources)]

\* check_code and test_all stop at the first step that fails; forwarded
\* arguments leave the coverage out.
CodeCheck == {"ruff", "black", "mypy"}
TestRun(forwarded) == {"pytest"} \cup (IF forwarded THEN {} ELSE {"coverage"})

\* Every gate, by what it asks of the checkout.
Gates(checkout) ==
  CodeCheck \cup TestRun(FALSE)
    \cup {"formatter" : root \in {r \in DOMAIN checkout.sources : Chunks(checkout, r) # <<>>}}
    \cup {"linter", "core build", "core tests", "demo build", "demo tests"}
Commandable(checkout) ==
  \A root \in DOMAIN checkout.sources :
    \A k \in DOMAIN Sources(checkout, root) : ~TooLong(Sources(checkout, root)[k])
Clean(checkout) == Commandable(checkout) /\ Gates(checkout) \cap checkout.dirty = {}

---------------------------------------------------------------------------
(* The parents and tools of a build, from what upstream offers               *)

\* resolve_cuda_base_image takes the latest of the tags that match its pattern and
\* have an image for the machine: there has to be one.
Fitting(catalog, arch) == {t \in catalog.cuda : t.matches /\ arch \in t.arches}

\* The first long-term release of Node in the listing that has the asset, the
\* first stable Go, and the latest tag of the others.
HasNode(catalog, arch) ==
  \E k \in DOMAIN catalog.node : catalog.node[k].lts /\ arch \in catalog.node[k].arches
HasGo(catalog) == \E k \in DOMAIN catalog.go : catalog.go[k] = "stable"
Tagged == {"purescript", "kind", "kubectl", "helm", "mc", "pulumi"}
Resolved(flavor, catalog, arch) ==
  /\ flavor = "cuda" => Fitting(catalog, arch) # {}
  /\ HasNode(catalog, arch) /\ HasGo(catalog) /\ Tagged \subseteq catalog.latest
===========================================================================
