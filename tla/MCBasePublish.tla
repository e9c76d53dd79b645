---------------------------- MODULE MCBasePublish ----------------------------
(* The instance of BasePublish for TLC.                                       *)
EXTENDS BasePublish

Source(n) == [size |-> n, readable |-> TRUE]
Unparsable(n) == [size |-> n, readable |-> FALSE]

\* Paths that fill a command line of 12 exactly, miss it by one, and do not fit.
TheSources ==
  [src |-> <<Source(5), Source(4), Source(5), Unparsable(20), Source(10), Source(1)>>,
   app |-> <<Unparsable(3)>>, test |-> <<>>]

TheCheckout ==
  [has |-> {"poetry project", "git", "lock", "venv", "interpreter", "toolchain"},
   sources |-> TheSources, dirty |-> {}]

Cuda(arches, matches) == [arches |-> arches, matches |-> matches]
TheCatalog ==
  [cuda |-> {Cuda({"amd64", "arm64"}, TRUE), Cuda({"arm64"}, TRUE), Cuda({"amd64"}, FALSE)},
   node |-> <<[lts |-> FALSE, arches |-> {"amd64"}], [lts |-> TRUE, arches |-> {"amd64"}]>>,
   go |-> <<"rc", "stable">>, latest |-> Tagged]

TheSetting ==
  [host |-> "amd64", engine |-> "amd64", linux |-> TRUE, cpus |-> 8, total |-> 16000000,
   checkout |-> TheCheckout, catalog |-> TheCatalog]

\* A machine where everything is there, one of each kind that is refused, and
\* among them one that is no Linux, whose cuda builds have no parent.
TheSettings ==
  {TheSetting,
   [TheSetting EXCEPT !.cpus = 7],
   [TheSetting EXCEPT !.total = 12000000],
   [TheSetting EXCEPT !.engine = "arm64"],
   [TheSetting EXCEPT !.host = "arm64", !.engine = "arm64"],
   [TheSetting EXCEPT !.catalog.latest = Tagged \ {"mc"}],
   [TheSetting EXCEPT !.linux = FALSE, !.cpus = 2,
      !.catalog.cuda = {Cuda({"arm64"}, TRUE), Cuda({"amd64"}, FALSE)}],
   [TheSetting EXCEPT !.checkout.has = {"git", "lock"}],
   [TheSetting EXCEPT !.checkout.sources.test = <<Source(11)>>],
   [TheSetting EXCEPT !.checkout.dirty = {"mypy", "coverage"}]}

TheAvailable == {8 * GiB - 1, 8 * GiB}

CONSTANTS one, two, here, there
TheHomes == {[i \in Proc |-> here], [i \in Proc |-> IF i = one THEN here ELSE there]}

Given(kind, flavor, sequential) ==
  [kind |-> kind, flavor |-> flavor, sequential |-> sequential, arch |-> "default",
   canonical |-> TRUE, forwarded |-> FALSE]
TheCommands ==
  [i \in Proc |->
     IF i = one THEN {Given("publish", "both", FALSE), Given("publish", "both", TRUE)}
     ELSE {Given("publish", "cpu", FALSE), Given("build", "cpu", TRUE),
           [Given("publish", "cuda", FALSE) EXCEPT !.arch = "arm64"],
           [Given("build", "cuda", FALSE) EXCEPT !.canonical = FALSE],
           Given("check-code", "both", FALSE),
           [Given("test-all", "both", FALSE) EXCEPT !.forwarded = TRUE]}]
===========================================================================
