---------------------------- MODULE MCNativeBuild ----------------------------
(* The instance of NativeBuild for TLC.                                       *)
EXTENDS NativeBuild, TLC

Checks == {"ubuntu 24.04", "sudo", "curl", "xcode", "brew", "winget", "powershell"}
On(system, machine, passes, used) ==
  [system |-> system, machine |-> machine, gpu |-> FALSE, passes |-> passes, used |-> used]

\* A host of each kind, and one that is refused for each reason.
TheHosts ==
  {On("Linux", "x86_64", Checks, FALSE), On("Darwin", "arm64", Checks, TRUE),
   On("Windows", "amd64", Checks, FALSE), On("Windows", "arm64", Checks, FALSE),
   On("Linux", "aarch64", Checks \ {"curl"}, FALSE), On("Linux", "riscv64", Checks, TRUE),
   On("Darwin", "x86_64", Checks, TRUE), On("FreeBSD", "amd64", Checks, TRUE)}

Named(stems, picked, name, executable) ==
  [stems |-> stems, picked |-> picked, names |-> [s \in stems |-> name],
   executables |-> [s \in stems |-> executable]]
TheProjects ==
  {Named({"demo", "old"}, "demo", <<"demo">>, <<"demo">>),
   Named({"demo", "old"}, "none", <<"demo">>, <<"demo">>),
   Named({"demo"}, "none", <<"demo">>, <<"demo", "other">>)}

CONSTANTS one, two
TheWays ==
  (one :> {<<"run", FALSE>>, <<"doctor", FALSE>>}) @@ (two :> {<<"run", FALSE>>, <<"build", TRUE>>})
===========================================================================
