----------------------------- MODULE MCSources -----------------------------
EXTENDS Sources, TLC

CONSTANTS a, b

MCOthers == {a, b}
MCMinBusyPercent == 50
MCReadings == {0, 100}
MCWork == {0, 1}

\* Two clients of two processes, or of one.
Each    == [p \in MCOthers |-> p]
OneProc == [p \in MCOthers |-> "process"]

Host(os, vendor) ==
  [os |-> os, vendor |-> vendor, proc |-> Each, located |-> TRUE, nvml |-> vendor = "nvidia",
   kfd |-> vendor = "amd", pdh |-> os = "windows", wddm |-> FALSE, pidns |-> FALSE, own |-> "compute", kinds |-> {"compute", "graphics"}, stats |-> "none", ids |-> FALSE, whole |-> FALSE]

Radeon == [Host("linux", "amd") EXCEPT !.stats = "ns", !.ids = TRUE, !.kinds = {"compute", "mesa"}]
Arc    == [Host("linux", "intel") EXCEPT !.stats = "cycles", !.ids = TRUE, !.kinds = {"compute"}]

\* Where a device may have no PCI address or registry id, and where there may
\* be no GPU Engine counters.
Unlocated == {Radeon, Host("linux", "nvidia"), Host("windows", "nvidia"), Host("macos", "apple")}
Uncounted == {Host("windows", "nvidia"), Host("windows", "amd")}

MCHosts == {
  Host("linux", "nvidia"), [Host("linux", "nvidia") EXCEPT !.pidns = TRUE],
  [Host("linux", "nvidia") EXCEPT !.nvml = FALSE], [Host("windows", "nvidia") EXCEPT !.nvml = FALSE],
  [Radeon EXCEPT !.whole = TRUE, !.pidns = TRUE],
  [Radeon EXCEPT !.own = "mesa", !.kinds = {"mesa", "graphics"}],
  Arc, [Host("linux", "intel") EXCEPT !.stats = "ns"], Host("linux", "intel"),
  Host("windows", "nvidia"), [Host("windows", "nvidia") EXCEPT !.wddm = TRUE],
  Host("windows", "amd"), Host("macos", "apple"),
  [Arc EXCEPT !.proc = OneProc], [Host("linux", "nvidia") EXCEPT !.proc = OneProc],
  [Radeon EXCEPT !.proc = OneProc, !.kfd = FALSE]} \cup
  {[h EXCEPT !.located = FALSE] : h \in Unlocated} \cup {[h EXCEPT !.pdh = FALSE] : h \in Uncounted}

\* An Arc of which one process has two clients.
MCArcShared == {[Arc EXCEPT !.proc = OneProc]}
MCAboveHalf == 60

\* A Radeon kept fully busy, loadmaster using HIP on it.
MCRadeonHip == {[Radeon EXCEPT !.whole = TRUE]}
MCFullyBusy == {100}

Symmetric == Permutations(MCOthers)

=============================================================================
