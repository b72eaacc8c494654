------------------------------ MODULE GpuUsers ------------------------------
(***************************************************************************)
(* The clients of one GPU, and what drivers and operating systems tell of  *)
(* them, as the contention sources use it.  A client is what opens the     *)
(* device: on Linux a process and an fd of its, elsewhere the process.     *)
(* Time is counted in units, in each of which an engine can be busy for    *)
(* Full.  A world is a record                                              *)
(*   here     the clients of others that have the device open              *)
(*   kind     "compute" of a process with the vendor's runtime (on AMD,    *)
(*            with an amdkfd queue), "mesa" with Mesa's, else "graphics"   *)
(*   client   the drm-client-id of a client                                *)
(*   used     the engine time a client has used; starts anew with it       *)
(*   clock    the time                                                     *)
(* and a host, which never changes, a record                               *)
(*   os, vendor                                                            *)
(*   proc     the process of each client of others                         *)
(*   located  the device's PCI address or registry id is known             *)
(*   nvml     NVML is installed                                            *)
(*   kfd      amdkfd's topology is there                                   *)
(*   pdh      the GPU Engine counters could be collected at start-up       *)
(*   wddm     the device runs under WDDM                                   *)
(*   pidns    own processes have other pids there than getpid() tells      *)
(*   own      the kind of loadmaster's own context                         *)
(*   kinds    the kinds of clients that others have there                  *)
(*   stats    what fdinfo tells of a client: "ns", "cycles" or "none"      *)
(*   ids      whether it tells a drm-client-id                             *)
(*   whole    whether there is a gpu_busy_percent                          *)
(***************************************************************************)
EXTENDS Observations, FiniteSets, FiniteSetsExt

CONSTANTS
  Others,           \* the clients that others may have
  Full,             \* engine time in a unit of time
  MinBusyPercent,   \* kGpuYieldMinBusyPercent
  Readings          \* what is read where the whole device is measured

Self == "self"

Present(w) == w.here \cup {Self}

ProcessOf(host, p) == IF p = Self THEN Self ELSE host.proc[p]

KindOf(w, host, p) == IF p = Self THEN host.own ELSE w.kind[p]

Reading(w, p) == [used |-> w.used[p], at |-> w.clock]

\* Percent of the time between two readings that an engine was busy.
Share(before, after) ==
  (100 * (after.used - before.used)) \div (Full * (after.at - before.at))

\* Several engines busy at once add up: a device is at most fully busy.
Capped(shares) == Min({MapThenSumSet(LAMBDA k : shares[k], DOMAIN shares), 100})

\* The outcome of a source's Sample: what it remembers, what it left in
\* out[i], and whether a call of it failed.
Sampled(state, seen, failed) == [state |-> state, seen |-> seen, failed |-> failed]

\* linux_fs::AverageGpuBusyPercent: an average of what could be read.
AverageGpuBusyPercent(host) == {Unmeasured} \cup (IF host.whole THEN Readings ELSE {})

=============================================================================
