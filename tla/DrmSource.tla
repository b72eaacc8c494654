----------------------------- MODULE DrmSource ------------------------------
(***************************************************************************)
(* gpu::contention::DrmSource (contention/drm_source.cc): DRM clients with *)
(* a compute runtime that keep the device's engines busy, each by itself,  *)
(* also where a process has several.  Its state is last_, the readings of  *)
(* its clients at the previous poll.  A client seen for the first time is  *)
(* read again a moment later, so a sample is Scan, perhaps Reread, and     *)
(* Conclude.                                                               *)
(***************************************************************************)
EXTENDS GpuUsers

\* nodes_, read once, by PCI address: the NVIDIA driver's are left out.
HasNode(host) == host.located /\ host.vendor # "nvidia"

\* A device that was measured already is left out.
Wanted(host, given) == HasNode(host) /\ ~MeasuredBusy(given)

\* The key of a client's reading: its process, with its drm-client-id or else
\* with its fd; p stands for a process and an fd, and no id is given twice.
Client(w, host, p) == <<p, IF host.ids /\ p # Self THEN w.client[p] ELSE 0>>

\* MapsComputeRuntime of the client's process, not asked of ourselves.
Looked(w, host) == {p \in Present(w) : p = Self \/ w.kind[p] # "graphics"}

\* ParseDrmFdinfo: amdgpu has no engine times of a process that uses amdkfd.
HasStats(w, host, p) ==
  host.stats # "none" /\ ~(host.vendor = "amd" /\ KindOf(w, host, p) = "compute")

\* A counter that fell counts for nothing; without time passed nothing is told
\* by times, and cycles that stand still count for nothing, too.
DrmBusyFraction(host, before, after) ==
  IF after.at = before.at THEN IF host.stats = "cycles" THEN 0 ELSE Unmeasured
  ELSE IF after.used < before.used THEN 0 ELSE Share(before, after)

\* What f tells, and g of what f does not tell.
Over(f, g) == [k \in DOMAIN f \cup DOMAIN g |-> IF k \in DOMAIN f THEN f[k] ELSE g[k]]

\* Readings of clients, and those of their fractions that are known.
Fractions(host, before, after) ==
  LET Fraction(k) == DrmBusyFraction(host, before[k], after[k])
  IN  [k \in {k \in DOMAIN before \cap DOMAIN after : Fraction(k) # Unmeasured} |-> Fraction(k)]

\* The pass over /proc: the readings, the clients without a baseline, and the
\* usage counted so far.  A client without stats counts by its runtime alone.
Scan(last, w, host) ==
  LET clients  == {Client(w, host, p) : p \in {q \in Looked(w, host) : HasStats(w, host, q)}}
      next     == [k \in clients |-> Reading(w, k[1])]
      blind    == {q \in w.here \cap Looked(w, host) : ~HasStats(w, host, q)}
  IN  [next  |-> next,
       fresh |-> clients \ DOMAIN last,
       usage |-> Over(Fractions(host, last, next),
                      [k \in {Client(w, host, p) : p \in blind} |-> Unmeasured])]

\* Mutation of Reread: the second reading is kept for the next poll only.
Reread_NextPoll(scan, w, host) ==
  LET again == {k \in scan.fresh : k[1] \in Present(w) /\ HasStats(w, host, k[1])}
      now   == [k \in again |-> Reading(w, k[1])]
  IN  [next  |-> Over(now, scan.next),
       fresh |-> {},
       usage |-> scan.usage]

\* The fresh clients are read again, where their fdinfo is still there.
Reread(scan, w, host) ==
  LET again == {k \in scan.fresh : k[1] \in Present(w) /\ HasStats(w, host, k[1])}
      now   == [k \in again |-> Reading(w, k[1])]
  IN  [next  |-> Over(now, scan.next),
       fresh |-> {},
       usage |-> Over(Fractions(host, scan.next, now), scan.usage)]

\* The clients of others that count: without stats, or busy enough, each on its
\* own.
Users(usage) ==
  {k \in DOMAIN usage : k[1] # Self /\ (usage[k] = Unmeasured \/ usage[k] >= MinBusyPercent)}

\* Mutation of Measured: only what the clients of others take.
Measured_Others(usage, host) ==
  IF \E k \in DOMAIN usage : usage[k] = Unmeasured THEN AverageGpuBusyPercent(host)
  ELSE {Capped([k \in {k \in DOMAIN usage : k[1] # Self} |-> usage[k]])}

\* What the device was busy: the sum over all clients, our own included, or
\* the whole device's where a client has no stats.
Measured(usage, host) ==
  IF \E k \in DOMAIN usage : usage[k] = Unmeasured THEN AverageGpuBusyPercent(host)
  ELSE {Capped(usage)}

Conclude(scan, host, given) ==
  LET seen == [given EXCEPT !.verdict = IF @ = "busy" THEN "busy" ELSE "idle"]
  IN  IF Users(scan.usage) = {} THEN {Sampled(scan.next, seen, FALSE)}
      ELSE {Sampled(scan.next, [verdict |-> "busy", busy |-> b], FALSE) : b \in Measured(scan.usage, host)}

=============================================================================
