----------------------------- MODULE KfdSource ------------------------------
(***************************************************************************)
(* gpu::contention::KfdSource (contention/kfd_source.cc): processes with   *)
(* an amdkfd queue on the device.                                          *)
(***************************************************************************)
EXTENDS GpuUsers

\* gpu_ids_, read once: the topology has the GPUs of AMD, by their PCI address;
\* a CPU has no gpu_id.
InTopology(host) == host.located /\ host.vendor = "amd"

Owns(w, host, p) == KindOf(w, host, p) = "compute"    \* holds a queue

\* Our own queue is skipped by its pid, or discounted where that is not known
\* but DeviceLocator::kfd_client is set.
OtherOwners(w, host) ==
  LET kfdClient == Owns(w, host, Self)
      selfSeen  == kfdClient /\ ~host.pidns
      pids      == {ProcessOf(host, p) : p \in {q \in Present(w) : Owns(w, host, q)}} \ (IF selfSeen THEN {Self} ELSE {})
      discount  == ~selfSeen /\ kfdClient /\ pids # {}
  IN  Cardinality(pids) - (IF discount THEN 1 ELSE 0)

\* A device that is not in the topology is left as it was.
Sample(w, host, given) ==
  IF ~InTopology(host) THEN {Sampled(0, given, FALSE)}
  ELSE IF OtherOwners(w, host) = 0 THEN {Sampled(0, [given EXCEPT !.verdict = "idle"], FALSE)}
  ELSE {Sampled(0, [verdict |-> "busy", busy |-> IF b = Unmeasured THEN given.busy ELSE b], FALSE)
          : b \in AverageGpuBusyPercent(host)}

=============================================================================
