----------------------------- MODULE NvmlSource -----------------------------
(***************************************************************************)
(* gpu::contention::NvmlSource (contention/nvml_source.cc): processes with *)
(* a compute context.  Its state is the device's entry of handles_:        *)
(* "unasked", "none" (a null handle) or "handle".                          *)
(***************************************************************************)
EXTENDS GpuUsers

\* Mutation of LookUp: any failure is remembered.
LookUp_RemembersAll(handle, host) ==
  IF handle # "unasked" THEN {handle}
  ELSE {"none", IF host.vendor # "nvidia" \/ host.wddm THEN "none" ELSE "handle"}

\* Only a lookup that tells what the device is not is remembered; but whether
\* the device runs under WDDM is asked along with it on Windows, and a device
\* that cannot tell is taken for one that does.
LookUp(handle, host) ==
  IF handle # "unasked" THEN {handle}
  ELSE {"unasked", IF host.vendor # "nvidia" \/ host.wddm THEN "none" ELSE "handle"}
         \cup (IF host.os = "windows" THEN {"none"} ELSE {})

\* Mutation of OtherEntries: our own entry is found by its pid only.
OtherEntries_ByPid(w, host) ==
  Cardinality({host.proc[p] : p \in {q \in w.here : w.kind[q] = "compute"}})
    + (IF host.pidns THEN 1 ELSE 0)

\* The entries of the compute list that are not ours, one for each process.
\* One of them is, where our own pid is not among them.
OtherEntries(w, host) ==
  LET contexts == {host.proc[p] : p \in {q \in w.here : w.kind[q] = "compute"}}
      listed   == Cardinality(contexts) + 1
  IN  IF host.pidns THEN Max({listed - 1, 0}) ELSE Cardinality(contexts)

\* The driver's samples since the last call, else its current reading.
DeviceBusy == {Unmeasured} \cup Readings

Judged(w, host, given) ==
  IF OtherEntries(w, host) = 0 THEN {[given EXCEPT !.verdict = "idle"]}
  ELSE {[verdict |-> "busy", busy |-> IF MeasuredBusy(given) /\ b = Unmeasured THEN given.busy ELSE b]
          : b \in DeviceBusy}

\* A device without a PCI address is passed over.  ComputePids may fail, too,
\* or find a list that grew twice.
Sample(handle, w, host, given) ==
  IF ~host.located THEN {Sampled(handle, given, FALSE)}
  ELSE UNION {IF h = "handle"
              THEN {Sampled(h, given, TRUE)} \cup {Sampled(h, o, FALSE) : o \in Judged(w, host, given)}
              ELSE {Sampled(h, given, h = "unasked")}
                : h \in LookUp(handle, host)}

=============================================================================
