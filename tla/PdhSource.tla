----------------------------- MODULE PdhSource ------------------------------
(***************************************************************************)
(* gpu::contention::PdhSource (contention/pdh_source.cc): processes that   *)
(* keep compute engines busy, by the GPU Engine counters of Windows.  Its  *)
(* state is last_, the raw values at the previous poll that collected any. *)
(***************************************************************************)
EXTENDS GpuUsers

\* Instances of compute engines (IsComputeEngineType); there are none of a
\* device that does not run under WDDM.
Instances(w, host) ==
  IF host.vendor = "nvidia" /\ ~host.wddm THEN {}
  ELSE {p \in Present(w) : KindOf(w, host, p) # "graphics"}

\* Collect, when it succeeds: new instances have no baseline, and from a
\* counter that fell or stood still in time PDH calculates nothing.
Raw(w, host) == [p \in Instances(w, host) |-> Reading(w, p)]

Busy(last, raw) ==
  [p \in {p \in DOMAIN last \cap DOMAIN raw :
            last[p].used <= raw[p].used /\ last[p].at < raw[p].at} |-> Share(last[p], raw[p])]

\* Whatever an earlier source left, the verdict is made anew.
Judged(busy, given) ==
  IF \E p \in DOMAIN busy \ {Self} : busy[p] >= MinBusyPercent
  THEN [verdict |-> "busy", busy |-> Capped(busy)]
  ELSE [given EXCEPT !.verdict = "idle"]

\* Where nothing could be collected, last_ and the devices stay as they were.
Sample(last, w, host, given) ==
  LET raw == Raw(w, host)
  IN  {Sampled(last, given, TRUE), Sampled(raw, Judged(Busy(last, raw), given), FALSE)}

=============================================================================
